---------------------------- MODULE HelperDiscovery ----------------------------
(***************************************************************************)
(* Which helper servers a browser node uses: the signed records it caches  *)
(* (helperDiscovery.ts), the lists the user set by hand (servers.ts), and  *)
(* the lists in use by the node, its server sync and its peer network      *)
(* (node.ts).  Records come in any order, from servers, peers, the site's  *)
(* well-known file and the settings page; they expire; the page reloads.   *)
(* A record's format and signature are one flag, "sound".                  *)
(***************************************************************************)
EXTENDS Integers, SequencesExt

CONSTANTS
  Records,           \* every record that is about
  NoUrl,
  DomainOf,          \* of a URL: its registrable domain
  Seeds,             \* [api |-> .., signaling |-> ..]: defaultServerLists()
  HandLists,         \* what a user sets by hand
  MaxCachedPer,      \* MAX_CACHE_PER_OPERATOR and MAX_CACHE_PER_DOMAIN
  MaxRecords,        \* MAX_RECORDS
  MaxPer,            \* maxPerOperator and maxPerDomain of a selection
  MaxServers,        \* maxServers of a selection
  MaxNow             \* bound of the clock

Sides == {"api", "signaling"}

(* What the constants are assumed to be; MCParts has TLC check it.         *)
DiscoveryConstants ==
  /\ \A r \in Records : DOMAIN r = {"hash", "operator", "api", "signaling", "from", "until", "sound"}
  /\ \A q, r \in Records : q.hash = r.hash => q = r
  /\ DOMAIN Seeds = Sides /\ \A s \in Sides : Len(Seeds[s]) <= MaxServers

VARIABLES
  cache,      \* localStorage browsercoin:helper-records
  stored,     \* localStorage's lists, {} or {the list} a side, and the legacy URL
  lists,      \* Node.serverLists
  asked,      \* ServerSync.apiServers
  meeting,    \* PeerNetwork.signalingServers
  connected,  \* some peer is connected
  now

vars == <<cache, stored, lists, asked, meeting, connected, now>>

Unset == {}

-----------------------------------------------------------------------------
(* isHelperRecordShape, and the signature.                                 *)
Sound(r) == r.sound

(* isHelperRecordUsable, by the clock t.                                   *)
Usable(r, t) == Sound(r) /\ r.from <= t /\ t < r.until

ByHash(S) == SetToSortSeq(S, LAMBDA q, r : q.hash < r.hash)

UrlsOf(r) == {r.api, r.signaling} \ {NoUrl}
DomainsOf(r) == {DomainOf[u] : u \in UrlsOf(r)}

HowMany(seq, Test(_)) == Len(SelectSeq(seq, Test))

(* capConcentration: in order, what leaves its operator and its domains    *)
(* within their caps.                                                      *)
Fits(kept, r) ==
  /\ Len(kept) < MaxRecords
  /\ HowMany(kept, LAMBDA q : q.operator = r.operator) < MaxCachedPer
  /\ \A d \in DomainsOf(r) : HowMany(kept, LAMBDA q : d \in DomainsOf(q)) < MaxCachedPer

Capped(seq) ==
  FoldLeft(LAMBDA kept, r : IF Fits(kept, r) THEN Append(kept, r) ELSE kept, <<>>, seq)

(* mergeHelperRecords; the mutant puts what has just come first.           *)
MergedFreshFirst(old, batch) ==
  Capped(ByHash({r \in batch : Usable(r, now)}) \o ByHash({r \in Range(old) \ batch : Usable(r, now)}))

Merged(old, batch) == Capped(ByHash({r \in Range(old) \cup batch : Usable(r, now)}))

(* selectHelperServers: an operator and a domain give at most MaxPer each. *)
Enters(urls, url) ==
  /\ url # NoUrl /\ Len(urls) < MaxServers /\ url \notin Range(urls)
  /\ HowMany(urls, LAMBDA u : DomainOf[u] = DomainOf[url]) < MaxPer

With(urls, url) == IF Enters(urls, url) THEN Append(urls, url) ELSE urls

TakeUp(chosen, r) ==
  IF \/ HowMany(chosen.operators, LAMBDA o : o = r.operator) >= MaxPer
     \/ ~Enters(chosen.api, r.api) /\ ~Enters(chosen.signaling, r.signaling)
  THEN chosen
  ELSE [ api       |-> With(chosen.api, r.api),
         signaling |-> With(chosen.signaling, r.signaling),
         operators |-> Append(chosen.operators, r.operator) ]

(* withSeedDefaults: the seeds first, the rest up to the limit; in the     *)
(* mutant the seeds are a fallback.                                        *)
Distinct(urls) ==
  FoldLeft(LAMBDA out, u : IF u \in Range(out) THEN out ELSE Append(out, u), <<>>, urls)

WithSeedsLast(seeds, found) ==
  LET all == Distinct(found \o seeds) IN SubSeq(all, 1, Min({MaxServers, Len(all)}))

WithSeeds(seeds, found) ==
  LET all == Distinct(seeds \o found) IN SubSeq(all, 1, Min({MaxServers, Len(all)}))

Selected(records) ==
  LET chosen == FoldLeft(TakeUp, [api |-> <<>>, signaling |-> <<>>, operators |-> <<>>],
                         SelectSeq(records, LAMBDA r : Usable(r, now)))
  IN  [s \in Sides |-> WithSeeds(Seeds[s], chosen[s])]

(* loadServerLists: what the user set, else the legacy URL, else what was  *)
(* discovered, each side on its own.  Only the legacy URL is saved.        *)
Loaded(kept, records) ==
  LET fallback == IF kept.legacy # NoUrl THEN [s \in Sides |-> <<kept.legacy>>] ELSE Selected(records)
  IN  [s \in Sides |-> IF kept[s] # Unset THEN CHOOSE l \in kept[s] : TRUE ELSE fallback[s]]

Saved(hand, legacy) ==
  [api |-> {Distinct(hand.api)}, signaling |-> {Distinct(hand.signaling)}, legacy |-> legacy]

Migrated(kept, records) ==
  IF kept.legacy # NoUrl /\ \E s \in Sides : kept[s] = Unset
  THEN Saved(Loaded(kept, records), kept.legacy) ELSE kept

-----------------------------------------------------------------------------
Init ==
  /\ cache = <<>> /\ now = 0 /\ connected = FALSE
  /\ stored \in { Migrated([api |-> a, signaling |-> s, legacy |-> l], cache) :
                    a \in {Unset} \cup {{h.api} : h \in HandLists},
                    s \in {Unset} \cup {{h.signaling} : h \in HandLists},
                    l \in {NoUrl} \cup {h.api[1] : h \in HandLists} }
  /\ lists = Loaded(stored, cache)
  /\ asked = lists.api /\ meeting = lists.signaling

(* A reload of the page: the lists are loaded, the network starts on them. *)
Reload ==
  /\ lists' = Loaded(stored, cache) /\ stored' = Migrated(stored, cache)
  /\ asked' = lists'.api /\ meeting' = lists'.signaling /\ connected' = FALSE
  /\ UNCHANGED <<cache, now>>

(* refreshServerListsFromDiscovery.  The network is left alone while a     *)
(* peer is connected: setSignalingServers would drop the connections.      *)
Refresh(records) ==
  /\ lists' = Loaded(stored, records) /\ stored' = Migrated(stored, records)
  /\ asked' = IF lists'.api # lists.api THEN lists'.api ELSE asked
  /\ meeting' = IF lists'.signaling # lists.signaling /\ ~connected
                THEN lists'.signaling ELSE meeting

(* saveCachedHelperRecords, loadCachedHelperRecords: what is read back is  *)
(* what was saved, or, localStorage being full, what was there before.     *)
ReadBack(old, records) == {old, records}

(* ingestHelperRecords: nothing happens unless the merge changes the cache; *)
(* a write that is lost does not hold up the refresh.                      *)
Deliver(batch) ==
  LET merged == Merged(cache, batch)
  IN  IF Range(merged) = Range(cache) THEN UNCHANGED vars
      ELSE /\ cache' \in ReadBack(cache, merged)
           /\ Refresh(cache')
           /\ UNCHANGED <<connected, now>>

(* setServerLists, from the settings page: the network restarts.           *)
SetByHand(hand) ==
  /\ stored' = Saved(hand, stored.legacy) /\ lists' = hand
  /\ asked' = hand.api /\ meeting' = hand.signaling /\ connected' = FALSE
  /\ UNCHANGED <<cache, now>>

Connect    == ~connected /\ meeting # <<>> /\ connected' = TRUE
              /\ UNCHANGED <<cache, stored, lists, asked, meeting, now>>
Disconnect == connected /\ connected' = FALSE
              /\ UNCHANGED <<cache, stored, lists, asked, meeting, now>>
TimePasses == now < MaxNow /\ now' = now + 1
              /\ UNCHANGED <<cache, stored, lists, asked, meeting, connected>>

Next ==
  \/ \E batch \in SUBSET Records : batch # {} /\ Deliver(batch)
  \/ \E hand \in HandLists : SetByHand(hand)
  \/ Reload \/ Connect \/ Disconnect \/ TimePasses

-----------------------------------------------------------------------------
(* A list the user set is the one in use, whatever is discovered and       *)
(* through every reload (node.ts:912); on a side the user left alone every *)
(* seed is in use (helperDiscovery.ts:116); and the two subsystems never   *)
(* meet or ask a server that neither the user, the seeds nor a sound       *)
(* record named.                                                           *)
InUse(s) == IF s = "api" THEN asked ELSE meeting

Named(s) ==
  UNION {Range(h[s]) : h \in HandLists} \cup Range(Seeds[s]) \cup {stored.legacy}
    \cup {r[s] : r \in {q \in Records : q.sound}}

ListsKept == \A s \in Sides :
  /\ \A l \in stored[s] : Range(InUse(s)) = Range(l)
  /\ stored[s] = Unset /\ stored.legacy = NoUrl => Range(Seeds[s]) \subseteq Range(InUse(s))
  /\ Range(InUse(s)) \subseteq Named(s)

(* The records settle: however often the sources send theirs again, and in *)
(* whatever order, the cache stops changing and with it the refreshes      *)
(* (serverSync.ts:440).  No fairness: no behaviour changes it for ever.    *)
RecordsSettle == <>[][UNCHANGED cache]_cache

(* A refresh that runs while no peer is connected leaves the network on    *)
(* the list the node would load: "Apply newly cached helper records to     *)
(* live subsystems" (node.ts:912).                                         *)
RefreshReaches ==
  [][cache' # cache /\ ~connected => meeting' = Loaded(stored', cache').signaling]_vars
=============================================================================
