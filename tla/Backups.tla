-------------------------------- MODULE Backups --------------------------------
(***************************************************************************)
(* The checkpoints of the API server's chain file (server/api.ts): taken   *)
(* when one is due by the newest file on disk, then thinned, every one     *)
(* kept while it is young, one a week for a while, one a month for ever.   *)
(* The server may stop, crash or fail a write at any step.  A tick of the  *)
(* schedule is taken to end before the next (they are an hour apart).      *)
(***************************************************************************)
EXTENDS Integers, FiniteSetsExt

CONSTANTS
  Interval,   \* BACKUP_INTERVAL_MS less the minute's tolerance
  Dense,      \* TIER_DENSE_MS
  Weekly,     \* TIER_WEEKLY_MS
  Week, Month,
  MaxNow      \* bound of the clock

(* What the constants are assumed to be; MCParts has TLC check it.         *)
BackupConstants ==
  /\ {Interval, Dense, Weekly, Week, Month, MaxNow} \subseteq Nat \ {0}
  /\ Dense <= Weekly

VARIABLES
  files,   \* the backups on disk, each by the time in its name
  doomed,  \* what the running prune has still to remove
  step,    \* of the running backupTick: "idle", "prune" or "remove"
  now,
  taken    \* history: every backup ever written

vars == <<files, doomed, step, now, taken>>

Init == files = {} /\ doomed = {} /\ step = "idle" /\ now = 0 /\ taken = {}

-----------------------------------------------------------------------------
SameWeek(t, u) == t \div Week = u \div Week
SameMonth(t, u) == t \div Month = u \div Month

Age(t) == now - t

(* pruneBackups: two aged backups of one tier and one bucket; the newer of *)
(* them stays.  The mutant keeps the older.                                *)
OneBucket(t, u) ==
  /\ Age(t) >= Dense /\ Age(u) >= Dense
  /\ (Age(t) < Weekly) = (Age(u) < Weekly)
  /\ IF Age(t) < Weekly THEN SameWeek(t, u) ELSE SameMonth(t, u)

AllButOldest == {t \in files : \E u \in files : u < t /\ OneBucket(t, u)}

Superseded == {t \in files : \E u \in files : u > t /\ OneBucket(t, u)}

Due == \A t \in files : Age(t) >= Interval

(* backupTick: a backup if one is due; a write that fails ends the tick.   *)
Check ==
  /\ step = "idle"
  /\ \/ /\ Due /\ files' = files \cup {now} /\ taken' = taken \cup {now} /\ step' = "prune"
     \/ ~Due /\ step' = "prune" /\ UNCHANGED <<files, taken>>
  /\ UNCHANGED <<doomed, now>>

List ==
  /\ step = "prune" /\ step' = "remove" /\ doomed' = Superseded
  /\ UNCHANGED <<files, now, taken>>

Remove ==
  /\ step = "remove" /\ doomed # {}
  /\ files' = files \ {Max(doomed)} /\ doomed' = doomed \ {Max(doomed)}
  /\ UNCHANGED <<step, now, taken>>

(* The tick's end, and a crash or a failure of the disk at any point.      *)
Stop ==
  /\ step # "idle" /\ step' = "idle" /\ doomed' = {}
  /\ UNCHANGED <<files, now, taken>>

TimePasses ==
  /\ now < MaxNow /\ now' = now + 1
  /\ UNCHANGED <<files, doomed, step, taken>>

Next == Check \/ List \/ Remove \/ Stop \/ TimePasses

-----------------------------------------------------------------------------
(* A young backup is there; for every backup ever taken there is still one *)
(* as recent or newer, of the same week's month ("one per ISO-week ... one *)
(* per calendar month ... kept indefinitely", api.ts:355); and no restart  *)
(* takes two within one interval ("no double-backup on restart", :403).    *)
BackupsCover ==
  /\ \A t \in taken : Age(t) < Dense => t \in files
  /\ \A t \in taken : \E u \in files :
       u >= t /\ \E v \in t..u : SameWeek(t, v) /\ SameMonth(v, u)
  /\ \A t, u \in taken : t < u => u - t >= Interval
=============================================================================
