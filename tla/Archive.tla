-------------------------------- MODULE Archive --------------------------------
(***************************************************************************)
(* The chain archiver (server/tools/archive.ts): it pulls buried blocks    *)
(* from the helper servers, validates them, and appends them to chunk      *)
(* files, followed by a snapshot and a manifest.  A run may be killed, or  *)
(* a write fail, at any step; each file is replaced atomically.  The       *)
(* servers follow a network that grows and reorganises meanwhile.          *)
(*                                                                         *)
(* A block is the branch that ends in it, from the block after the genesis *)
(* (which is <<>>) on: its height is its length, its parent its front.     *)
(***************************************************************************)
EXTENDS Integers, SequencesExt

CONSTANTS
  Servers,        \* --servers
  Confirmations,  \* --confirmations
  ChunkSize,      \* --chunk-size
  PerRequest,     \* BLOCKS_PER_REQUEST, the most /blocks gives
  MaxHeight,      \* bound of the network's chain
  MaxRuns         \* bound: runs that die or fail

(* What the constants are assumed to be; MCParts has TLC check it.         *)
ArchiveConstants ==
  /\ Confirmations \in Nat /\ MaxHeight \in Nat /\ MaxRuns \in Nat
  /\ ChunkSize \in Nat \ {0} /\ PerRequest \in Nat \ {0}
  /\ IsFiniteSet(Servers)

VARIABLES
  net,       \* the network's best chain
  tips,      \* the chain of each server
  deep,      \* history: the network reorganised below the confirmations
  disk,      \* the chunks, by index, the snapshot and the manifest
  run,       \* the running process
  archived,  \* history: the tip of every manifest written
  cut        \* history: the runs that ended after their first write of a flush

vars == <<net, tips, deep, disk, run, archived, cut>>

ChunkOf(h) == (h - 1) \div ChunkSize
From(i) == i * ChunkSize + 1
To(i) == (i + 1) * ChunkSize
Chunks == 0..ChunkOf(MaxHeight)

At(b, h) == SubSeq(b, 1, h)

Idle == [step |-> "idle", chain |-> <<>>, base |-> <<>>, target |-> 0, servers |-> {}, next |-> 0]

Init ==
  /\ net = <<>> /\ tips = [s \in Servers |-> <<>>] /\ deep = FALSE
  /\ disk = [chunks |-> [i \in Chunks |-> <<>>], snapshot |-> <<>>, manifest |-> <<>>]
  /\ run = Idle /\ archived = {<<>>} /\ cut = 0

-----------------------------------------------------------------------------
(* The network, and the servers that follow it. A branch that takes over   *)
(* is at least one block longer.                                           *)
Grow ==
  /\ Len(net) < MaxHeight /\ net' = Append(net, 0)
  /\ UNCHANGED <<tips, deep, disk, run, archived, cut>>

Reorg(k) ==
  LET fork == Len(net) - k
  IN /\ k <= Len(net) /\ Len(net) < MaxHeight
     /\ net' = At(net, fork) \o [j \in 1..(k + 1) |-> IF j = 1 THEN 1 - net[fork + 1] ELSE 0]
     /\ deep' = (deep \/ k > Confirmations)
     /\ UNCHANGED <<tips, disk, run, archived, cut>>

Follow(s) ==
  /\ tips' = [tips EXCEPT ![s] = net]
  /\ UNCHANGED <<net, deep, disk, run, archived, cut>>

-----------------------------------------------------------------------------
Archived == Len(disk.manifest)

Listed == IF Archived = 0 THEN {} ELSE 0..ChunkOf(Archived)

(* What the manifest says chunk i holds.                                   *)
Size(i) == (IF To(i) < Archived THEN To(i) ELSE Archived) - From(i) + 1

(* seedHistoricalBlock of the blocks of chunk i, each on the one before it. *)
Links(i) ==
  \A k \in 1..Size(i) :
    LET b == disk.chunks[i][k]
    IN /\ Len(b) = From(i) + k - 1
       /\ k > 1 => Front(b) = disk.chunks[i][k - 1]
       /\ k = 1 /\ i > 0 => Front(b) = Last(disk.chunks[i - 1])

(* loadArchive: the snapshot is the manifest's, every listed chunk is as   *)
(* long as listed, its blocks link up, and the last of them is the tip,    *)
(* whose stateRoot is the snapshot's.                                      *)
Loads ==
  /\ disk.snapshot = disk.manifest
  /\ \A i \in Listed : Len(disk.chunks[i]) = Size(i) /\ Links(i)
  /\ Archived # 0 => Last(disk.chunks[ChunkOf(Archived)]) = disk.manifest

(* Mutant: nothing is left unconfirmed.                                    *)
TargetOf(best) == best

Target(best) == best - Confirmations

(* A run starts: the best of the tips that could be fetched sets the       *)
(* target.  Nothing happens if it is archived or the archive does not load. *)
Start(reachable) ==
  LET best == CHOOSE n \in {Len(tips[s]) : s \in reachable} :
                \A s \in reachable : Len(tips[s]) <= n
  IN /\ run.step = "idle" /\ reachable # {} /\ Loads /\ Target(best) > Archived
     /\ run' = [step |-> "pull", chain |-> disk.manifest, base |-> disk.manifest,
                target |-> Target(best), servers |-> reachable, next |-> ChunkOf(Archived + 1)]
     /\ UNCHANGED <<net, tips, deep, disk, archived, cut>>

BatchTarget ==
  IF run.target < Len(run.base) + ChunkSize THEN run.target ELSE Len(run.base) + ChunkSize

(* One answer to /blocks, by any of the servers (those before it failed):  *)
(* addBlock takes its blocks when they extend the chain.                   *)
Pull(s) ==
  LET from == Len(run.chain)
      given == { n \in 1..Len(tips[s]) : n <= BatchTarget /\ n <= from + PerRequest }
      upto == CHOOSE n \in given : \A m \in given : m <= n
  IN /\ run.step = "pull" /\ s \in run.servers
     /\ given # {} /\ upto > from /\ At(tips[s], from) = run.chain
     /\ run' = [run EXCEPT !.chain = At(tips[s], upto),
                           !.step = IF upto = BatchTarget THEN "chunks" ELSE "pull"]
     /\ UNCHANGED <<net, tips, deep, disk, archived, cut>>

(* The part of chunk i that is archived already, kept from the disk.       *)
Kept(i) == IF From(i) <= Len(run.base) THEN disk.chunks[i] ELSE <<>>

(* flush: the next chunk. It refuses when the chain left the archived tip, *)
(* or the boundary chunk is not as long as the manifest says.              *)
WriteChunk ==
  LET i == run.next
      last == IF To(i) < Len(run.chain) THEN To(i) ELSE Len(run.chain)
      new == [k \in 1..(last - From(i) + 1 - Len(Kept(i))) |->
                At(run.chain, From(i) + Len(Kept(i)) + k - 1)]
  IN /\ run.step = "chunks" /\ At(run.chain, Len(run.base)) = run.base
     /\ From(i) <= Len(run.base) => Len(Kept(i)) = Len(run.base) - From(i) + 1
     /\ disk' = [disk EXCEPT !.chunks[i] = Kept(i) \o new]
     /\ run' = [run EXCEPT !.next = i + 1,
                           !.step = IF i = ChunkOf(Len(run.chain)) THEN "snapshot" ELSE "chunks"]
     /\ UNCHANGED <<net, tips, deep, archived, cut>>

WriteSnapshot ==
  /\ run.step = "snapshot"
  /\ disk' = [disk EXCEPT !.snapshot = run.chain]
  /\ run' = [run EXCEPT !.step = "manifest"]
  /\ UNCHANGED <<net, tips, deep, archived, cut>>

(* The manifest; then the next batch starts from the archive loaded anew.  *)
WriteManifest ==
  /\ run.step = "manifest"
  /\ disk' = [disk EXCEPT !.manifest = run.chain]
  /\ archived' = archived \cup {run.chain}
  /\ run' = IF Len(run.chain) < run.target /\ Loads'
            THEN [run EXCEPT !.step = "pull", !.base = run.chain, !.next = ChunkOf(Len(run.chain) + 1)]
            ELSE Idle
  /\ UNCHANGED <<net, tips, deep, cut>>

(* The process is killed, or ends with an error: no server has the next    *)
(* block, a block is rejected, a write fails, flush refuses.               *)
Dies ==
  /\ run.step # "idle" /\ cut < MaxRuns /\ run' = Idle
  /\ cut' = cut + (IF run.next # ChunkOf(Len(run.base) + 1) THEN 1 ELSE 0)
  /\ UNCHANGED <<net, tips, deep, disk, archived>>

Next ==
  \/ Grow \/ (\E k \in 1..MaxHeight : Reorg(k)) \/ (\E s \in Servers : Follow(s) \/ Pull(s))
  \/ (\E R \in SUBSET Servers : Start(R)) \/ WriteChunk \/ WriteSnapshot \/ WriteManifest \/ Dies

Spec == Init /\ [][Next]_vars

-----------------------------------------------------------------------------
(* "Reorg safety: only blocks buried at least --confirmations [...] below  *)
(* the best server tip are archived, so chunk files never need rewriting"  *)
(* (archive.ts:19-21): while no reorg goes below the confirmations, the    *)
(* archive stays on the network's chain.                                   *)
BuriedOnly == ~deep => IsPrefix(disk.manifest, net)

(* Whatever dies between two writes, and however deep the network reorgs:  *)
(* the chunks hold the chain of the manifest block for block, no manifest  *)
(* ever leaves the chain of an earlier one ("refusing to rewrite archive   *)
(* history"), and an archive no flush was cut short in loads. Read from    *)
(* one server, it archives what is buried only.                            *)
ArchiveSound ==
  /\ \A h \in 1..Archived : disk.chunks[ChunkOf(h)][h - From(ChunkOf(h)) + 1] = At(disk.manifest, h)
  /\ \A t \in archived : IsPrefix(t, disk.manifest)
  /\ run.step = "idle" /\ cut = 0 => Loads
  /\ Cardinality(Servers) = 1 => BuriedOnly
=============================================================================
