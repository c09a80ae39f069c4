----------------------------- MODULE ServerStore -----------------------------
(***************************************************************************)
(* One helper server as a process, src/server/api.ts: it admits the blocks *)
(* it is posted, one request at a time in every await of addBlock, parks   *)
(* those without a parent, saves its canonical chain to one file when a    *)
(* timer finds it changed, and starts again from that file after a crash,  *)
(* a signal or an upgrade. HelperServer is the same admission with every   *)
(* request in one step and no disk.                                        *)
(*                                                                         *)
(* The file holds a canonical chain, so its tip stands for it; the genesis *)
(* stands for no file. It is written aside and renamed: a crash before the *)
(* rename leaves the old one.                                              *)
(***************************************************************************)
EXTENDS ChainTree, SequencesExt

CONSTANTS
  Client,       \* who posts blocks
  Invalid,      \* the blocks that addBlock refuses
  MaxOrphans,   \* MAX_ORPHANS
  MaxFaults     \* bound: crashes, signals, failed writes and requests

ASSUME ServerStoreConstants ==
  MaxOrphans \in Nat \ {0} /\ MaxFaults \in Nat /\ Genesis \notin Invalid

VARIABLES
  mode,      \* "up", "stopping": shutdown() waits, "flushing": its last write
             \* is under way, "down": crashed or given up, "stopped": flushed
  held,      \* chain.blocks
  tip,       \* the canonical tip
  orphans,   \* the parked blocks, oldest first
  handlers,  \* POST /block in an await of addBlock: who posted what, and which
             \* block is being added, the posted one or a drained one
  dirty,     \* chainDirty
  saving,    \* saveInFlight: the tip of the chain being written, or NoBlock
  disk,      \* CHAIN_FILE: its tip
  owed,      \* history: the tip when the signal came
  faults

memory == <<held, tip, orphans, handlers>>
store == <<dirty, saving, disk>>
signal == <<owed, faults>>
serverVars == <<mode, memory, store, signal>>

Fault == faults < MaxFaults /\ faults' = faults + 1

Running == mode \in {"up", "stopping", "flushing"}

ServerTypeOK ==
  /\ mode \in {"up", "stopping", "flushing", "down", "stopped"}
  /\ held \subseteq Block /\ tip \in held /\ disk \in Block
  /\ orphans \in Seq(Block) /\ Len(orphans) <= MaxOrphans
  /\ IsInjective([i \in DOMAIN orphans |-> Parent[orphans[i]]])
  /\ handlers \subseteq [from : Client, posted : Block, adding : Block]
  /\ dirty \in BOOLEAN /\ saving \in Block \cup {NoBlock}
  /\ mode = "flushing" => saving # NoBlock
  /\ owed \in Block /\ faults \in 0..MaxFaults

(* The process before main() has read the file.                            *)
ServerInit ==
  /\ mode = "down" /\ held = {Genesis} /\ tip = Genesis /\ orphans = <<>>
  /\ handlers = {} /\ dirty = FALSE /\ saving = NoBlock /\ disk = Genesis
  /\ owed = Genesis /\ faults = 0

-----------------------------------------------------------------------------
(* Admission                                                               *)

Waiting(b) == { i \in DOMAIN orphans : Parent[orphans[i]] = b }

(* Mutant: no limit.                                                       *)
ParkedBeside(b) ==
  LET same == { i \in DOMAIN orphans : Parent[orphans[i]] = Parent[b] }
  IN IF same = {} THEN Append(orphans, b)
     ELSE [i \in DOMAIN orphans |-> IF i \in same THEN b ELSE orphans[i]]

(* orphans.set: a parked block of the same parent is replaced in its place; *)
(* before that a full map loses its oldest, even when it need not.          *)
Parked(b) ==
  LET kept == IF Len(orphans) >= MaxOrphans THEN Tail(orphans) ELSE orphans
      same == { i \in DOMAIN kept : Parent[kept[i]] = Parent[b] }
  IN IF same = {} THEN Append(kept, b)
     ELSE [i \in DOMAIN kept |-> IF i \in same THEN b ELSE kept[i]]

(* POST /block, up to the first await of tryAdmitBlock.                    *)
Post(c, b) ==
  /\ Running
  /\ \A h \in handlers : ~(h.from = c /\ h.posted = b)
  /\ \/ /\ b \in held /\ dirty' = TRUE /\ UNCHANGED <<orphans, handlers>>
     \/ /\ b \notin held /\ Parent[b] \notin held
        /\ orphans' = Parked(b) /\ UNCHANGED <<handlers, dirty>>
     \/ /\ b \notin held /\ Parent[b] \in held
        /\ handlers' = handlers \cup {[from |-> c, posted |-> b, adding |-> b]}
        /\ UNCHANGED <<orphans, dirty>>
  /\ UNCHANGED <<mode, held, tip, saving, disk, signal>>

(* Mutant: orphans are drained when the tip moves.                         *)
DrainAtTip(h) == IF Work[h.adding] > Work[tip] THEN Waiting(h.adding) ELSE {}

(* drainOrphans: where the block is parked that waits for the one just     *)
(* added, if there is one.                                                 *)
Drain(h) == Waiting(h.adding)

(* addBlock has stored its block: tip and listeners, then on with the      *)
(* orphan that waits for it, or the answer.                                *)
Admit(h) ==
  LET next == Drain(h)
  IN /\ Running /\ h.adding \notin Invalid
     /\ held' = held \cup {h.adding}
     /\ tip' = IF Work[h.adding] > Work[tip] THEN h.adding ELSE tip
     /\ orphans' = IF next = {} THEN orphans ELSE RemoveAt(orphans, CHOOSE i \in next : TRUE)
     /\ handlers' = (handlers \ {h}) \cup { [h EXCEPT !.adding = orphans[i]] : i \in next }
     /\ dirty' = (dirty \/ next = {})
     /\ UNCHANGED <<mode, saving, disk, signal>>

(* addBlock refuses its block: if that was an orphan, the posted one is in, *)
(* and what waits for the orphan goes on waiting.                          *)
Refuse(h) ==
  /\ Running /\ h.adding \in Invalid
  /\ handlers' = handlers \ {h} /\ dirty' = (dirty \/ h.adding # h.posted)
  /\ UNCHANGED <<mode, held, tip, orphans, saving, disk, signal>>

-----------------------------------------------------------------------------
(* Persistence                                                             *)

(* flushChainIfDirty by its timer, up to the write.                        *)
FlushStart ==
  /\ Running /\ dirty /\ saving = NoBlock
  /\ saving' = tip /\ dirty' = FALSE
  /\ UNCHANGED <<mode, memory, disk, signal>>

(* The new file is in place.                                               *)
FlushDone ==
  /\ Running /\ saving # NoBlock
  /\ disk' = saving /\ saving' = NoBlock
  /\ mode' = IF mode = "flushing" THEN "stopped" ELSE mode
  /\ UNCHANGED <<memory, dirty, signal>>

(* Mutant: the failure is only logged.                                     *)
StillCleanAfterFailure == FALSE

DirtyAfterFailure == TRUE

FlushFails ==
  /\ Running /\ saving # NoBlock /\ Fault
  /\ saving' = NoBlock /\ dirty' = DirtyAfterFailure
  /\ mode' = IF mode = "flushing" THEN "down" ELSE mode
  /\ UNCHANGED <<memory, disk, owed>>

-----------------------------------------------------------------------------
(* Shutdown, crash and start                                               *)

(* SIGTERM or SIGINT.                                                      *)
Signal ==
  /\ mode = "up" /\ Fault
  /\ mode' = "stopping" /\ owed' = tip
  /\ UNCHANGED <<memory, store>>

LastFlush == "flushing"

(* The write under way is over: everything is written once more, whether   *)
(* marked or not.                                                          *)
FlushLast ==
  /\ mode = "stopping" /\ saving = NoBlock
  /\ mode' = LastFlush /\ dirty' = FALSE
  /\ saving' = IF mode' = "flushing" THEN tip ELSE NoBlock
  /\ UNCHANGED <<memory, disk, signal>>

(* After 5 s of waiting for it the flush finds it still under way and      *)
(* returns at once: the process exits on it.                               *)
GiveUpFlush ==
  /\ mode = "stopping" /\ saving # NoBlock
  /\ mode' = "down" /\ UNCHANGED <<memory, store, signal>>

Crash ==
  /\ Running /\ Fault
  /\ mode' = "down" /\ UNCHANGED <<memory, store, owed>>

(* main(): loadChainFromDisk replays the file's blocks; one of another     *)
(* chain version is removed. (Bound: that happens after the last fault.)    *)
Boot(file) ==
  /\ ~Running
  /\ mode' = "up" /\ disk' = file
  /\ held' = Ancestors[file] /\ tip' = file /\ orphans' = <<>> /\ handlers' = {}
  /\ dirty' = FALSE /\ saving' = NoBlock
  /\ owed' = Genesis /\ UNCHANGED faults

Start == Boot(disk)
Upgrade == disk # Genesis /\ mode = "stopped" /\ faults = MaxFaults /\ Boot(Genesis)

Serve(c) == \E h \in handlers : h.from = c /\ (Admit(h) \/ Refuse(h))

ServerNext ==
  \/ \E c \in Client : Serve(c)
  \/ FlushStart \/ FlushDone \/ FlushFails
  \/ Signal \/ FlushLast \/ GiveUpFlush \/ Crash \/ Start \/ Upgrade

-----------------------------------------------------------------------------
(* A parked block is not forgotten: none has its parent in the chain, in   *)
(* whatever order two of a branch were posted and their proofs of work     *)
(* checked.                                                                *)
OrphansDrained == \A i \in DOMAIN orphans : Parent[orphans[i]] \notin held

(* "On a clean stop/restart flush them before exiting so a restart doesn't *)
(* replay stale on-disk state": unless its last write fails or the wait    *)
(* for the one before lasts over 5 s, a server that stopped left a file no *)
(* lighter than the chain at the signal, posts and writes in between.      *)
StopSaves == mode = "stopped" => Work[disk] >= Work[owed]

(* What was posted is not forgotten: neither in memory nor on disk.        *)
ServerKeeps == OrphansDrained /\ StopSaves
=============================================================================
