------------------------------- MODULE Journal -------------------------------
(***************************************************************************)
(* etoile::journal::Journal::Record (src/etoile/journal/Journal.cc): once *)
(* no actor operates on a scope any more, the actions its context's       *)
(* transcript recorded are performed on the depot in order (a push stores *)
(* a block at an address, a wipe removes it), then the transcript is      *)
(* cleared, the context marked cleaned and the scope relinquished.        *)
(*                                                                         *)
(* Depot::Push and Depot::Wipe may fail (the store is remote); Record then *)
(* escapes with the actions before the failing one already performed and  *)
(* the transcript intact, and a later Record performs all of them again.  *)
(* The actors and the transcript's recording are gear code, not under      *)
(* src/: actors join and leave the scope and record actions while there.  *)
(***************************************************************************)
EXTENDS Naturals, Sequences, SequencesExt

CONSTANTS
  Actors,         \* actors that may operate on the scope
  Addresses,      \* block addresses
  Blocks,         \* block contents
  NoBlock,        \* the depot holds nothing at an address
  MaxTranscript   \* bound on the actions recorded in one transcript

Actions == [type : {"push"}, address : Addresses, block : Blocks]
             \cup [type : {"wipe"}, address : Addresses]

VARIABLES
  actors,       \* scope->actors
  transcript,   \* scope->context->transcript
  state,        \* scope->context->state
  depot,        \* address -> block stored, or NoBlock
  base          \* the depot when the transcript started (history only)

vars == <<actors, transcript, state, depot, base>>

Init ==
  /\ actors = {}
  /\ transcript = <<>>
  /\ state = "cleaned"
  /\ depot = [a \in Addresses |-> NoBlock]
  /\ base = depot

\* An actor joins or leaves the scope.
Join(c) ==
  /\ c \notin actors
  /\ actors' = actors \cup {c}
  /\ UNCHANGED <<transcript, state, depot, base>>

Leave(c) ==
  /\ c \in actors
  /\ actors' = actors \ {c}
  /\ UNCHANGED <<transcript, state, depot, base>>

\* An actor on the scope records an action in the transcript.
Note(act) ==
  /\ actors # {}
  /\ Len(transcript) < MaxTranscript
  /\ transcript' = Append(transcript, act)
  /\ state' = "modified"
  /\ base' = IF transcript = <<>> THEN depot ELSE base
  /\ UNCHANGED <<actors, depot>>

(***************************************************************************)
(* One action of the transcript performed on the depot: the switch on     *)
(* action->type, each case ending with its break.                         *)
(***************************************************************************)
\* Mutant: the push case without its break, falling through into the wipe.
PerformFallThrough(d, act) ==
  [d EXCEPT ![act.address] = NoBlock]

Perform(d, act) ==
  IF act.type = "push" THEN [d EXCEPT ![act.address] = act.block]
                       ELSE [d EXCEPT ![act.address] = NoBlock]

(***************************************************************************)
(* Record(scope): with actors still on the scope it returns at once,      *)
(* changing nothing (a stuttering step, so the guard actors = {} below).  *)
(* Otherwise the actions are performed in order; a failing Push or Wipe   *)
(* escapes after the ones before it (failAt - 1 of them), and a failing   *)
(* transcript.Clear() escapes after all of them (failAt = Len + 1), the   *)
(* transcript kept either way; when all succeed the transcript is cleared *)
(* and the context cleaned.                                                *)
(***************************************************************************)
Record ==
  /\ actors = {}
  /\ transcript # <<>>
  /\ \/ \E failAt \in 1..(Len(transcript) + 1) :
          /\ depot' = FoldLeft(Perform, depot, SubSeq(transcript, 1, failAt - 1))
          /\ UNCHANGED <<transcript, state>>
     \/ /\ depot' = FoldLeft(Perform, depot, transcript)
        /\ transcript' = <<>>
        /\ state' = "cleaned"
  /\ UNCHANGED <<actors, base>>

Next ==
  \/ \E c \in Actors : Join(c) \/ Leave(c)
  \/ \E act \in Actions : Note(act)
  \/ Record

Spec == Init /\ [][Next]_vars

-----------------------------------------------------------------------------
(***************************************************************************)
(* The reference outcome of a transcript: at each address the last action *)
(* on it decides what the depot holds; an address no action names keeps  *)
(* what it held.                                                           *)
(***************************************************************************)
Outcome(d, t) ==
  [a \in Addresses |->
     LET mine == SelectInSeq(t, LAMBDA x : x.address = a)
         last == SelectLastInSeq(t, LAMBDA x : x.address = a)
     IN  IF mine = 0 THEN d[a]
         ELSE IF t[last].type = "push" THEN t[last].block ELSE NoBlock]

(***************************************************************************)
(* When Record clears a transcript, the depot is what performing it once, *)
(* in order, gives from the depot it started with, however many earlier   *)
(* Record calls failed part way and had already performed a prefix of it. *)
(***************************************************************************)
ReplayedOnce ==
  [][transcript # <<>> /\ transcript' = <<>> =>
       depot' = Outcome(base, transcript)]_vars

=============================================================================
