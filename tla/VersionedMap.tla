---------------------------- MODULE VersionedMap ----------------------------
(***************************************************************************)
(* What the store promises to the state machine: a map that is changed     *)
(* through a stack of drafts, and a history of maps that a commit extends, *)
(* that a crash or a rollback may shorten and that nothing else touches.   *)
(***************************************************************************)
EXTENDS Naturals

CONSTANTS Key,      \* state keys
          Value,    \* what a key may hold
          None      \* the key is absent

VARIABLES depth,    \* number of drafts, the committed map's own included
          draft,    \* draft[depth] is what the state machine reads
          last,     \* the latest version
          history   \* history[v] is the map committed as version v

vars == <<depth, draft, last, history>>

Map == [Key -> Value \cup {None}]
Empty == [k \in Key |-> None]

Init ==
    /\ depth = 1 /\ draft = [i \in 1 .. 1 |-> Empty]
    /\ last = 0 /\ history = [v \in 0 .. 0 |-> Empty]

Write ==
    /\ \E k \in Key, x \in Value \cup {None} :
           draft' = [draft EXCEPT ![depth] = [@ EXCEPT ![k] = x]]
    /\ UNCHANGED <<depth, last, history>>

\* a draft begins as a copy of the one below it
Begin ==
    /\ depth' = depth + 1
    /\ draft' = [i \in 1 .. depth + 1 |-> IF i <= depth THEN draft[i] ELSE draft[depth]]
    /\ UNCHANGED <<last, history>>

\* the topmost draft replaces the one below it
Keep ==
    /\ depth > 1
    /\ depth' = depth - 1
    /\ draft' = [i \in 1 .. depth - 1 |-> IF i < depth - 1 THEN draft[i] ELSE draft[depth]]
    /\ UNCHANGED <<last, history>>

Drop ==
    /\ \E d \in 1 .. depth - 1 : depth' = d /\ draft' = [i \in 1 .. d |-> draft[i]]
    /\ UNCHANGED <<last, history>>

\* the draft becomes the next version; a write that failed may have used up numbers
Commit ==
    /\ depth = 1
    /\ last' > last
    /\ last' \in Nat
    /\ history' = [v \in 0 .. last' |->
                       IF v <= last THEN history[v] ELSE
                       IF v < last' THEN history[last] ELSE draft[1]]
    /\ UNCHANGED <<depth, draft>>

\* everything not committed is forgotten, and some versions may be
Rewind ==
    /\ depth' = 1
    /\ last' \in 0 .. last
    /\ history' = [v \in 0 .. last' |-> history[v]]
    /\ draft' = [i \in 1 .. 1 |-> history'[last']]

Next == Write \/ Begin \/ Keep \/ Drop \/ Commit \/ Rewind
Spec == Init /\ [][Next]_vars
=============================================================================
