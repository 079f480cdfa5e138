----------------------------- MODULE AtomicDb ------------------------------
(***************************************************************************)
(* What a program sees of a database whose transactions are atomic: an     *)
(* image of its pages that a transaction changes or makes longer and that  *)
(* a rollback puts back.  Nothing else, no cache and no journal, is to be  *)
(* seen.                                                                   *)
(***************************************************************************)
EXTENDS Naturals, Sequences

CONSTANTS
    NPages,    \* bound: pages
    Version    \* numbers of transactions; what is in a page is the number of
               \* the transaction that changed it last

VARIABLES
    committed,   \* the pages as the last transaction left them
    image,       \* the pages as the program sees them
    writing      \* the transaction that has begun, or 0

dbVars == <<committed, image, writing>>

Init ==
    /\ committed \in Seq(Version)
    /\ image = committed
    /\ writing = 0

Begin ==
    /\ writing = 0
    /\ writing' \in Version \ {0}
    /\ UNCHANGED <<committed, image>>

Change ==
    /\ writing # 0
    /\ \E n \in Len(image) .. NPages :
          \E S \in {T \in SUBSET (1 .. n) : Len(image) + 1 .. n \subseteq T} :
             image' = [p \in 1 .. n |-> IF p \in S THEN writing ELSE image[p]]
    /\ UNCHANGED <<committed, writing>>

Commit ==
    /\ writing # 0
    /\ committed' = image
    /\ writing' = 0
    /\ UNCHANGED image

Rollback ==
    /\ writing # 0
    /\ image' = committed
    /\ writing' = 0
    /\ UNCHANGED committed

Next == Begin \/ Change \/ Commit \/ Rollback

Spec == Init /\ [][Next]_dbVars
=============================================================================
