---------------------------- MODULE ChatBoard ----------------------------
(***************************************************************************)
(* What the chat page promises its reader, with no server, no stream and   *)
(* no events: a list of turns of which at most the last is pending.  A     *)
(* turn that is not pending is validated or it is not, and what it is it   *)
(* stays until the reader drops it or starts a new conversation.           *)
(***************************************************************************)
EXTENDS Naturals, Sequences

VARIABLES
    board,      \* the turns: "pending", "validated" or "unvalidated"
    waiting     \* a question is under way, so no other can be asked

boardVars == <<board, waiting>>

Last == board[Len(board)]

BoardInit == board = <<>> /\ waiting = FALSE

Ask ==
    /\ ~waiting
    /\ board' = Append(board, "pending")
    /\ waiting' = TRUE

\* The turn under way is over.
Conclude(outcome) ==
    /\ waiting
    /\ board # <<>>
    /\ Last = "pending"
    /\ board' = [board EXCEPT ![Len(board)] = outcome]
    /\ waiting' = FALSE

\* A new conversation; the question under way, if any, is given up later.
Clear ==
    /\ board' = <<>>
    /\ UNCHANGED waiting

GiveUp ==
    /\ waiting
    /\ board = <<>>
    /\ waiting' = FALSE
    /\ UNCHANGED board

DropLast ==
    /\ ~waiting
    /\ board # <<>>
    /\ board' = SubSeq(board, 1, Len(board) - 1)
    /\ UNCHANGED waiting

BoardNext ==
    \/ Ask
    \/ \E outcome \in {"validated", "unvalidated"} : Conclude(outcome)
    \/ Clear \/ GiveUp \/ DropLast

BoardSpec == BoardInit /\ [][BoardNext]_boardVars

=============================================================================
