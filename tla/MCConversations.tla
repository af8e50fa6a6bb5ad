---------------------------- MODULE MCConversations ----------------------------
(***************************************************************************)
(* Instances of Conversations for TLC.                                     *)
(***************************************************************************)
EXTENDS Conversations

CONSTANTS a, b

Client(surface, keeps, choice, prose) ==
    [surface |-> surface, keeps |-> keeps,
     offers |-> [tools |-> "functions", choice |-> choice, prose |-> prose]]

\* Every dialect; clients that keep all, the ids, and nothing of a call; one
\* that forbids calls.
ThreeCasts ==
    { a :> Client("chat", "all", "required", FALSE) @@ b :> Client("claude", "id", "any", TRUE),
      a :> Client("responses", "id", "unset", TRUE) @@ b :> Client("chat", "none", "named", TRUE),
      a :> Client("chat", "id", "auto", TRUE) @@ b :> Client("claude", "id", "none", TRUE) }

=============================================================================
