------------------------------- MODULE MCTurn -------------------------------
(* Turn on a small instance: the recipient changes to the group and back (one answer is    *)
(* marked for the group, one carries the routing marker); the owner says the same thing    *)
(* twice; somebody uses the terminal while the owner is answered; two prompts at the       *)
(* terminal follow each other, the first answered with the routing marker; a reaction and  *)
(* a command come behind a message of another chat.                                        *)
EXTENDS TurnProperties

Says(c, k, w, m, t) == [chat |-> c, kind |-> k, words |-> w, marked |-> m, tagged |-> t]
MCDialogues ==
  { <<Says(Home, "message", "go", TRUE, FALSE), Says(Group, "message", "yes", TRUE, TRUE),
      Says(Home, "message", "go", FALSE, FALSE)>>,
    <<Says(Home, "message", "go", TRUE, FALSE), Says(Home, "message", "go", FALSE, FALSE)>>,
    <<Says(Home, "message", "go", FALSE, FALSE), Says(Terminal, "message", "ls", FALSE, FALSE)>>,
    <<Says(Terminal, "message", "ls", FALSE, TRUE), Says(Terminal, "message", "pwd", FALSE, FALSE)>>,
    <<Says(Home, "message", "go", FALSE, FALSE), Says(Group, "reaction", "+1", FALSE, FALSE),
      Says(Group, "command", "/help", FALSE, FALSE)>> }
=============================================================================
