------------------------------ MODULE MCOneShot ------------------------------
(* OneShotBridge on a small instance: attachments around a /reset; prompts of one chat     *)
(* before and after a /reset; two chats at once; updates the agent is not run for.         *)
EXTENDS OneShotProperties

U(c, k) == [chat |-> c, kind |-> k]
MCScripts ==
  { <<U("c1", "file"), U("c1", "file"), U("c1", "reset"), U("c1", "file")>>,
    <<U("c1", "text"), U("c1", "reset"), U("c1", "text")>>,
    <<U("c1", "text"), U("c2", "voice"), U("c1", "text")>>,
    <<U("c1", "info"), U("c2", "stranger"), U("c2", "ignored"), U("c1", "text")>> }
=============================================================================
