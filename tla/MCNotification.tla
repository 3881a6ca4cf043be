---------------------------- MODULE MCNotification ----------------------------
(***************************************************************************)
(* Instances of Notification for TLC.                                      *)
(***************************************************************************)
EXTENDS Notification, TLC

CONSTANTS c1, c2, r1, r2

Approved == [type |-> "fix.approved", resource |-> "web"]

Row(url, kind, secret, events, enabled) ==
  [url |-> url, kind |-> kind, secret |-> secret, events |-> events, enabled |-> enabled]

\* A channel that does not want the event, one that does, and a row that
\* gives no channel.
Narrow == Row("a", "dingtalk", TRUE, {"fix.rejected"}, TRUE)
Wide   == Row("b", "feishu", TRUE, {}, TRUE)
Odd    == Row("c", "mail", FALSE, {}, TRUE)

SomeSettings == {Narrow, Wide, Odd}
OneEvent == {Approved}
OneFlag == <<Wide>>
OneRow  == <<[id |-> 1, cfg |-> Wide]>>
=============================================================================
