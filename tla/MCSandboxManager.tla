---- MODULE MCSandboxManager ----
(* Three request handlers, one sandbox and two permits: it is destroyed by
   one handler while others delete it or are cancelled, a permit is refused,
   and the shutdown comes in the middle of any of these. *)
EXTENDS SandboxManager

CONSTANTS w1, w2, w3, s1, c1

ThreeWorkers == {w1, w2, w3}
OneSandbox == {s1}
OneCont == {c1}
====
