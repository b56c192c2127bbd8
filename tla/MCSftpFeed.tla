----------------------------- MODULE MCSftpFeed -----------------------------
(* A small instance of SftpFeed for TLC. *)
EXTENDS SftpFeed, TLC

MCAccount(u, k, ips, on) == [name |-> u, cust |-> k, ips |-> ips, active |-> on]

MCForms ==
  {MCAccount("u", "k1", {"out"}, TRUE), MCAccount("u", "k1", {}, TRUE),
   MCAccount("u", "k2", {"out"}, TRUE), MCAccount("u", "k1", {"out"}, FALSE),
   MCAccount("v", "k1", {"lo", "out"}, TRUE)}

(* A new installation, and a feed in use, in either mode.                      *)
MCSaved ==
  LET none == [i \in AccountIds |-> NoAccount]
      one == [none EXCEPT ![1] = MCAccount("u", "k1", {"out"}, TRUE)]
      set(on, m) == [enabled |-> on, mode |-> m, port |-> 1]
  IN {[accounts |-> none, settings |-> set(FALSE, "tunnel"), rule |-> NoRule],
      [accounts |-> one, settings |-> set(TRUE, "tunnel"), rule |-> NoRule],
      [accounts |-> one, settings |-> set(TRUE, "direct"),
       rule |-> [from |-> {"out"}, port |-> 1]]}
=============================================================================
