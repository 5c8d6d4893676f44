------------------------------ MODULE Handlers ------------------------------
(***************************************************************************)
(* The handler threads of a ThreadingHTTPServer: each serves a request at  *)
(* a time and is at one place in its do_GET.                               *)
(***************************************************************************)
CONSTANT Threads    \* handler threads

VARIABLE at         \* at[t]: where thread t is

Go(t, here, there) ==
  /\ at[t] = here
  /\ at' = [at EXCEPT ![t] = there]
=============================================================================
