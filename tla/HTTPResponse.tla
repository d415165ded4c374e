---------------------------- MODULE HTTPResponse ----------------------------
(***************************************************************************)
(* The http.ResponseWriter of net/http as the middlewares use it: the first *)
(* WriteHeader fixes the status and a snapshot of the header map, later     *)
(* ones are superfluous, a Write without one implies 200, and the server    *)
(* does the same for a handler that returns without writing.                *)
(*                                                                          *)
(* A response has the status (0 until it is fixed), the live header map,    *)
(* the snapshot that went to the client and the chunks of the body.  Header *)
(* maps are sets of <<name, value>> pairs.                                  *)
(***************************************************************************)
EXTENDS Sequences, Naturals

FreshResponse == [status |-> 0, header |-> {}, sent |-> {}, body |-> <<>>]

WriteHeader(w, code) ==
  IF w.status # 0 THEN w ELSE [w EXCEPT !.status = code, !.sent = w.header]

Write(w, chunk) == [WriteHeader(w, 200) EXCEPT !.body = Append(@, chunk)]

\* The handler has returned to the server.
Finished(w) == WriteHeader(w, 200)

AddHeader(w, name, value) == [w EXCEPT !.header = @ \cup {<<name, value>>}]
DelHeader(w, name) == [w EXCEPT !.header = {h \in @ : h[1] # name}]
SetHeader(w, name, value) == AddHeader(DelHeader(w, name), name, value)
=============================================================================
