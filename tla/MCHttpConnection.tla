-------------------------- MODULE MCHttpConnection --------------------------
(* Small instances of a connection: which requests its client sends.       *)
EXTENDS HttpConnection

Ask(m, v, c, n) == [method |-> m, version |-> v, conn |-> c, length |-> n]

(* Clients of both versions and DAV clients that go on or not, with bodies *)
(* only where the server reads them, and one that sends no request at all. *)
MixedRequests == {Ask("GET", "1.1", None, -1),
                  Ask("POST", "1.1", None, 1), Ask("POST", "1.0", "keep-alive", 0),
                  Ask("OPTIONS", "1.1", None, -1), Ask("DELETE", "1.1", None, -1),
                  Ask("PUT", "1.1", None, 1), Ask("PUT", "1.1", None, -1),
                  Ask("PROPFIND", "1.1", None, 1), Ask("MKCOL", "1.1", "close", -1),
                  Ask("MOVE", "1.0", None, -1), Ask("unknown", "1.0", None, -1)}

(* A client that posts more than POST_MAX_SIZE.                            *)
PostRequests == {Ask("GET", "1.1", None, -1), Ask("POST", "1.1", None, 2)}
=============================================================================
