-------------------------- MODULE MCCreateSocket --------------------------
(* Model checking of CreateSocket.                                         *)
EXTENDS CreateSocket, TLC

(* The connection objects are interchangeable.                             *)
Symmetry == Permutations(Conns)

(* The options open() and process() pass; with a blocking connect, which   *)
(* the code has and no caller asks for.                                    *)
ServerRequest == [listen |-> TRUE, noblock |-> TRUE]
RemoteRequest == [listen |-> FALSE, noblock |-> TRUE]
CallerRequests == {ServerRequest, RemoteRequest}
AllRequests == CallerRequests \cup {[listen |-> TRUE, noblock |-> FALSE]}

(* The resolver fails, or finds two addresses, or one.                     *)
NoneOrTwo == {0, 2}
NoneOrOne == {0, 1}
=============================================================================
