---------------------------- MODULE BoardService ----------------------------
(***************************************************************************)
(* What the gateway promises of the boards, without saying how it is done. *)
(* A request is answered once, with success or without.  While it has no   *)
(* answer, work done for it may leave anything in the flash of the board   *)
(* at its port; the flash of a board changes in no other way.  And success *)
(* is only answered when the flash holds what the request asked for.       *)
(***************************************************************************)
CONSTANTS
  Requests,
  Ports,
  Port,       (* Port[r]: the port of the board r is about                 *)
  Contents,   (* what the flash of a board may hold                        *)
  Promised    (* Promised[r]: the contents with which r may succeed        *)

VARIABLES content, answer

Init == /\ content \in [Ports -> Contents]
        /\ answer = [r \in Requests |-> "none"]

Work(r) == /\ answer[r] = "none"
           /\ \E x \in Contents : content' = [content EXCEPT ![Port[r]] = x]
           /\ UNCHANGED answer

Succeed(r) == /\ answer[r] = "none"
              /\ content[Port[r]] \in Promised[r]
              /\ answer' = [answer EXCEPT ![r] = "ok"]
              /\ UNCHANGED content

GiveUp(r) == /\ answer[r] = "none"
             /\ answer' = [answer EXCEPT ![r] = "failed"]
             /\ \/ UNCHANGED content
                \/ \E x \in Contents : content' = [content EXCEPT ![Port[r]] = x]

Next == \E r \in Requests : Work(r) \/ Succeed(r) \/ GiveUp(r)

Spec == Init /\ [][Next]_<<content, answer>>
=============================================================================
