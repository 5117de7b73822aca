------------------------------ MODULE CallSpec ------------------------------
(***************************************************************************)
(* What get_channel_data and get_all_channels promise their callers: each  *)
(* call is answered, once, with what a sequential run of the function on   *)
(* the open handle returns, whatever other threads ask meanwhile.          *)
(***************************************************************************)
EXTENDS Handle

CONSTANTS Threads,    \* Python threads sharing the handle
          Requests,   \* the calls they may make
          Handles     \* the handles they may share

VARIABLES wfm,        \* the shared handle
          call        \* per thread, the call it makes and its reply

callVars == <<wfm, call>>

NoReply == [tag |-> "none"]
Idle    == [st |-> "idle"]
Running(req)  == [st |-> "running", req |-> req]
Done(req, r)  == [st |-> "done", req |-> req, reply |-> r]

(* The sequential meaning of a request. *)
Expected(w, req) ==
    IF req.all THEN AllChannels(w, req.start, req.length)
    ELSE ChannelData(w, req.ch, req.start, req.length)

CallInit ==
    /\ wfm \in Handles
    /\ call = [t \in Threads |-> Idle]

Ask(t, req) ==
    /\ call[t] = Idle
    /\ call' = [call EXCEPT ![t] = Running(req)]
    /\ wfm' = wfm

Reply(t) ==
    /\ call[t].st = "running"
    /\ call' = [call EXCEPT ![t] = Done(call[t].req, Expected(wfm, call[t].req))]
    /\ wfm' = wfm

CallNext == \E t \in Threads : Reply(t) \/ \E req \in Requests : Ask(t, req)

CallSafety == CallInit /\ [][CallNext]_callVars
CallSystem == CallSafety /\ \A t \in Threads : WF_callVars(Reply(t))
=============================================================================
