----------------------------- MODULE Materialize -----------------------------
(***************************************************************************)
(* materialize_template of src/src/templates.cpp: has-session, new-session,*)
(* then a new-window for every further window and send-keys for every      *)
(* window with a command, each a tmux process run by run_command, which    *)
(* may give up while the server has yet to execute what it was asked.      *)
(* Several lazytmux processes materialize at once, and the user of tmux    *)
(* makes and kills sessions meanwhile, the server's last one included.     *)
(***************************************************************************)
EXTENDS TmuxServer, Sequences

CONSTANTS Actors,     \* lazytmux processes
          Wanted,     \* Wanted[a]: the session a materializes its template into
          Template,   \* for every window, whether it has a command
          MayKill,    \* TRUE: the user kills sessions
          MaxCalls,   \* bound: calls
          MaxMade     \* bound: sessions made by the user

ASSUME ActorsAssumption ==
  /\ Wanted \in [Actors -> Names]
  /\ Template \in Seq(BOOLEAN) /\ Template # <<>>
  /\ MayKill \in BOOLEAN /\ MaxCalls \in Nat /\ MaxMade \in Nat

Windows == 1..Len(Template)
User == [call |-> 0, window |-> 0]
Origins == [call : 0..MaxCalls, window : 0..Len(Template)]
Silence == -2
Answers == {Silence, Yes, No} \cup Panes
Waiting == {"check", "create", "type"}

\* A request names Wanted[a], or for send-keys a pane's id; from is what it is for.
Request(what, p, from) == [what |-> what, pane |-> p, from |-> from]
NoRequest == Request("none", 0, User)

VARIABLES
  pc,       \* pc[a]: the step of materialize_template a is at
  window,   \* window[a]: i + 1 of the loop
  pane,     \* pane[a]: created->pane_id
  request,  \* request[a]: sent to the server and not yet executed
  answer,   \* answer[a]: the server's answer, not yet read
  late,     \* late[a]: a request of a's that run_command no longer waits for
  result,   \* result[a]: what the call returns
  \* History:
  calls,    \* calls begun
  id,       \* id[a]: the number of a's call
  existed,  \* existed[a]: the wanted session existed as has-session ran
  robbed,   \* robbed[a]: a session was killed before all of a's call was executed
  orphaned  \* the calls whose server ended after they had made a pane in it and
            \* before all they asked was executed

local == <<pc, window, pane, request, answer, late, result>>
history == <<calls, id, existed, robbed, orphaned>>
vars == <<tmux, local, history>>

Init ==
  /\ created = 0 /\ base = 0 /\ alive = {}
  /\ session = [p \in Panes |-> CHOOSE n \in Names : TRUE]
  /\ first = [p \in Panes |-> p]
  /\ origin = [p \in Panes |-> User]
  /\ typed = [p \in Panes |-> {}]
  /\ pc = [a \in Actors |-> "idle"]
  /\ window = [a \in Actors |-> 1]
  /\ pane = [a \in Actors |-> 0]
  /\ request = [a \in Actors |-> NoRequest]
  /\ answer = [a \in Actors |-> Silence]
  /\ late = [a \in Actors |-> NoRequest]
  /\ result = [a \in Actors |-> "none"]
  /\ calls = 0
  /\ id = [a \in Actors |-> 0]
  /\ existed = [a \in Actors |-> FALSE]
  /\ robbed = [a \in Actors |-> FALSE]
  /\ orphaned = {}

From(a) == [call |-> id[a], window |-> window[a]]
Send(a, what, p) == request' = [request EXCEPT ![a] = Request(what, p, From(a))]

\* Bound: a new call waits until the last one's late request is gone.
Begin(a) ==
  /\ pc[a] = "idle" /\ calls < MaxCalls /\ late[a] = NoRequest
  /\ window' = [window EXCEPT ![a] = 1]
  /\ pane' = [pane EXCEPT ![a] = 0]
  /\ calls' = calls + 1
  /\ id' = [id EXCEPT ![a] = calls + 1]
  /\ robbed' = [robbed EXCEPT ![a] = FALSE]
  /\ UNCHANGED <<tmux, answer, late, existed, orphaned>>

Call(a) ==
  /\ Begin(a)
  /\ pc' = [pc EXCEPT ![a] = "check"]
  /\ request' = [request EXCEPT
       ![a] = Request("has-session", 0, [call |-> calls + 1, window |-> 1])]
  /\ UNCHANGED result

\* A template without windows is refused at once.
CallEmpty(a) ==
  /\ Begin(a)
  /\ pc' = [pc EXCEPT ![a] = "return"]
  /\ result' = [result EXCEPT ![a] = "error"]
  /\ UNCHANGED request

(***************************************************************************)
(* The server executes what it was asked: in time, late, or never.         *)
(***************************************************************************)
Execute(r, name, reply) ==
  \/ r.what = "has-session" /\ HasSession(name, reply)
  \/ r.what = "new-session" /\ NewSession(name, r.from, reply)
  \/ r.what = "new-window" /\ NewWindow(name, r.from, reply)
  \/ r.what = "send-keys" /\ SendKeys(r.pane, r.from, reply)

Serve(a) ==
  /\ \E reply \in Answers \ {Silence} :
       Execute(request[a], Wanted[a], reply) /\ answer' = [answer EXCEPT ![a] = reply]
  /\ request' = [request EXCEPT ![a] = NoRequest]
  /\ existed' = IF request[a].what = "has-session"
                THEN [existed EXCEPT ![a] = Wanted[a] \in Sessions] ELSE existed
  /\ UNCHANGED <<pc, window, pane, late, result, calls, id, robbed, orphaned>>

ServeLate(a) ==
  /\ late[a] # NoRequest
  /\ (\E reply \in Answers : Execute(late[a], Wanted[a], reply)) \/ UNCHANGED tmux
  /\ late' = [late EXCEPT ![a] = NoRequest]
  /\ UNCHANGED <<pc, window, pane, request, answer, result, history>>

(***************************************************************************)
(* The call reads the answer and sends its next command.                   *)
(***************************************************************************)
Return(a, why) ==
  /\ pc' = [pc EXCEPT ![a] = "return"]
  /\ result' = [result EXCEPT ![a] = why]
  /\ request' = [request EXCEPT ![a] = NoRequest]

Took(a, at) == pc[a] = at /\ answer[a] # Silence /\ answer' = [answer EXCEPT ![a] = Silence]

\* Mutant: whatever the name resolves to is built upon.
CheckedWindow(a) ==
  /\ Took(a, "check")
  /\ \/ answer[a] = Yes /\ Return(a, "exists")
     \/ /\ answer[a] = No
        /\ pc' = [pc EXCEPT ![a] = "create"]
        /\ Send(a, "new-window", 0)
        /\ UNCHANGED result
  /\ UNCHANGED <<tmux, window, pane, late, history>>

Checked(a) ==
  /\ Took(a, "check")
  /\ \/ answer[a] = Yes /\ Return(a, "exists")
     \/ /\ answer[a] = No
        /\ pc' = [pc EXCEPT ![a] = "create"]
        /\ Send(a, "new-session", 0)
        /\ UNCHANGED result
  /\ UNCHANGED <<tmux, window, pane, late, history>>

\* The window is done: the next one, or the end.
Advance(a) ==
  \/ window[a] = Len(Template) /\ Return(a, "ok") /\ UNCHANGED window
  \/ /\ window[a] < Len(Template)
     /\ window' = [window EXCEPT ![a] = @ + 1]
     /\ pc' = [pc EXCEPT ![a] = "create"]
     /\ request' = [request EXCEPT ![a] = Request("new-window", 0,
                      [call |-> id[a], window |-> window[a] + 1])]
     /\ UNCHANGED result

\* Mutant: the commands go to the first pane made for the call.
CreatedTypesFirst(a) ==
  /\ Took(a, "create")
  /\ answer[a] \in Panes
  /\ pane' = [pane EXCEPT ![a] = IF @ = 0 THEN answer[a] ELSE @]
  /\ \/ /\ Template[window[a]]
        /\ pc' = [pc EXCEPT ![a] = "type"]
        /\ Send(a, "send-keys", pane'[a])
        /\ UNCHANGED <<window, result>>
     \/ ~Template[window[a]] /\ Advance(a)
  /\ UNCHANGED <<tmux, late, history>>

\* The created pane's id could be parsed.
Created(a) ==
  /\ Took(a, "create")
  /\ answer[a] \in Panes
  /\ pane' = [pane EXCEPT ![a] = answer[a]]
  /\ \/ /\ Template[window[a]]
        /\ pc' = [pc EXCEPT ![a] = "type"]
        /\ Send(a, "send-keys", answer[a])
        /\ UNCHANGED <<window, result>>
     \/ ~Template[window[a]] /\ Advance(a)
  /\ UNCHANGED <<tmux, late, history>>

\* Mutant: a window that could not be made is left out.
SkipWindow(a) ==
  /\ Took(a, "create")
  /\ Advance(a)
  /\ UNCHANGED <<tmux, pane, late, history>>

\* tmux failed, or the ids it printed could not be parsed.
NotCreated(a) ==
  /\ Took(a, "create")
  /\ Return(a, "error")
  /\ UNCHANGED <<tmux, window, pane, late, history>>

\* Mutant: the status of send-keys is not looked at.
TypedAnyway(a) ==
  /\ Took(a, "type")
  /\ Advance(a)
  /\ UNCHANGED <<tmux, pane, late, history>>

Typed(a) ==
  /\ Took(a, "type")
  /\ \/ answer[a] = Yes /\ Advance(a)
     \/ answer[a] = No /\ Return(a, "error") /\ UNCHANGED window
  /\ UNCHANGED <<tmux, pane, late, history>>

\* run_command fails, the deadline included: tmux is killed, and the server
\* may have executed the command, may be about to, or may never.
GivesUp(a) ==
  /\ pc[a] \in Waiting
  /\ Return(a, "error")
  /\ answer' = [answer EXCEPT ![a] = Silence]
  /\ late' = [late EXCEPT ![a] = request[a]]
  /\ UNCHANGED <<tmux, window, pane, history>>

Leave(a) ==
  /\ pc[a] = "return"
  /\ pc' = [pc EXCEPT ![a] = "idle"]
  /\ result' = [result EXCEPT ![a] = "none"]
  /\ UNCHANGED <<tmux, window, pane, request, answer, late, history>>

(***************************************************************************)
(* The user of tmux.                                                       *)
(***************************************************************************)
\* The panes made for call k, or by the user, whether or not they are still open.
Made(k) == {p \in 1..created : origin[p].call = k}

UserMakes(name) ==
  /\ Cardinality(Made(0)) < MaxMade
  /\ \E i \in Panes : NewSession(name, User, i)
  /\ UNCHANGED <<local, history>>

\* The server has not yet executed all that a's call may ask.
UnderWay(a) == pc[a] \in Waiting \/ late[a] # NoRequest

UserKills(name) ==
  /\ MayKill
  /\ KillSession(name)
  /\ robbed' = [a \in Actors |-> robbed[a] \/ UnderWay(a)]
  /\ orphaned' = orphaned \cup
       {id[a] : a \in {b \in Actors : alive' = {} /\ UnderWay(b) /\ Made(id[b]) # {}}}
  /\ UNCHANGED <<local, calls, id, existed>>

Step(a) == \/ Call(a) \/ CallEmpty(a) \/ Serve(a) \/ ServeLate(a) \/ Checked(a)
           \/ Created(a) \/ NotCreated(a) \/ Typed(a) \/ GivesUp(a) \/ Leave(a)

Next == \/ \E a \in Actors : Step(a)
        \/ \E name \in Names : UserMakes(name) \/ UserKills(name)

Spec == Init /\ [][Next]_vars

(***************************************************************************)
(* Properties                                                              *)
(***************************************************************************)
Commands == {"none", "has-session", "new-session", "new-window", "send-keys"}
Requests == [what : Commands, pane : {0} \cup Panes, from : Origins]

\* Every variable stays in its type.
TypeOK ==
  /\ created \in 0..MaxPanes /\ base \in 0..created /\ alive \subseteq (base + 1)..created
  /\ session \in [Panes -> Names]
  /\ first \in [Panes -> Panes]
  /\ origin \in [Panes -> Origins]
  /\ typed \in [Panes -> SUBSET Origins]
  /\ pc \in [Actors -> {"idle", "return"} \cup Waiting]
  /\ window \in [Actors -> Windows]
  /\ pane \in [Actors -> {0} \cup Panes]
  /\ request \in [Actors -> Requests]
  /\ answer \in [Actors -> Answers]
  /\ late \in [Actors -> Requests]
  /\ result \in [Actors -> {"none", "ok", "exists", "error"}]
  /\ calls \in 0..MaxCalls
  /\ id \in [Actors -> 0..MaxCalls]
  /\ existed \in [Actors -> BOOLEAN]
  /\ robbed \in [Actors -> BOOLEAN]
  /\ orphaned \subseteq 1..MaxCalls

\* A template's command is typed only in the pane that was made for its own
\* window by the same call, whoever else is working in tmux, sessions being killed
\* and commands executed late: exempt are the commands of a call whose server ended
\* under it, whose ids may then be those of panes of the next server.
CommandsAtHome ==
  \A p \in 1..created : \A f \in typed[p] :
    f.call \in orphaned \/ (f = origin[p] /\ f.call # 0)

\* Whatever happens to a call, what it leaves is the beginning of the template:
\* the first windows, each once and in order, and, unless its server ended under
\* it, their commands up to the last window but one (the last window's may be on
\* its way).
LeavesABeginning ==
  \A k \in 1..calls :
    /\ \A p \in Made(k) : origin[p].window = Cardinality({q \in Made(k) : q <= p})
    /\ \A p, q \in Made(k) : (p < q /\ Template[origin[p].window] /\ k \notin orphaned) =>
         origin[p] \in typed[p]

\* Success means that every window was made and, unless the server ended under the
\* call, that every command was typed in its window.
SuccessIsComplete ==
  \A a \in Actors : (pc[a] = "return" /\ result[a] = "ok") =>
    /\ {origin[p].window : p \in Made(id[a])} = Windows
    /\ \A p \in Made(id[a]) : (Template[origin[p].window] /\ id[a] \notin orphaned) =>
         origin[p] \in typed[p]

\* A call builds in the session it has created and in no other, if nobody
\* kills a session before it is over, its late requests included, and its name is
\* more than digits: two calls for one name never share a session, and the user's
\* sessions are left alone.
BuildsOnItsOwn ==
  \A a \in Actors : ~robbed[a] /\ Wanted[a] \notin Indexes =>
    \A p \in Made(id[a]) : id[a] # 0 => origin[first[p]] = [call |-> id[a], window |-> 1]

(***************************************************************************)
(* What templates.hpp says without the exemptions, and what does not hold. *)
(***************************************************************************)
\* A template is materialized into a new session.  Not if that session is killed
\* between two windows and its name then means another one, and not if the name
\* is a number: the windows after the first open in the current session.
IntoANewSession ==
  \A a \in Actors, p \in 1..created : (id[a] # 0 /\ p \in Made(id[a])) =>
    origin[first[p]].call = id[a]

\* The same while nobody kills a session.  Not if the name is a number.
IntoANewSessionUnlessKilled ==
  \A a \in Actors : ~robbed[a] =>
    \A p \in Made(id[a]) : id[a] # 0 => origin[first[p]].call = id[a]

\* A command is typed only in the pane made for its window.  Not if the server
\* ends and the next one gives the id to another pane.
CommandsAlwaysAtHome == \A p \in 1..created : typed[p] \subseteq {origin[p]}

\* Success comes after all windows and commands.  Not if the last window's command
\* was typed in a pane of the next server.
SuccessIsAlwaysComplete ==
  \A a \in Actors : (pc[a] = "return" /\ result[a] = "ok") =>
    \A p \in Made(id[a]) : Template[origin[p].window] => origin[p] \in typed[p]

\* What templates.hpp says of the refusal: the target session exists.
RefusedBecauseItExists ==
  \A a \in Actors : (pc[a] = "return" /\ result[a] = "exists") => existed[a]

=============================================================================
