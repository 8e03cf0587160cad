-------------------------- MODULE Materialize_proofs --------------------------
(* What is left of a template materialized by Materialize, for any number of *)
(* processes, any template, any session names and any bounds.                *)
EXTENDS Materialize, FiniteSetTheorems, FunctionTheorems, TLAPS

(***************************************************************************)
(* The inductive invariant                                                 *)
(***************************************************************************)
\* What the server may still execute for a.
Open(a) == IF pc[a] \in Waiting THEN request[a] ELSE late[a]

\* A process has one request in flight at most, for the step it is at; it is
\* late only if its call has failed.
Asks(a) ==
  /\ pc[a] \in Waiting => late[a] = NoRequest
  /\ pc[a] \notin Waiting => request[a] = NoRequest /\ answer[a] = Silence
  /\ request[a] # NoRequest => answer[a] = Silence
  /\ pc[a] = "check" => request[a].what \in {"none", "has-session"} /\ window[a] = 1
  /\ pc[a] = "create" => request[a].what \in {"none", "new-session", "new-window"}
  /\ pc[a] = "type" => request[a].what \in {"none", "send-keys"}
  /\ Open(a) # NoRequest => Open(a).from = From(a) /\ Open(a).what # "none"
  /\ Open(a).what = "new-session" => window[a] = 1
  /\ Open(a).what = "new-window" => window[a] > 1
  /\ late[a] # NoRequest /\ pc[a] = "return" => result[a] = "error"
  /\ pc[a] \notin {"return"} => result[a] = "none"

\* Every call has a number of its own, and every pane that of a call begun.
Numbered ==
  /\ \A a \in Actors :
       /\ id[a] <= calls
       /\ pc[a] \in Waiting \/ Open(a) # NoRequest \/ result[a] = "ok" => id[a] # 0
       /\ \A b \in Actors : id[a] = id[b] /\ id[a] # 0 => a = b
  /\ \A p \in 1..created : origin[p].call <= calls

\* The windows of a's call that were made are the first n.
Built(a, n) == {origin[p].window : p \in Made(id[a])} = 1..n

\* The commands of the first n windows of a's call were typed, if its server is
\* still the one they were made in.
TypedTo(a, n) ==
  \A p \in Made(id[a]) :
    (origin[p].window <= n /\ Template[origin[p].window] /\ id[a] \notin orphaned) =>
      origin[p] \in typed[p]

\* The pane that has the id i is that of the window a's call is at, likewise.
Latest(a, i) ==
  id[a] \notin orphaned => base + i \in 1..created /\ origin[base + i] = From(a)

\* How far a's call has come in tmux, by what it waits for.
Progress(a) ==
  /\ pc[a] = "check" => Made(id[a]) = {}
  /\ Open(a).what \in {"new-session", "new-window"} =>
       Built(a, window[a] - 1) /\ TypedTo(a, window[a] - 1)
  /\ Open(a).what = "send-keys" =>
       Built(a, window[a]) /\ TypedTo(a, window[a] - 1) /\ Latest(a, Open(a).pane)
  /\ pc[a] = "create" /\ answer[a] \in Panes =>
       Built(a, window[a]) /\ TypedTo(a, window[a] - 1) /\ Latest(a, answer[a])
  /\ pc[a] = "type" /\ answer[a] = Yes =>
       Built(a, window[a]) /\ TypedTo(a, window[a])
  /\ pc[a] = "return" /\ result[a] = "ok" =>
       Built(a, Len(Template)) /\ TypedTo(a, Len(Template))

\* The windows of a call are made in order, none left out, each only when those
\* before it are complete.
InOrder ==
  \A p \in 1..created : origin[p].call # 0 =>
    /\ origin[p].window \in Windows
    /\ \A w \in 1..origin[p].window : \E q \in Made(origin[p].call) : origin[q].window = w
    /\ \A q \in Made(origin[p].call) : p < q =>
         /\ origin[p].window < origin[q].window
         /\ Template[origin[p].window] /\ origin[p].call \notin orphaned =>
              origin[p] \in typed[p]

\* Nothing is typed in a pane that is yet to be made.
Blank == \A p \in Panes \ (1..created) : typed[p] = {}

\* A pane's session is known by its first pane, and a name by one session.
SessionsApart ==
  /\ \A p \in 1..created : first[p] \in 1..created
  /\ \A p, q \in alive : session[p] = session[q] => first[p] = first[q]

\* A call that nobody has robbed, for a session that is not called by a number,
\* has its panes in its own session, which is alive as long as it may ask for more.
OwnSession(a) ==
  (~robbed[a] /\ Wanted[a] \notin Indexes /\ id[a] # 0) => \A p \in Made(id[a]) :
    /\ origin[first[p]] = [call |-> id[a], window |-> 1]
    /\ Open(a) # NoRequest \/ pc[a] \in Waiting => p \in alive /\ session[p] = Wanted[a]

IInv ==
  /\ TypeOK /\ Numbered /\ CommandsAtHome /\ Blank /\ InOrder /\ SessionsApart
  /\ \A a \in Actors : Asks(a) /\ Progress(a) /\ OwnSession(a)

(***************************************************************************)
(* Types                                                                   *)
(***************************************************************************)
LEMMA InitTypes == Init => TypeOK
<1> SUFFICES ASSUME Init PROVE TypeOK
  OBVIOUS
<1> USE NamesAssumption, ActorsAssumption
<1>1. Len(Template) \in Nat \ {0}
  OBVIOUS
<1>2. (CHOOSE n \in Names : TRUE) \in Names
  OBVIOUS
<1>3. User \in Origins
  BY <1>1 DEF User, Origins
<1>4. NoRequest \in Requests
  BY <1>3 DEF NoRequest, Request, Requests, Commands
<1>5. /\ created \in 0..MaxPanes /\ base \in 0..created /\ alive \subseteq (base + 1)..created
      /\ session \in [Panes -> Names]
      /\ first \in [Panes -> Panes]
      /\ origin \in [Panes -> Origins]
      /\ typed \in [Panes -> SUBSET Origins]
  BY <1>2, <1>3 DEF Init, Panes
<1>6. /\ pc \in [Actors -> {"idle", "return"} \cup Waiting]
      /\ window \in [Actors -> Windows]
      /\ pane \in [Actors -> {0} \cup Panes]
      /\ request \in [Actors -> Requests]
      /\ answer \in [Actors -> Answers]
      /\ late \in [Actors -> Requests]
      /\ result \in [Actors -> {"none", "ok", "exists", "error"}]
  BY <1>1, <1>4 DEF Init, Windows, Answers
<1>7. orphaned \subseteq 1..MaxCalls
  BY DEF Init
<1> QED BY <1>5, <1>6, <1>7 DEF Init, TypeOK

\* What the server is asked and answers stays in its type.
LEMMA AddPaneTypes ==
  ASSUME TypeOK, NEW name \in Names, NEW f \in Int, f \in 1..(created + 1),
         NEW from \in Origins, NEW i, AddPane(name, f, from, i)
  PROVE  /\ created' = created + 1 /\ created' \in 0..MaxPanes /\ created' \in Panes
         /\ base' = base /\ base' \in 0..created' /\ i \in Panes /\ base + i = created'
         /\ alive' = alive \cup {created'} /\ alive' \subseteq (base' + 1)..created'
         /\ session' \in [Panes -> Names] /\ session'[created'] = name
         /\ first' \in [Panes -> Panes] /\ first'[created'] = f
         /\ origin' \in [Panes -> Origins] /\ origin'[created'] = from
         /\ typed' = typed
         /\ \A p \in 1..created :
              /\ p \in Panes /\ p # created'
              /\ session'[p] = session[p] /\ first'[p] = first[p] /\ origin'[p] = origin[p]
<1>1. /\ created \in Nat /\ MaxPanes \in Nat /\ created < MaxPanes /\ created' = created + 1
      /\ base \in 0..created /\ alive \subseteq (base + 1)..created
      /\ base' = base /\ i = created + 1 - base
  BY NamesAssumption DEF AddPane, TypeOK
<1>2. /\ created' \in Panes /\ created' \in 0..MaxPanes /\ f \in Panes
      /\ \A p \in 1..created : p \in Panes /\ p # created'
      /\ i \in Panes /\ base + i = created' /\ base' \in 0..created'
  BY <1>1 DEF Panes
<1>3. /\ session' = [session EXCEPT ![created'] = name]
      /\ first' = [first EXCEPT ![created'] = f]
      /\ origin' = [origin EXCEPT ![created'] = from]
      /\ alive' = alive \cup {created'} /\ typed' = typed
  BY <1>1 DEF AddPane
<1>4. /\ session \in [Panes -> Names] /\ first \in [Panes -> Panes]
      /\ origin \in [Panes -> Origins]
  BY DEF TypeOK
<1>5. /\ session' \in [Panes -> Names] /\ first' \in [Panes -> Panes]
      /\ origin' \in [Panes -> Origins]
  BY <1>2, <1>3, <1>4
<1>6. session'[created'] = name /\ first'[created'] = f /\ origin'[created'] = from
  BY <1>2, <1>3, <1>4
<1>7. \A p \in 1..created :
        session'[p] = session[p] /\ first'[p] = first[p] /\ origin'[p] = origin[p]
  BY <1>2, <1>3, <1>4
<1>8. alive' \subseteq (base' + 1)..created'
  BY <1>1, <1>3
<1> QED BY <1>1, <1>2, <1>3, <1>5, <1>6, <1>7, <1>8

(***************************************************************************)
(* What a step does not touch                                              *)
(***************************************************************************)
\* Nothing of b's call changes but in tmux.
Kept(b) ==
  /\ pc'[b] = pc[b] /\ window'[b] = window[b] /\ request'[b] = request[b]
  /\ answer'[b] = answer[b] /\ late'[b] = late[b] /\ result'[b] = result[b]
  /\ id'[b] = id[b]

\* Nothing of what was made for call k is lost, and nothing is added to it.
Steady(k) ==
  /\ Made(k)' = Made(k)
  /\ \A p \in 1..created :
       /\ p \in 1..created' /\ origin'[p] = origin[p]
       /\ origin[p] \in typed[p] => origin[p] \in typed'[p]
  /\ k \in orphaned => k \in orphaned'

\* a's call has, or will be answered, the id of the pane of its window.
Placed(a) ==
  Open(a).what = "send-keys" \/ (pc[a] = "create" /\ answer[a] \in Panes)

\* The server has not ended, but for calls it leaves orphaned.
Rooted(a) == base' = base \/ id[a] \in orphaned'

Calling(a) == pc[a] \in Waiting \/ Open(a) # NoRequest \/ result[a] = "ok"

LEMMA SteadyIfUnchanged ==
  ASSUME UNCHANGED <<tmux, orphaned>>, NEW k PROVE Steady(k)
BY DEF Steady, Made, tmux

LEMMA SteadyBuilt ==
  ASSUME NEW b \in Actors, id'[b] = id[b], Steady(id[b]), NEW n
  PROVE  /\ Built(b, n) => Built(b, n)'
         /\ TypedTo(b, n) => TypedTo(b, n)'
<1>1. \A p \in Made(id[b]) : p \in 1..created /\ origin'[p] = origin[p]
  BY DEF Steady, Made
<1>2. Built(b, n) => Built(b, n)'
  BY <1>1 DEF Built, Steady
<1>3. TypedTo(b, n) => TypedTo(b, n)'
  BY <1>1 DEF TypedTo, Steady
<1> QED BY <1>2, <1>3

LEMMA ProgressKept ==
  ASSUME NEW b \in Actors, Kept(b), Calling(b) => id[b] # 0,
         id[b] # 0 => Steady(id[b]), Placed(b) => Rooted(b), Progress(b)
  PROVE  Progress(b)'
<1>1. Open(b)' = Open(b)
  BY DEF Open, Kept
<1>2. CASE id[b] = 0
  <2>1. ~Calling(b)
    BY <1>2
  <2>2. pc[b] \notin Waiting /\ Open(b).what = "none" /\ result[b] # "ok"
    BY <2>1 DEF Calling, NoRequest, Request
  <2> QED BY <1>1, <2>2 DEF Progress, Kept, Waiting
<1>3. CASE id[b] # 0
  <2>1. \A n : (Built(b, n) => Built(b, n)') /\ (TypedTo(b, n) => TypedTo(b, n)')
    BY <1>3, SteadyBuilt DEF Kept
  <2>2. Placed(b) => \A p : Latest(b, p) => Latest(b, p)'
    BY <1>3 DEF Latest, From, Steady, Kept, Rooted
  <2>3. Made(id[b])' = Made(id[b])
    BY <1>3 DEF Steady, Kept
  <2>4. /\ pc'[b] = pc[b] /\ window'[b] = window[b] /\ answer'[b] = answer[b]
        /\ result'[b] = result[b]
    BY DEF Kept
  <2> QED BY <1>1, <2>1, <2>2, <2>3, <2>4 DEF Progress, Placed
<1> QED BY <1>2, <1>3

LEMMA AsksKept ==
  ASSUME NEW b \in Actors, Kept(b), Asks(b) PROVE Asks(b)'
BY DEF Asks, Kept, Open, From

\* Making panes elsewhere does not rob b of its session.
LEMMA OwnSessionKept ==
  ASSUME NEW b \in Actors, Kept(b), robbed'[b] = robbed[b], id[b] # 0 => Steady(id[b]),
         \A p \in 1..created : first[p] \in 1..created,
         \A p \in 1..created : first'[p] = first[p] /\ session'[p] = session[p],
         alive \subseteq alive', OwnSession(b)
  PROVE  OwnSession(b)'
<1>1. Open(b)' = Open(b)
  BY DEF Open, Kept
<1> SUFFICES ASSUME ~robbed[b], Wanted[b] \notin Indexes, id[b] # 0, NEW p \in Made(id[b])
             PROVE  /\ origin'[first'[p]] = [call |-> id[b], window |-> 1]
                    /\ Open(b) # NoRequest \/ pc[b] \in Waiting =>
                         p \in alive' /\ session'[p] = Wanted[b]
  BY <1>1 DEF OwnSession, Kept, Steady
<1>2. p \in 1..created
  BY DEF Made
<1>3. /\ origin[first[p]] = [call |-> id[b], window |-> 1]
      /\ Open(b) # NoRequest \/ pc[b] \in Waiting => p \in alive /\ session[p] = Wanted[b]
  BY DEF OwnSession
<1>4. origin'[first[p]] = origin[first[p]]
  BY <1>2 DEF Steady
<1> QED BY <1>2, <1>3, <1>4

\* A step that leaves tmux and what it knows of the calls alone.
LEMMA TmuxKept ==
  ASSUME IInv, UNCHANGED <<tmux, orphaned>>
  PROVE CommandsAtHome' /\ Blank' /\ InOrder' /\ SessionsApart'
<1>1. UNCHANGED <<created, base, session, first, origin, typed, alive>>
  BY DEF tmux
<1>2. \A k : Made(k)' = Made(k)
  BY <1>1 DEF Made
<1>3. CommandsAtHome'
  BY <1>1, <1>2 DEF IInv, CommandsAtHome
<1>4. InOrder'
  BY <1>1, <1>2 DEF IInv, InOrder
<1>5. SessionsApart'
  BY <1>1 DEF IInv, SessionsApart
<1>6. Blank'
  BY <1>1 DEF IInv, Blank
<1> QED BY <1>3, <1>4, <1>5, <1>6

LEMMA LocalStep ==
  ASSUME IInv, NEW a \in Actors, UNCHANGED <<tmux, history>>, TypeOK',
         \A b \in Actors \ {a} : Kept(b),
         Calling(a)' => id[a] # 0,
         Asks(a)', Progress(a)', OwnSession(a)'
  PROVE  IInv'
<1>2. UNCHANGED <<calls, id, existed, robbed, orphaned>>
  BY DEF history
<1>1. CommandsAtHome' /\ Blank' /\ InOrder' /\ SessionsApart'
  BY <1>2, TmuxKept
<1>3. \A b \in Actors \ {a} : Calling(b)' = Calling(b)
  BY DEF Calling, Open, Kept
<1>4. Numbered'
  BY <1>2, <1>3 DEF IInv, Numbered, Calling, tmux
<1>5. ASSUME NEW b \in Actors \ {a} PROVE Asks(b)' /\ Progress(b)' /\ OwnSession(b)'
  <2>1. Kept(b) /\ Asks(b) /\ Progress(b) /\ OwnSession(b)
    BY DEF IInv
  <2>2. (\A k : Steady(k)) /\ Rooted(b)
    BY <1>2, SteadyIfUnchanged DEF Rooted, tmux
  <2>3. Progress(b)'
    BY <2>1, <2>2, ProgressKept DEF IInv, Numbered, Calling
  <2>4. Asks(b)'
    BY <2>1, AsksKept
  <2>5. OwnSession(b)'
    BY <1>2, <2>1, <2>2, OwnSessionKept DEF IInv, SessionsApart, tmux
  <2> QED BY <2>3, <2>4, <2>5
<1> QED BY <1>1, <1>4, <1>5 DEF IInv


(***************************************************************************)
(* The steps of a call                                                     *)
(***************************************************************************)
LEMMA Constants == Len(Template) \in Nat \ {0} /\ MaxCalls \in Nat /\ MaxPanes \in Nat
BY ActorsAssumption, NamesAssumption

LEMMA RequestTypes ==
  /\ NoRequest \in Requests /\ NoRequest.what = "none" /\ Silence \in Answers
  /\ \A what \in Commands, p \in {0} \cup Panes, from \in Origins :
       /\ Request(what, p, from) \in Requests /\ Request(what, p, from).what = what
       /\ Request(what, p, from).pane = p /\ Request(what, p, from).from = from
BY Constants DEF NoRequest, Request, Requests, Commands, Origins, User, Answers

LEMMA FromTypes ==
  ASSUME TypeOK, NEW a \in Actors
  PROVE  /\ From(a) \in Origins
         /\ window[a] < Len(Template) =>
              /\ [call |-> id[a], window |-> window[a] + 1] \in Origins
              /\ window[a] + 1 \in Windows
BY Constants DEF TypeOK, From, Origins, Windows

LEMMA ReturnInductive ==
  ASSUME IInv, NEW a \in Actors, NEW why \in {"ok", "exists", "error"},
         Return(a, why), UNCHANGED <<tmux, window, history>>,
         pane' \in [Actors -> {0} \cup Panes],
         answer' = [answer EXCEPT ![a] = Silence],
         \/ late' = late /\ late[a] = NoRequest
         \/ late' = [late EXCEPT ![a] = request[a]] /\ why = "error" /\ pc[a] \in Waiting,
         why = "ok" => id[a] # 0 /\ Built(a, Len(Template)) /\ TypedTo(a, Len(Template))
  PROVE  IInv'
<1>1. /\ TypeOK /\ Asks(a) /\ Progress(a) /\ OwnSession(a)
      /\ Calling(a) => id[a] # 0
  BY DEF IInv, Numbered, Calling
<1>2. /\ pc \in [Actors -> {"idle", "return"} \cup Waiting]
      /\ result \in [Actors -> {"none", "ok", "exists", "error"}]
      /\ request \in [Actors -> Requests] /\ answer \in [Actors -> Answers]
      /\ late \in [Actors -> Requests]
  BY <1>1 DEF TypeOK
<1>3. /\ pc' = [pc EXCEPT ![a] = "return"] /\ result' = [result EXCEPT ![a] = why]
      /\ request' = [request EXCEPT ![a] = NoRequest]
      /\ UNCHANGED <<window, id, calls, existed, robbed, orphaned>>
  BY DEF Return, history
<1>4. /\ pc'[a] = "return" /\ result'[a] = why /\ request'[a] = NoRequest
      /\ answer'[a] = Silence
  BY <1>2, <1>3
<1>5. \/ late'[a] = NoRequest
      \/ late'[a] = request[a] /\ why = "error" /\ pc[a] \in Waiting
  BY <1>2
<1>6. late' \in [Actors -> Requests] /\ \A b \in Actors \ {a} : late'[b] = late[b]
  BY <1>2
<1>7. /\ Open(a)' = late'[a]
      /\ Open(a)' = NoRequest \/ (Open(a)' = Open(a) /\ why = "error")
  <2>1. Open(a)' = late'[a]
    BY <1>4 DEF Open, Waiting
  <2>2. pc[a] \in Waiting => Open(a) = request[a]
    BY DEF Open
  <2> QED BY <1>5, <2>1, <2>2
<1>8. TypeOK'
  <2>1. /\ pc' \in [Actors -> {"idle", "return"} \cup Waiting]
        /\ result' \in [Actors -> {"none", "ok", "exists", "error"}]
        /\ request' \in [Actors -> Requests] /\ answer' \in [Actors -> Answers]
    BY <1>2, <1>3, RequestTypes
  <2>2. UNCHANGED <<created, base, session, first, origin, typed, alive>>
    BY DEF tmux
  <2> QED BY <1>1, <1>3, <1>6, <2>1, <2>2 DEF TypeOK
<1>9. \A b \in Actors \ {a} : Kept(b)
  BY <1>2, <1>3, <1>6 DEF Kept
<1>10. Calling(a)' => id[a] # 0
  BY <1>1, <1>4, <1>7 DEF Calling, Waiting
<1>11. Asks(a)'
  <2>1. pc'[a] \notin Waiting /\ pc'[a] = "return"
    BY <1>4 DEF Waiting
  <2>2. From(a)' = From(a) /\ window'[a] = window[a]
    BY <1>3 DEF From
  <2>3. Open(a)' # NoRequest => Open(a)' = Open(a)
    BY <1>7
  <2>4. late'[a] # NoRequest => result'[a] = "error"
    BY <1>4, <1>7
  <2> QED BY <1>1, <1>4, <2>1, <2>2, <2>3, <2>4, RequestTypes DEF Asks, Waiting
<1>12. Progress(a)'
  <2>1. \A n : (Built(a, n) => Built(a, n)') /\ (TypedTo(a, n) => TypedTo(a, n)')
    BY <1>3, SteadyIfUnchanged, SteadyBuilt
  <2>2. \A p : Latest(a, p) => Latest(a, p)'
    BY <1>3 DEF Latest, From, tmux
  <2>3. Open(a)'.what # "none" => Open(a)' = Open(a)
    BY <1>7, RequestTypes
  <2> QED BY <1>1, <1>3, <1>4, <2>1, <2>2, <2>3 DEF Progress, Waiting
<1>13. OwnSession(a)'
  <2>1. Open(a)' # NoRequest \/ pc'[a] \in Waiting => Open(a) # NoRequest
    BY <1>4, <1>7 DEF Waiting
  <2> QED BY <1>1, <1>3, <2>1 DEF OwnSession, tmux, Made
<1>14. UNCHANGED <<tmux, history>>
  BY <1>3 DEF history
<1> QED BY <1>8, <1>9, <1>10, <1>11, <1>12, <1>13, <1>14, LocalStep



\* The call goes on with a request that fits how far it has come.
LEMMA SendInductive ==
  ASSUME IInv, NEW a \in Actors, NEW at \in {"create", "type"}, NEW w \in Windows,
         NEW what \in Commands, NEW p \in {0} \cup Panes,
         pc[a] \in Waiting, answer[a] # Silence,
         pc' = [pc EXCEPT ![a] = at], window' = [window EXCEPT ![a] = w],
         pane' \in [Actors -> {0} \cup Panes],
         request' = [request EXCEPT ![a] = Request(what, p, [call |-> id[a], window |-> w])],
         answer' = [answer EXCEPT ![a] = Silence],
         UNCHANGED <<tmux, late, result, history>>,
         \/ /\ at = "create"
            /\ (what = "new-session" /\ w = 1) \/ (what = "new-window" /\ w > 1)
            /\ Built(a, w - 1) /\ TypedTo(a, w - 1)
         \/ /\ at = "type" /\ what = "send-keys"
            /\ Built(a, w) /\ TypedTo(a, w - 1)
            /\ id[a] \notin orphaned =>
                 base + p \in 1..created /\ origin[base + p] = [call |-> id[a], window |-> w]
  PROVE  IInv'
<1>1. /\ TypeOK /\ Asks(a) /\ Progress(a) /\ OwnSession(a)
      /\ Calling(a) => id[a] # 0
  BY DEF IInv, Numbered, Calling
<1>2. /\ pc \in [Actors -> {"idle", "return"} \cup Waiting]
      /\ window \in [Actors -> Windows]
      /\ request \in [Actors -> Requests] /\ answer \in [Actors -> Answers]
  BY <1>1 DEF TypeOK
<1> DEFINE from == [call |-> id[a], window |-> w]
<1> DEFINE r == Request(what, p, from)
<1>3. from \in Origins /\ w \in Int
  BY <1>1, Constants DEF TypeOK, Origins, Windows
<1>4. /\ r \in Requests /\ r.what = what /\ r.pane = p /\ r.from = from
  <2> HIDE DEF from
  <2>1. /\ Request(what, p, from) \in Requests
        /\ Request(what, p, from) = [what |-> what, pane |-> p, from |-> from]
    BY <1>3 DEF Request, Requests
  <2> QED BY <2>1
<1>5. what \in {"new-session", "new-window", "send-keys"} /\ r # NoRequest /\ at \in Waiting
  BY <1>4, RequestTypes DEF Waiting
<1> HIDE DEF r
<1>6. /\ pc'[a] = at /\ window'[a] = w /\ request'[a] = r /\ answer'[a] = Silence
      /\ late'[a] = late[a] /\ result'[a] = result[a] /\ result[a] = "none"
      /\ UNCHANGED <<id, calls, existed, robbed, orphaned>>
  BY <1>1, <1>2 DEF history, r, Asks, Waiting
<1>7. Open(a)' = r /\ From(a)' = from
  BY <1>5, <1>6 DEF Open, From
<1>8. TypeOK'
  <2>1. /\ pc' \in [Actors -> {"idle", "return"} \cup Waiting]
        /\ window' \in [Actors -> Windows]
        /\ request' \in [Actors -> Requests] /\ answer' \in [Actors -> Answers]
    BY <1>2, <1>4, <1>5, RequestTypes DEF r
  <2>2. UNCHANGED <<created, base, session, first, origin, typed, alive>>
    BY DEF tmux
  <2> QED BY <1>1, <1>6, <2>1, <2>2 DEF TypeOK
<1>9. \A b \in Actors \ {a} : Kept(b)
  BY <1>2, <1>6 DEF Kept
<1>10. Calling(a)' => id[a] # 0
  BY <1>1 DEF Calling
<1>11. Asks(a)'
  <2>1. late[a] = NoRequest /\ request[a] = NoRequest
    BY <1>1 DEF Asks
  <2> QED BY <1>3, <1>4, <1>5, <1>6, <1>7, <2>1 DEF Asks
<1>12. Progress(a)'
  <2>1. \A n : (Built(a, n) => Built(a, n)') /\ (TypedTo(a, n) => TypedTo(a, n)')
    BY <1>6, SteadyIfUnchanged, SteadyBuilt
  <2>2. at = "type" => Latest(a, p)'
    BY <1>6, <1>7 DEF Latest, tmux
  <2>3. answer'[a] \notin Panes /\ answer'[a] # Yes
    BY <1>6, Constants DEF Silence, Panes, Yes
  <2> QED BY <1>4, <1>5, <1>6, <1>7, <2>1, <2>2, <2>3 DEF Progress
<1>13. OwnSession(a)'
  <2>1. UNCHANGED <<created, base, session, first, origin, alive>> /\ Made(id[a])' = Made(id[a])
    BY <1>6 DEF tmux, Made
  <2> QED BY <1>1, <1>6, <2>1 DEF OwnSession
<1>14. UNCHANGED <<tmux, history>>
  BY <1>6
<1> QED BY <1>8, <1>9, <1>10, <1>11, <1>12, <1>13, <1>14, LocalStep

\* A window is done: the next one, or the end.
LEMMA AdvanceInductive ==
  ASSUME IInv, NEW a \in Actors, Advance(a),
         pc[a] \in Waiting, answer[a] # Silence,
         answer' = [answer EXCEPT ![a] = Silence],
         pane' \in [Actors -> {0} \cup Panes],
         UNCHANGED <<tmux, late, history>>,
         Built(a, window[a]), TypedTo(a, window[a])
  PROVE  IInv'
<1>1. /\ TypeOK /\ Asks(a) /\ id[a] # 0
  BY DEF IInv, Numbered
<1>2. window[a] \in Windows /\ Len(Template) \in Nat \ {0}
  BY <1>1, Constants DEF TypeOK
<1>3. CASE window[a] = Len(Template) /\ Return(a, "ok") /\ UNCHANGED window
  <2>1. late[a] = NoRequest
    BY <1>1 DEF Asks
  <2> QED BY <1>1, <1>2, <1>3, <2>1, ReturnInductive
<1>4. CASE /\ window[a] < Len(Template)
           /\ window' = [window EXCEPT ![a] = @ + 1]
           /\ pc' = [pc EXCEPT ![a] = "create"]
           /\ request' = [request EXCEPT ![a] = Request("new-window", 0,
                            [call |-> id[a], window |-> window[a] + 1])]
           /\ UNCHANGED result
  <2> DEFINE w == window[a] + 1
  <2>1. w \in Windows /\ w > 1 /\ w - 1 = window[a]
    BY <1>2, <1>4 DEF Windows
  <2>2. "new-window" \in Commands /\ "create" \in {"create", "type"} /\ 0 \in {0} \cup Panes
    BY DEF Commands
  <2>3. window' = [window EXCEPT ![a] = w]
    BY <1>1, <1>4 DEF TypeOK
  <2> HIDE DEF w
  <2>4. request' = [request EXCEPT ![a] = Request("new-window", 0,
                      [call |-> id[a], window |-> w])]
    BY <1>4 DEF w
  <2>5. UNCHANGED <<tmux, late, result, history>>
    BY <1>4
  <2>6. Built(a, w - 1) /\ TypedTo(a, w - 1)
    BY <2>1
  <2> QED BY <1>4, <2>1, <2>2, <2>3, <2>4, <2>5, <2>6, SendInductive
<1> QED BY <1>3, <1>4 DEF Advance


LEMMA CheckedInductive ==
  ASSUME IInv, NEW a \in Actors, Checked(a) PROVE IInv'
<1>1. /\ TypeOK /\ Asks(a) /\ Progress(a)
      /\ pc[a] = "check" /\ answer[a] # Silence /\ answer' = [answer EXCEPT ![a] = Silence]
      /\ UNCHANGED <<tmux, window, pane, late, history>>
      /\ "check" \in Waiting
  BY DEF IInv, Checked, Took, Waiting
<1>2. pane' \in [Actors -> {0} \cup Panes] /\ late[a] = NoRequest /\ pc[a] \in Waiting
  BY <1>1 DEF TypeOK, Asks
<1>3. CASE Return(a, "exists")
  BY <1>1, <1>2, <1>3, ReturnInductive
<1>4. CASE /\ pc' = [pc EXCEPT ![a] = "create"]
           /\ Send(a, "new-session", 0) /\ UNCHANGED result
  <2>1. window[a] = 1 /\ Made(id[a]) = {} /\ window \in [Actors -> Windows]
    BY <1>1 DEF Asks, Progress, TypeOK
  <2>2. Built(a, window[a] - 1) /\ TypedTo(a, window[a] - 1)
    BY <2>1 DEF Built, TypedTo
  <2>3. window[a] \in Windows /\ "new-session" \in Commands /\ 0 \in {0} \cup Panes
    BY <2>1 DEF Commands
  <2>4. window' = [window EXCEPT ![a] = window[a]]
    BY <1>1, <2>1
  <2>5. request' = [request EXCEPT ![a] =
                      Request("new-session", 0, [call |-> id[a], window |-> window[a]])]
    BY <1>4 DEF Send, From
  <2>6. UNCHANGED <<tmux, late, result, history>>
    BY <1>1, <1>4
  <2> QED BY <1>1, <1>2, <1>4, <2>1, <2>2, <2>3, <2>4, <2>5, <2>6, SendInductive
<1> QED BY <1>3, <1>4 DEF Checked

LEMMA CreatedInductive ==
  ASSUME IInv, NEW a \in Actors, Created(a) PROVE IInv'
<1>1. /\ TypeOK /\ Asks(a) /\ Progress(a)
      /\ pc[a] = "create" /\ answer[a] # Silence /\ answer' = [answer EXCEPT ![a] = Silence]
      /\ answer[a] \in Panes /\ pane' = [pane EXCEPT ![a] = answer[a]]
      /\ UNCHANGED <<tmux, late, history>>
      /\ "create" \in Waiting
  BY DEF IInv, Created, Took, Waiting
<1>2. pane' \in [Actors -> {0} \cup Panes] /\ pc[a] \in Waiting
  BY <1>1 DEF TypeOK
<1>3. /\ Built(a, window[a]) /\ TypedTo(a, window[a] - 1)
      /\ id[a] \notin orphaned =>
           base + answer[a] \in 1..created /\ origin[base + answer[a]] = From(a)
  BY <1>1 DEF Progress, Latest
<1>4. CASE /\ Template[window[a]]
           /\ pc' = [pc EXCEPT ![a] = "type"]
           /\ Send(a, "send-keys", answer[a])
           /\ UNCHANGED <<window, result>>
  <2>1. window[a] \in Windows /\ window' = [window EXCEPT ![a] = window[a]]
    BY <1>1, <1>4 DEF TypeOK
  <2>2. "send-keys" \in Commands
    BY DEF Commands
  <2>3. /\ request' = [request EXCEPT ![a] =
                        Request("send-keys", answer[a], [call |-> id[a], window |-> window[a]])]
        /\ id[a] \notin orphaned =>
             /\ base + answer[a] \in 1..created
             /\ origin[base + answer[a]] = [call |-> id[a], window |-> window[a]]
    BY <1>3, <1>4 DEF Send, From
  <2>4. UNCHANGED <<tmux, late, result, history>>
    BY <1>1, <1>4
  <2> QED BY <1>1, <1>2, <1>3, <1>4, <2>1, <2>2, <2>3, <2>4, SendInductive
<1>5. CASE ~Template[window[a]] /\ Advance(a)
  <2>1. window[a] \in Int /\ \A p \in Made(id[a]) : origin[p].window \in Int
    <3>1. \A p \in Made(id[a]) : origin[p] \in Origins
      BY <1>1, Constants DEF Made, TypeOK, Panes
    <3> QED BY <1>1, <3>1, Constants DEF TypeOK, Windows, Origins
  <2>2. TypedTo(a, window[a])
    BY <1>3, <1>5, <2>1 DEF TypedTo
  <2> QED BY <1>1, <1>2, <1>3, <1>5, <2>2, AdvanceInductive
<1> QED BY <1>4, <1>5 DEF Created

LEMMA TypedInductive ==
  ASSUME IInv, NEW a \in Actors, Typed(a) PROVE IInv'
<1>1. /\ TypeOK /\ Asks(a) /\ Progress(a)
      /\ pc[a] = "type" /\ answer[a] # Silence /\ answer' = [answer EXCEPT ![a] = Silence]
      /\ UNCHANGED <<tmux, pane, late, history>>
      /\ "type" \in Waiting
  BY DEF IInv, Typed, Took, Waiting
<1>2. pane' \in [Actors -> {0} \cup Panes] /\ late[a] = NoRequest /\ pc[a] \in Waiting
  BY <1>1 DEF TypeOK, Asks
<1>3. CASE answer[a] = Yes /\ Advance(a)
  BY <1>1, <1>2, <1>3, AdvanceInductive DEF Progress
<1>4. CASE Return(a, "error") /\ UNCHANGED window
  BY <1>1, <1>2, <1>4, ReturnInductive
<1> QED BY <1>3, <1>4 DEF Typed

LEMMA FailureInductive ==
  ASSUME IInv, NEW a \in Actors, NotCreated(a) \/ GivesUp(a) PROVE IInv'
<1>1. TypeOK /\ Asks(a)
  BY DEF IInv
<1>2. pane \in [Actors -> {0} \cup Panes]
  BY <1>1 DEF TypeOK
<1>3. CASE NotCreated(a)
  <2>1. /\ Return(a, "error") /\ UNCHANGED <<tmux, window, pane, late, history>>
        /\ answer' = [answer EXCEPT ![a] = Silence]
        /\ pc[a] = "create" /\ "create" \in Waiting
    BY <1>3 DEF NotCreated, Took, Waiting
  <2>2. late[a] = NoRequest
    BY <1>1, <2>1 DEF Asks
  <2> QED BY <1>2, <2>1, <2>2, ReturnInductive
<1>4. CASE GivesUp(a)
  <2>1. /\ Return(a, "error") /\ UNCHANGED <<tmux, window, pane, history>>
        /\ answer' = [answer EXCEPT ![a] = Silence] /\ pc[a] \in Waiting
        /\ late' = [late EXCEPT ![a] = request[a]]
    BY <1>4 DEF GivesUp
  <2> QED BY <1>2, <2>1, ReturnInductive
<1> QED BY <1>3, <1>4

LEMMA LeaveInductive ==
  ASSUME IInv, NEW a \in Actors, Leave(a) PROVE IInv'
<1>1. /\ TypeOK /\ Asks(a) /\ Progress(a) /\ OwnSession(a)
      /\ Calling(a) => id[a] # 0
  BY DEF IInv, Numbered, Calling
<1>2. /\ pc[a] = "return" /\ pc' = [pc EXCEPT ![a] = "idle"]
      /\ result' = [result EXCEPT ![a] = "none"]
      /\ pc \in [Actors -> {"idle", "return"} \cup Waiting]
      /\ result \in [Actors -> {"none", "ok", "exists", "error"}]
  BY <1>1 DEF TypeOK, Leave
<1>3. /\ pc'[a] = "idle" /\ result'[a] = "none"
      /\ \A b \in Actors \ {a} : pc'[b] = pc[b] /\ result'[b] = result[b]
      /\ pc' \in [Actors -> {"idle", "return"} \cup Waiting]
      /\ result' \in [Actors -> {"none", "ok", "exists", "error"}]
  BY <1>2
<1>4. /\ UNCHANGED <<tmux, window, pane, request, answer, late, history>>
      /\ UNCHANGED <<created, base, session, first, origin, typed, alive>>
      /\ UNCHANGED <<calls, id, existed, robbed, orphaned>>
  BY DEF Leave, history, tmux
<1>5. pc[a] \notin Waiting /\ pc'[a] \notin Waiting
  BY <1>2, <1>3 DEF Waiting
<1>6. Open(a)' = Open(a) /\ From(a)' = From(a)
  BY <1>4, <1>5 DEF Open, From
<1>7. TypeOK'
  BY <1>1, <1>3, <1>4 DEF TypeOK
<1>8. \A b \in Actors \ {a} : Kept(b)
  BY <1>3, <1>4 DEF Kept
<1>9. Calling(a)' => id[a] # 0
  BY <1>1, <1>3, <1>5, <1>6 DEF Calling
<1>10. Asks(a)'
  BY <1>1, <1>3, <1>4, <1>5, <1>6 DEF Asks, Waiting
<1>11. Progress(a)'
  <2>1. \A n : (Built(a, n) => Built(a, n)') /\ (TypedTo(a, n) => TypedTo(a, n)')
    BY <1>4, SteadyIfUnchanged, SteadyBuilt
  <2>2. \A p : Latest(a, p) => Latest(a, p)'
    BY <1>4 DEF Latest, From
  <2> QED BY <1>1, <1>3, <1>4, <1>6, <2>1, <2>2 DEF Progress
<1>12. OwnSession(a)'
  BY <1>1, <1>4, <1>5, <1>6 DEF OwnSession, Made
<1> QED BY <1>4, <1>7, <1>8, <1>9, <1>10, <1>11, <1>12, LocalStep


LEMMA OriginTypes ==
  ASSUME TypeOK, NEW p \in 1..created
  PROVE  /\ p \in Panes /\ origin[p] \in Origins /\ origin[p].call \in Nat
         /\ origin[p].window \in Int
         /\ origin[p] = [call |-> origin[p].call, window |-> origin[p].window]
<1>1. p \in Panes
  BY Constants DEF TypeOK, Panes
<1>2. origin[p] \in Origins
  BY <1>1 DEF TypeOK
<1> QED BY <1>1, <1>2, Constants DEF Origins

LEMMA CallInductive ==
  ASSUME IInv, NEW a \in Actors, Call(a) \/ CallEmpty(a) PROVE IInv'
<1>1. /\ TypeOK /\ Asks(a) /\ Numbered /\ InOrder /\ SessionsApart
      /\ pc[a] = "idle" /\ calls < MaxCalls /\ late[a] = NoRequest
  BY DEF IInv, Call, CallEmpty, Begin
<1> DEFINE from == [call |-> calls + 1, window |-> 1]
<1> DEFINE r == Request("has-session", 0, from)
<1>2. /\ calls \in Nat /\ calls + 1 \in 0..MaxCalls /\ from \in Origins /\ 1 \in Windows
  BY <1>1, Constants DEF TypeOK, Origins, Windows
<1>3. /\ r \in Requests /\ r.what = "has-session" /\ r.from = from /\ r # NoRequest
  BY <1>2, RequestTypes DEF Request, Requests, Commands
<1> HIDE DEF r
<1>4. /\ pc \in [Actors -> {"idle", "return"} \cup Waiting]
      /\ window \in [Actors -> Windows] /\ pane \in [Actors -> {0} \cup Panes]
      /\ request \in [Actors -> Requests]
      /\ result \in [Actors -> {"none", "ok", "exists", "error"}]
      /\ id \in [Actors -> 0..MaxCalls] /\ robbed \in [Actors -> BOOLEAN]
  BY <1>1 DEF TypeOK
<1>5. /\ window' = [window EXCEPT ![a] = 1]
      /\ pane' = [pane EXCEPT ![a] = 0]
      /\ calls' = calls + 1 /\ id' = [id EXCEPT ![a] = calls + 1]
      /\ robbed' = [robbed EXCEPT ![a] = FALSE]
      /\ UNCHANGED <<created, base, session, first, origin, typed, alive>>
      /\ UNCHANGED <<tmux, answer, late, existed, orphaned>>
      /\ \/ /\ pc' = [pc EXCEPT ![a] = "check"] /\ request' = [request EXCEPT ![a] = r]
            /\ UNCHANGED result
         \/ /\ pc' = [pc EXCEPT ![a] = "return"] /\ UNCHANGED request
            /\ result' = [result EXCEPT ![a] = "error"]
  BY DEF Call, CallEmpty, Begin, tmux, r
<1>6. /\ window'[a] = 1 /\ answer'[a] = Silence
      /\ late'[a] = NoRequest /\ id'[a] = calls + 1
      /\ \/ pc'[a] = "check" /\ request'[a] = r /\ result'[a] = "none"
         \/ pc'[a] = "return" /\ request'[a] = NoRequest /\ result'[a] = "error"
      /\ "check" \in Waiting /\ pc[a] \notin Waiting /\ "return" \notin Waiting
  BY <1>1, <1>4, <1>5 DEF Asks, Waiting
<1>7. /\ Open(a)' \in {r, NoRequest} /\ From(a)' = from
      /\ pc'[a] = "check" => Open(a)' = r
  BY <1>6 DEF Open, From
<1>8. TypeOK'
  <2>1. /\ pc' \in [Actors -> {"idle", "return"} \cup Waiting]
        /\ window' \in [Actors -> Windows] /\ pane' \in [Actors -> {0} \cup Panes]
        /\ request' \in [Actors -> Requests]
        /\ result' \in [Actors -> {"none", "ok", "exists", "error"}]
        /\ id' \in [Actors -> 0..MaxCalls] /\ robbed' \in [Actors -> BOOLEAN]
    BY <1>2, <1>3, <1>4, <1>5, <1>6
  <2> QED BY <1>1, <1>2, <1>5, <2>1 DEF TypeOK
<1>9. ASSUME NEW b \in Actors \ {a} PROVE Kept(b) /\ robbed'[b] = robbed[b]
  BY <1>4, <1>5 DEF Kept
<1>10. Made(id[a])' = {}
  <2>1. \A p \in 1..created : origin[p].call \in Nat /\ origin[p].call <= calls
    BY <1>1, OriginTypes DEF Numbered
  <2> QED BY <1>2, <1>5, <1>6, <2>1 DEF Made
<1>11. Numbered'
  <2>1. \A p \in 1..created' : origin'[p].call <= calls'
    <3>1. \A p \in 1..created : origin[p].call \in Nat /\ origin[p].call <= calls
      BY <1>1, OriginTypes DEF Numbered
    <3> QED BY <1>2, <1>5, <3>1
  <2>2. \A b \in Actors \ {a} : Calling(b)' = Calling(b)
    BY <1>9 DEF Calling, Open, Kept
  <2>3. \A b \in Actors \ {a} : id'[b] = id[b] /\ id[b] \in Nat /\ id[b] <= calls
    BY <1>1, <1>4, <1>9, Constants DEF Numbered, Kept
  <2>4. \A b \in Actors \ {a} : id'[b] <= calls' /\ id'[b] # id'[a] /\ (Calling(b)' => id'[b] # 0)
    BY <1>1, <1>2, <1>5, <1>6, <2>2, <2>3 DEF Numbered, Calling
  <2>5. id'[a] <= calls' /\ id'[a] # 0
    BY <1>2, <1>5, <1>6
  <2>6. \A b, c \in Actors : id'[b] = id'[c] /\ id'[b] # 0 => b = c
    BY <1>1, <2>3, <2>4 DEF Numbered
  <2> QED BY <2>1, <2>4, <2>5, <2>6 DEF Numbered, Calling
<1>12. Asks(a)' /\ Progress(a)' /\ OwnSession(a)'
  <2>1. Asks(a)'
    BY <1>3, <1>6, <1>7, RequestTypes DEF Asks, Waiting
  <2>2. Progress(a)'
    BY <1>3, <1>6, <1>7, <1>10, RequestTypes DEF Progress
  <2>3. OwnSession(a)'
    BY <1>6, <1>10 DEF OwnSession
  <2> QED BY <2>1, <2>2, <2>3
<1>13. ASSUME NEW b \in Actors \ {a} PROVE Asks(b)' /\ Progress(b)' /\ OwnSession(b)'
  <2>1. Kept(b) /\ Asks(b) /\ Progress(b) /\ OwnSession(b) /\ robbed'[b] = robbed[b]
    BY <1>9 DEF IInv
  <2>2. (\A k : Steady(k)) /\ Rooted(b)
    BY <1>5, SteadyIfUnchanged DEF Rooted
  <2>3. Progress(b)'
    BY <1>1, <2>1, <2>2, ProgressKept DEF Numbered, Calling
  <2>4. OwnSession(b)'
    BY <1>1, <1>5, <2>1, <2>2, OwnSessionKept DEF SessionsApart
  <2> QED BY <2>1, <2>3, <2>4, AsksKept
<1>14. CommandsAtHome' /\ Blank' /\ InOrder' /\ SessionsApart'
  BY <1>5, TmuxKept
<1> QED BY <1>8, <1>11, <1>12, <1>13, <1>14 DEF IInv


(***************************************************************************)
(* The steps of the server                                                 *)
(***************************************************************************)
\* A session that is new, or an open pane's.
Home(name, f) ==
  \/ name \in Names /\ name \notin Sessions /\ f = created + 1
  \/ \E p \in alive : name = session[p] /\ f = first[p]

\* The windows before `from' are there and complete.
Due(from) ==
  from.call # 0 =>
    /\ from.window \in Windows
    /\ {origin[p].window : p \in Made(from.call)} = 1..(from.window - 1)
    /\ \A p \in Made(from.call) :
         Template[origin[p].window] /\ from.call \notin orphaned => origin[p] \in typed[p]

LEMMA HomeTypes ==
  ASSUME IInv, NEW name, NEW f, Home(name, f)
  PROVE  name \in Names /\ f \in 1..(created + 1) /\ f \in Int
<1>1. /\ created \in Nat /\ \A p \in 1..created : p \in Panes /\ first[p] \in 1..created
      /\ alive \subseteq 1..created /\ session \in [Panes -> Names]
  <2>1. TypeOK /\ SessionsApart
    BY DEF IInv
  <2>2. \A p \in 1..created : p \in Panes
    BY <2>1, OriginTypes
  <2> QED BY <2>1, <2>2, Constants DEF TypeOK, SessionsApart
<1>2. CASE name \in Names /\ f = created + 1
  BY <1>1, <1>2
<1>3. CASE \E p \in alive : name = session[p] /\ f = first[p]
  <2>1. PICK p \in alive : name = session[p] /\ f = first[p]
    BY <1>3
  <2>2. p \in Panes /\ first[p] \in 1..created
    BY <1>1
  <2> QED BY <1>1, <2>1, <2>2
<1> QED BY <1>2, <1>3 DEF Home

LEMMA PaneMade ==
  ASSUME IInv, NEW name, NEW f, NEW from \in Origins, Home(name, f),
         NEW i, AddPane(name, f, from, i), Due(from), orphaned' = orphaned
  PROVE  /\ CommandsAtHome' /\ Blank' /\ InOrder' /\ SessionsApart'
         /\ Made(from.call)' = Made(from.call) \cup {created'}
         /\ \A k : k # from.call => Steady(k)
<1>1. /\ TypeOK /\ CommandsAtHome /\ Blank /\ InOrder /\ SessionsApart
      /\ created \in Nat
  BY DEF IInv, TypeOK
<1>2. name \in Names /\ f \in 1..(created + 1) /\ f \in Int
  BY HomeTypes
<1>3. /\ created' = created + 1 /\ created' \in Panes
      /\ alive' = alive \cup {created'} /\ alive \subseteq 1..created
      /\ session'[created'] = name /\ first'[created'] = f /\ origin'[created'] = from
      /\ typed' = typed
      /\ \A p \in 1..created :
           /\ p \in Panes /\ p # created'
           /\ session'[p] = session[p] /\ first'[p] = first[p] /\ origin'[p] = origin[p]
  BY <1>1, <1>2, AddPaneTypes DEF TypeOK
<1>4. 1..created' = (1..created) \cup {created'} /\ created' \notin 1..created
  BY <1>1, <1>3
<1>5. \A k : Made(k)' = IF k = from.call THEN Made(k) \cup {created'} ELSE Made(k)
  BY <1>3, <1>4 DEF Made
<1>6. typed'[created'] = {}
  BY <1>1, <1>3, <1>4 DEF Blank
<1>7. CommandsAtHome'
  BY <1>1, <1>3, <1>4, <1>6 DEF CommandsAtHome, Made
<1>8. Blank'
  BY <1>1, <1>3, <1>4 DEF Blank
<1>9. InOrder'
  <2>1. SUFFICES ASSUME NEW p \in 1..created', origin'[p].call # 0
        PROVE  /\ origin'[p].window \in Windows
               /\ \A w \in 1..origin'[p].window :
                    \E q \in Made(origin[p].call)' : origin'[q].window = w
               /\ \A q \in Made(origin[p].call)' : p < q =>
                    /\ origin'[p].window < origin'[q].window
                    /\ Template[origin'[p].window] /\ origin'[p].call \notin orphaned =>
                         origin'[p] \in typed'[p]
    BY DEF InOrder
  <2>2. CASE p = created'
    <3>1. from.call # 0 /\ from.window \in Windows /\ from.window \in Int
      BY <1>3, <2>1, <2>2, Constants DEF Due, Windows
    <3>2. \A w \in 1..(from.window - 1) : \E q \in Made(from.call) : origin[q].window = w
      <4>1. {origin[q].window : q \in Made(from.call)} = 1..(from.window - 1)
        BY <3>1 DEF Due
      <4> QED BY <4>1
    <3>3. Made(origin[p].call)' = Made(from.call) \cup {created'}
      BY <1>3, <1>4, <2>2 DEF Made
    <3>4. \A q \in Made(from.call) : q \in 1..created /\ q < created'
      BY <1>1, <1>3 DEF Made
    <3>5. \A w \in 1..from.window : \E q \in Made(from.call) \cup {created'} : origin'[q].window = w
      BY <1>3, <3>1, <3>2, <3>4
    <3> QED BY <1>3, <2>2, <3>1, <3>3, <3>4, <3>5
  <2>3. CASE p \in 1..created
    <3>1. origin'[p] = origin[p] /\ origin[p].call # 0
      BY <1>3, <2>1, <2>3
    <3>2. /\ origin[p].window \in Windows
          /\ \A w \in 1..origin[p].window : \E q \in Made(origin[p].call) : origin[q].window = w
          /\ \A q \in Made(origin[p].call) : p < q =>
               /\ origin[p].window < origin[q].window
               /\ Template[origin[p].window] /\ origin[p].call \notin orphaned =>
                    origin[p] \in typed[p]
      BY <1>1, <2>3, <3>1 DEF InOrder
    <3>3. /\ \A q \in Made(origin[p].call) : q \in Made(origin[p].call)' /\ origin'[q] = origin[q]
          /\ \A q \in Made(origin[p].call)' : q \in Made(origin[p].call) \/ q = created'
      BY <1>3, <1>4, <3>1 DEF Made
    <3>4. ASSUME created' \in Made(origin[p].call)'
          PROVE  /\ origin[p].window < from.window
                 /\ Template[origin[p].window] /\ origin[p].call \notin orphaned =>
                      origin[p] \in typed[p]
      <4>1. from.call = origin[p].call
        BY <1>3, <3>1, <3>4 DEF Made
      <4>2. p \in Made(from.call)
        BY <2>3, <4>1 DEF Made
      <4>3. /\ {origin[q].window : q \in Made(from.call)} = 1..(from.window - 1)
            /\ Template[origin[p].window] /\ origin[p].call \notin orphaned =>
                 origin[p] \in typed[p]
        BY <3>1, <4>1, <4>2 DEF Due
      <4>4. origin[p].window \in 1..(from.window - 1)
        BY <4>2, <4>3
      <4> QED BY <4>3, <4>4, Constants DEF Origins
    <3> QED BY <1>3, <3>1, <3>2, <3>3, <3>4
  <2> QED BY <1>4, <2>1, <2>2, <2>3
<1>10. SessionsApart'
  <2>1. \A p \in 1..created' : first'[p] \in 1..created'
    BY <1>1, <1>2, <1>3, <1>4 DEF SessionsApart
  <2>2. \A p \in alive : session'[p] = name => first'[p] = f
    BY <1>1, <1>3 DEF Home, Sessions, SessionsApart
  <2>3. \A p, q \in alive : session'[p] = session'[q] => first'[p] = first'[q]
    BY <1>1, <1>3 DEF SessionsApart
  <2>4. \A p, q \in alive' : session'[p] = session'[q] => first'[p] = first'[q]
    BY <1>3, <2>2, <2>3
  <2> QED BY <2>1, <2>4 DEF SessionsApart
<1>11. \A k : k # from.call => Steady(k)
  BY <1>3, <1>4, <1>5 DEF Steady
<1> QED BY <1>5, <1>7, <1>8, <1>9, <1>10, <1>11


\* What the request of a, executed, has done to tmux, and what is answered.
PaneOf(a, reply) ==
  /\ Open(a).what \in {"new-session", "new-window"}
  /\ \E name, f :
       /\ Home(name, f) /\ AddPane(name, f, From(a), reply)
       /\ Open(a).what = "new-session" => f = created' /\ name = Wanted[a]
       /\ Open(a).what = "new-window" =>
            \E p \in alive : /\ Wanted[a] \in Indexes \/ Resolve(Wanted[a]) = {session[p]}
                             /\ name = session[p] /\ f = first[p]

KeysOf(a, reply) ==
  /\ Open(a).what = "send-keys" /\ base + Open(a).pane \in alive /\ reply = Yes
  /\ typed' = [typed EXCEPT ![base + Open(a).pane] = @ \cup {From(a)}]
  /\ UNCHANGED <<created, base, session, first, origin, alive>>

NothingOf(a, reply) ==
  /\ UNCHANGED tmux /\ reply \notin Panes
  /\ reply = Yes => Open(a).what = "has-session"

LEMMA ExecuteCases ==
  ASSUME IInv, NEW a \in Actors, Open(a) # NoRequest, NEW reply,
         Execute(Open(a), Wanted[a], reply)
  PROVE  PaneOf(a, reply) \/ KeysOf(a, reply) \/ NothingOf(a, reply)
<1>1. Open(a).from = From(a) /\ Wanted[a] \in Names
  BY ActorsAssumption DEF IInv, Asks
<1>2. Yes \notin Panes /\ No \notin Panes /\ Yes # No
  BY Constants DEF Yes, No, Panes
<1>3. CASE Open(a).what = "has-session" /\ HasSession(Wanted[a], reply)
  BY <1>2, <1>3 DEF HasSession, NothingOf
<1>4. CASE Open(a).what = "new-session" /\ NewSession(Wanted[a], Open(a).from, reply)
  <2>1. CASE /\ Wanted[a] \notin Sessions
             /\ AddPane(Wanted[a], created + 1, Open(a).from, reply)
    <3>1. Home(Wanted[a], created + 1) /\ created' = created + 1
      BY <1>1, <2>1 DEF Home, AddPane
    <3>2. AddPane(Wanted[a], created + 1, From(a), reply)
      BY <1>1, <2>1, <3>1
    <3> QED BY <1>4, <3>1, <3>2 DEF PaneOf
  <2>2. CASE reply = No /\ UNCHANGED tmux
    BY <1>2, <2>2 DEF NothingOf
  <2> QED BY <1>4, <2>1, <2>2 DEF NewSession
<1>5. CASE Open(a).what = "new-window" /\ NewWindow(Wanted[a], Open(a).from, reply)
  <2>1. CASE \E p \in alive :
               /\ Wanted[a] \in Indexes \/ Resolve(Wanted[a]) = {session[p]}
               /\ AddPane(session[p], first[p], Open(a).from, reply)
    <3>1. PICK p \in alive :
               /\ Wanted[a] \in Indexes \/ Resolve(Wanted[a]) = {session[p]}
               /\ AddPane(session[p], first[p], Open(a).from, reply)
      BY <2>1
    <3>2. Home(session[p], first[p]) /\ created' = created + 1
      BY <3>1 DEF Home, AddPane
    <3>3. AddPane(session[p], first[p], From(a), reply)
      BY <1>1, <3>1, <3>2
    <3> QED BY <1>5, <3>1, <3>2, <3>3 DEF PaneOf
  <2>2. CASE reply = No /\ UNCHANGED tmux
    BY <1>2, <2>2 DEF NothingOf
  <2> QED BY <1>5, <2>1, <2>2 DEF NewWindow
<1>6. CASE Open(a).what = "send-keys" /\ SendKeys(Open(a).pane, Open(a).from, reply)
  BY <1>1, <1>2, <1>6 DEF SendKeys, KeysOf, NothingOf
<1> QED BY <1>3, <1>4, <1>5, <1>6 DEF Execute


\* A pane that a's request made is that of the window a is at, in a's session.
LEMMA PaneOfInductive ==
  ASSUME IInv, NEW a \in Actors, NEW reply, PaneOf(a, reply),
         UNCHANGED <<id, window, orphaned>>
  PROVE  /\ CommandsAtHome' /\ Blank' /\ InOrder' /\ SessionsApart'
         /\ \A k : k # id[a] => Steady(k)
         /\ created' \in 0..MaxPanes /\ base' \in 0..created' /\ base' = base
         /\ alive' \subseteq (base' + 1)..created'
         /\ session' \in [Panes -> Names] /\ first' \in [Panes -> Panes]
         /\ origin' \in [Panes -> Origins] /\ typed' \in [Panes -> SUBSET Origins]
         /\ reply \in Panes /\ Latest(a, reply)' /\ alive \subseteq alive'
         /\ \A p \in 1..created : first'[p] = first[p] /\ session'[p] = session[p]
         /\ \A p \in 1..created' : p \in 1..created \/ origin'[p] = From(a)
         /\ \A p \in 1..created : origin'[p] = origin[p]
         /\ Built(a, window[a])' /\ TypedTo(a, window[a] - 1)'
         /\ ~robbed[a] /\ Wanted[a] \notin Indexes => \A p \in Made(id[a])' :
              /\ origin'[first'[p]] = [call |-> id[a], window |-> 1]
              /\ p \in alive' /\ session'[p] = Wanted[a]
<1>1. /\ TypeOK /\ Numbered /\ Asks(a) /\ Progress(a) /\ OwnSession(a) /\ SessionsApart
      /\ Open(a).what \in {"new-session", "new-window"} /\ Open(a) # NoRequest
  BY RequestTypes DEF IInv, PaneOf
<1>2. /\ window[a] \in Windows /\ window[a] \in Int /\ id[a] # 0 /\ id[a] \in Int
      /\ From(a) \in Origins /\ From(a).call = id[a] /\ From(a).window = window[a]
  <2>1. window[a] \in Windows /\ id[a] \in Int /\ From(a) \in Origins
    <3>1. From(a) \in Origins
      BY <1>1, FromTypes
    <3> QED BY <1>1, <3>1, Constants DEF TypeOK
  <2>2. id[a] # 0
    BY <1>1 DEF Numbered
  <2> QED BY <2>1, <2>2 DEF From, Windows
<1>3. Built(a, window[a] - 1) /\ TypedTo(a, window[a] - 1)
  BY <1>1 DEF Progress
<1>4. \A p \in Made(id[a]) : p \in 1..created /\ origin[p].window \in 1..(window[a] - 1)
  BY <1>3 DEF Built, Made
<1>5. Due(From(a))
  <2>1. \A p \in Made(id[a]) :
          Template[origin[p].window] /\ id[a] \notin orphaned => origin[p] \in typed[p]
    BY <1>2, <1>3, <1>4 DEF TypedTo
  <2> QED BY <1>2, <1>3, <2>1 DEF Due, Built
<1>6. PICK name, f :
        /\ Home(name, f) /\ AddPane(name, f, From(a), reply)
        /\ Open(a).what = "new-session" => f = created' /\ name = Wanted[a]
        /\ Open(a).what = "new-window" =>
             \E p \in alive : /\ Wanted[a] \in Indexes \/ Resolve(Wanted[a]) = {session[p]}
                              /\ name = session[p] /\ f = first[p]
  BY DEF PaneOf
<1>7. /\ CommandsAtHome' /\ Blank' /\ InOrder' /\ SessionsApart'
      /\ Made(id[a])' = Made(id[a]) \cup {created'}
      /\ \A k : k # id[a] => Steady(k)
  <2>1. PICK from \in Origins : from = From(a)
    BY <1>2
  <2>2. AddPane(name, f, from, reply) /\ Due(from) /\ from.call = id[a]
    BY <1>2, <1>5, <1>6, <2>1
  <2>3. /\ CommandsAtHome' /\ Blank' /\ InOrder' /\ SessionsApart'
        /\ Made(from.call)' = Made(from.call) \cup {created'}
        /\ \A k : k # from.call => Steady(k)
    BY <1>6, <2>2, PaneMade
  <2>4. Made(from.call)' = Made(id[a])' /\ Made(from.call) = Made(id[a])
    BY <2>2 DEF Made
  <2> QED BY <2>2, <2>3, <2>4
<1>8. /\ created' = created + 1 /\ created' \in 0..MaxPanes /\ created' \in Panes
      /\ alive' = alive \cup {created'} /\ alive' \subseteq (base' + 1)..created'
      /\ base' = base /\ base' \in 0..created' /\ reply \in Panes /\ base + reply = created'
      /\ session' \in [Panes -> Names] /\ session'[created'] = name
      /\ first' \in [Panes -> Panes] /\ first'[created'] = f
      /\ origin' \in [Panes -> Origins] /\ origin'[created'] = From(a)
      /\ typed' = typed
      /\ \A p \in 1..created :
           /\ p \in Panes /\ p # created'
           /\ session'[p] = session[p] /\ first'[p] = first[p] /\ origin'[p] = origin[p]
  BY <1>1, <1>2, <1>6, HomeTypes, AddPaneTypes
<1>9. /\ created \in Nat /\ alive \subseteq 1..created
      /\ typed' \in [Panes -> SUBSET Origins] /\ created' \in 1..created'
      /\ \A p \in 1..created' : p \in 1..created \/ p = created'
  BY <1>1, <1>8 DEF TypeOK
<1>10. Made(id[a])' = Made(id[a]) \cup {created'}
  BY <1>7
<1>11. From(a)' = From(a) /\ Latest(a, reply)'
  BY <1>8, <1>9 DEF Latest, From
<1>12. Built(a, window[a])'
  <2>1. {origin[p].window : p \in Made(id[a])} = 1..(window[a] - 1)
    BY <1>3 DEF Built
  <2>2. {origin'[p].window : p \in Made(id[a]) \cup {created'}} =
           (1..(window[a] - 1)) \cup {window[a]}
    BY <1>2, <1>4, <1>8, <2>1
  <2>3. (1..(window[a] - 1)) \cup {window[a]} = 1..window[a]
    BY <1>2 DEF Windows
  <2> QED BY <1>10, <2>2, <2>3 DEF Built
<1>13. TypedTo(a, window[a] - 1)'
  <2>1. SUFFICES ASSUME NEW p \in Made(id[a])', origin'[p].window <= window[a] - 1,
                        Template[origin'[p].window], id[a] \notin orphaned
                 PROVE  origin'[p] \in typed'[p]
    BY DEF TypedTo
  <2>2. p # created'
    BY <1>2, <1>8, <2>1
  <2>3. p \in Made(id[a]) /\ origin'[p] = origin[p]
    BY <1>4, <1>8, <1>10, <2>2
  <2> QED BY <1>3, <1>8, <2>1, <2>3 DEF TypedTo
<1>14. ASSUME ~robbed[a], Wanted[a] \notin Indexes, NEW p \in Made(id[a])'
       PROVE  /\ origin'[first'[p]] = [call |-> id[a], window |-> 1]
              /\ p \in alive' /\ session'[p] = Wanted[a]
  <2>1. \A q \in Made(id[a]) :
          /\ origin[first[q]] = [call |-> id[a], window |-> 1]
          /\ q \in alive /\ session[q] = Wanted[a] /\ first[q] \in 1..created
    BY <1>1, <1>2, <1>4, <1>14 DEF OwnSession, SessionsApart
  <2>2. CASE p \in Made(id[a])
    BY <1>4, <1>8, <2>1, <2>2
  <2>3. CASE p = created'
    <3>1. CASE Open(a).what = "new-session"
      BY <1>1, <1>6, <1>8, <2>3, <3>1 DEF Asks, From
    <3>2. CASE Open(a).what = "new-window"
      <4>1. PICK q \in alive : /\ Resolve(Wanted[a]) = {session[q]}
                               /\ name = session[q] /\ f = first[q]
        BY <1>6, <1>14, <3>2
      <4>2. 1 \in 1..(window[a] - 1)
        BY <1>1, <1>2, <3>2 DEF Asks
      <4>3. PICK q1 \in Made(id[a]) : origin[q1].window = 1
        BY <1>3, <4>2 DEF Built
      <4>4. q1 \in alive /\ session[q1] = Wanted[a]
        BY <2>1
      <4>5. Resolve(Wanted[a]) = {Wanted[a]}
        BY <4>4 DEF Resolve, Sessions
      <4>6. session[q] = Wanted[a]
        BY <4>1, <4>5
      <4>7. f = first[q1] /\ name = Wanted[a]
        BY <1>1, <4>1, <4>4, <4>6 DEF SessionsApart
      <4> QED BY <1>8, <2>1, <2>3, <4>7
    <3> QED BY <1>1, <3>1, <3>2
  <2> QED BY <1>10, <2>2, <2>3
<1>15. \A p \in 1..created' : p \in 1..created \/ origin'[p] = From(a)
  BY <1>8, <1>9
<1> QED BY <1>6, <1>7, <1>8, <1>9, <1>11, <1>12, <1>13, <1>14, <1>15


\* Keys that a's request typed are in the pane of the window a is at, unless the
\* server has ended under a's call.
LEMMA KeysOfInductive ==
  ASSUME IInv, NEW a \in Actors, NEW reply, KeysOf(a, reply),
         UNCHANGED <<id, window, orphaned>>
  PROVE  /\ CommandsAtHome' /\ Blank' /\ InOrder' /\ SessionsApart'
         /\ \A k : Steady(k)
         /\ typed' \in [Panes -> SUBSET Origins]
         /\ UNCHANGED <<created, base, session, first, origin, alive>>
         /\ Built(a, window[a])' /\ TypedTo(a, window[a])'
<1>1. /\ TypeOK /\ Numbered /\ Progress(a) /\ CommandsAtHome /\ Blank /\ InOrder
      /\ SessionsApart /\ Open(a).what = "send-keys" /\ Open(a) # NoRequest
      /\ UNCHANGED <<created, base, session, first, origin, alive>>
      /\ base + Open(a).pane \in alive
      /\ typed' = [typed EXCEPT ![base + Open(a).pane] = @ \cup {From(a)}]
  BY RequestTypes DEF IInv, KeysOf
<1> DEFINE p == base + Open(a).pane
<1>2. /\ Built(a, window[a]) /\ TypedTo(a, window[a] - 1)
      /\ id[a] \notin orphaned => origin[p] = From(a)
      /\ p \in 1..created
  <2>1. alive \subseteq (base + 1)..created /\ base \in Nat
    BY <1>1, Constants DEF TypeOK
  <2>2. \A q \in alive : q \in 1..created
    BY <2>1
  <2>3. p \in 1..created
    BY <1>1, <2>2
  <2> QED BY <1>1, <2>3 DEF Progress, Latest
<1>3. /\ p \in Panes /\ window[a] \in Int /\ id[a] # 0 /\ From(a) \in Origins
      /\ From(a).call = id[a] /\ From(a).window = window[a]
  <2>1. p \in Panes /\ From(a) \in Origins
    BY <1>1, <1>2, OriginTypes, FromTypes
  <2>2. window[a] \in Int /\ id[a] # 0
    BY <1>1 DEF TypeOK, Numbered, Windows
  <2> QED BY <2>1, <2>2 DEF From
<1> HIDE DEF p
<1>4. /\ typed \in [Panes -> SUBSET Origins]
      /\ typed' = [typed EXCEPT ![p] = @ \cup {From(a)}]
  BY <1>1 DEF TypeOK, p
<1>5. typed' \in [Panes -> SUBSET Origins] /\ typed'[p] = typed[p] \cup {From(a)}
  BY <1>3, <1>4
<1>6. \A q \in Panes : q # p => typed'[q] = typed[q]
  BY <1>4
<1>7. \A q \in 1..created : q \in Panes /\ typed[q] \subseteq typed'[q]
  <2>1. \A q \in 1..created : q \in Panes
    BY <1>1, OriginTypes
  <2> QED BY <1>5, <1>6, <2>1
<1>8. \A k : Made(k)' = Made(k)
  BY <1>1 DEF Made
<1>9. CommandsAtHome'
  <2>1. SUFFICES ASSUME NEW q \in 1..created, NEW f \in typed'[q]
                 PROVE  f.call \in orphaned \/ (f = origin[q] /\ f.call # 0)
    BY <1>1 DEF CommandsAtHome
  <2>2. CASE f \in typed[q]
    BY <1>1, <2>2 DEF CommandsAtHome
  <2>3. CASE f \notin typed[q]
    <3>1. q = p /\ f = From(a)
      BY <1>5, <1>6, <1>7, <2>1, <2>3
    <3> QED BY <1>2, <1>3, <3>1
  <2> QED BY <2>2, <2>3
<1>10. Blank'
  BY <1>1, <1>2, <1>6 DEF Blank
<1>11. InOrder'
  <2>1. \A q \in 1..created : origin[q] \in typed[q] => origin[q] \in typed'[q]
    BY <1>7
  <2> QED BY <1>1, <1>8, <2>1 DEF InOrder
<1>12. SessionsApart'
  BY <1>1 DEF SessionsApart
<1>13. \A k : Steady(k)
  BY <1>1, <1>7, <1>8 DEF Steady
<1>14. Built(a, window[a])'
  BY <1>1, <1>2, <1>8 DEF Built
<1>15. TypedTo(a, window[a])'
  <2>1. SUFFICES ASSUME NEW q \in Made(id[a]), origin[q].window <= window[a],
                        Template[origin[q].window], id[a] \notin orphaned
                 PROVE  origin[q] \in typed'[q]
    BY <1>1, <1>8 DEF TypedTo
  <2>2. q \in 1..created /\ q \in Panes /\ origin[q].window \in Int /\ origin[q].call = id[a]
    BY <1>1, OriginTypes DEF Made
  <2>3. CASE origin[q].window <= window[a] - 1
    BY <1>2, <1>7, <2>1, <2>2, <2>3 DEF TypedTo
  <2>4. CASE origin[q].window = window[a]
    <3>1. q = p
      <4>1. p \in Made(id[a]) /\ origin[p].window = window[a]
        BY <1>2, <1>3, <2>1 DEF Made
      <4>2. ~(q < p) /\ ~(p < q)
        BY <1>1, <1>2, <1>3, <2>2, <2>1, <2>4, <4>1 DEF InOrder
      <4> QED BY <1>2, <2>2, <4>2
    <3> QED BY <1>2, <1>5, <2>1, <3>1
  <2> QED BY <1>3, <2>1, <2>2, <2>3, <2>4
<1> QED BY <1>1, <1>5, <1>9, <1>10, <1>11, <1>12, <1>13, <1>14, <1>15

\* What is executed for one call takes nothing from another.
LEMMA ElsewhereInductive ==
  ASSUME IInv, NEW b \in Actors, Kept(b), robbed'[b] = robbed[b],
         id[b] # 0 => Steady(id[b]), base' = base,
         \A p \in 1..created : first'[p] = first[p] /\ session'[p] = session[p],
         alive \subseteq alive'
  PROVE  Asks(b)' /\ Progress(b)' /\ OwnSession(b)'
<1>1. Asks(b) /\ Progress(b) /\ OwnSession(b) /\ (Calling(b) => id[b] # 0)
  BY DEF IInv, Numbered, Calling
<1>2. \A p \in 1..created : first[p] \in 1..created
  BY DEF IInv, SessionsApart
<1>3. Rooted(b)
  BY DEF Rooted
<1> QED BY <1>1, <1>2, <1>3, AsksKept, ProgressKept, OwnSessionKept

\* The numbers stay in order if those of calls do and new panes have one of them.
LEMMA NumberedKept ==
  ASSUME IInv, UNCHANGED id, calls' \in Nat, calls <= calls',
         \A b \in Actors : Calling(b)' => Calling(b),
         \A p \in 1..created : origin'[p] = origin[p],
         \A p \in 1..created' : p \in 1..created \/ origin'[p].call <= calls'
  PROVE  Numbered'
<1>1. TypeOK /\ Numbered
  BY DEF IInv
<1>2. \A b \in Actors : id'[b] <= calls' /\ (Calling(b)' => id'[b] # 0)
  <2>1. \A b \in Actors : id[b] \in Nat /\ calls \in Nat
    BY <1>1, Constants DEF TypeOK
  <2> QED BY <1>1, <2>1 DEF Numbered, Calling
<1>3. \A p \in 1..created' : origin'[p].call <= calls'
  <2>1. \A p \in 1..created : origin[p].call \in Nat /\ origin[p].call <= calls
    BY <1>1, OriginTypes DEF Numbered
  <2>2. calls \in Nat
    BY <1>1, Constants DEF TypeOK
  <2> QED BY <2>1, <2>2
<1> QED BY <1>1, <1>2, <1>3 DEF Numbered, Calling


ServerTypes ==
  /\ created \in 0..MaxPanes /\ base \in 0..created /\ alive \subseteq (base + 1)..created
  /\ session \in [Panes -> Names] /\ first \in [Panes -> Panes]
  /\ origin \in [Panes -> Origins] /\ typed \in [Panes -> SUBSET Origins]

\* What a request of a does to tmux, whether it is answered in time or late.
LEMMA ServerStep ==
  ASSUME IInv, NEW a \in Actors, Open(a) # NoRequest, NEW reply,
         PaneOf(a, reply) \/ KeysOf(a, reply) \/ NothingOf(a, reply),
         UNCHANGED <<calls, id, robbed, orphaned, pc, window>>,
         \A b \in Actors \ {a} : Kept(b), Calling(a)' => Calling(a)
  PROVE  /\ CommandsAtHome' /\ Blank' /\ InOrder' /\ SessionsApart' /\ ServerTypes' /\ Numbered'
         /\ \A b \in Actors \ {a} : Asks(b)' /\ Progress(b)' /\ OwnSession(b)'
         /\ ~robbed[a] /\ Wanted[a] \notin Indexes => \A p \in Made(id[a])' :
              /\ origin'[first'[p]] = [call |-> id[a], window |-> 1]
              /\ p \in alive' /\ session'[p] = Wanted[a]
         /\ reply \in Panes =>
              Built(a, window[a])' /\ TypedTo(a, window[a] - 1)' /\ Latest(a, reply)'
         /\ reply = Yes /\ Open(a).what # "has-session" =>
              Built(a, window[a])' /\ TypedTo(a, window[a])'
<1>1. /\ TypeOK /\ Numbered /\ OwnSession(a) /\ id[a] # 0 /\ Yes \notin Panes
      /\ calls \in Nat /\ id[a] <= calls /\ SessionsApart
      /\ ServerTypes /\ window[a] \in Windows /\ id \in [Actors -> 0..MaxCalls]
  <2>1. TypeOK /\ Numbered /\ OwnSession(a) /\ SessionsApart
    BY DEF IInv
  <2>2. ServerTypes /\ calls \in Nat /\ window[a] \in Windows /\ id \in [Actors -> 0..MaxCalls]
    BY <2>1, Constants DEF TypeOK, ServerTypes
  <2>3. id[a] # 0 /\ id[a] <= calls
    BY <2>1, <2>2 DEF Numbered
  <2>4. Yes \notin Panes
    BY Constants DEF Yes, Panes
  <2> QED BY <2>1, <2>2, <2>3, <2>4
<1>2. \A b \in Actors \ {a} : id[b] # 0 => id[b] # id[a]
  BY <1>1 DEF Numbered
<1>3. \A b \in Actors : Calling(b)' => Calling(b)
  BY DEF Calling, Open, Kept
<1>4. CASE PaneOf(a, reply)
  <2>1. /\ CommandsAtHome' /\ Blank' /\ InOrder' /\ SessionsApart' /\ ServerTypes'
        /\ \A k : k # id[a] => Steady(k)
        /\ reply \in Panes /\ Latest(a, reply)' /\ alive \subseteq alive' /\ base' = base
        /\ \A p \in 1..created : first'[p] = first[p] /\ session'[p] = session[p]
        /\ \A p \in 1..created' : p \in 1..created \/ origin'[p] = From(a)
        /\ \A p \in 1..created : origin'[p] = origin[p]
        /\ Built(a, window[a])' /\ TypedTo(a, window[a] - 1)'
        /\ ~robbed[a] /\ Wanted[a] \notin Indexes => \A p \in Made(id[a])' :
              /\ origin'[first'[p]] = [call |-> id[a], window |-> 1]
              /\ p \in alive' /\ session'[p] = Wanted[a]
    BY <1>4, PaneOfInductive DEF ServerTypes
  <2>2. \A b \in Actors \ {a} : Asks(b)' /\ Progress(b)' /\ OwnSession(b)'
    BY <1>2, <2>1, ElsewhereInductive
  <2>3. From(a).call <= calls
    BY <1>1 DEF From
  <2>4. Numbered'
    BY <1>1, <1>3, <2>1, <2>3, NumberedKept
  <2> QED BY <1>1, <2>1, <2>2, <2>4
<1>5. CASE KeysOf(a, reply)
  <2>1. /\ CommandsAtHome' /\ Blank' /\ InOrder' /\ SessionsApart'
        /\ \A k : Steady(k)
        /\ typed' \in [Panes -> SUBSET Origins]
        /\ UNCHANGED <<created, base, session, first, origin, alive>>
        /\ Built(a, window[a])' /\ TypedTo(a, window[a])' /\ reply = Yes
    BY <1>5, KeysOfInductive DEF KeysOf
  <2>2. \A b \in Actors \ {a} : Asks(b)' /\ Progress(b)' /\ OwnSession(b)'
    BY <2>1, ElsewhereInductive
  <2>3. Numbered'
    BY <1>1, <1>3, <2>1, NumberedKept
  <2>4. ServerTypes'
    BY <1>1, <2>1 DEF ServerTypes
  <2>5. Made(id[a])' = Made(id[a])
    BY <2>1 DEF Made
  <2> QED BY <1>1, <2>1, <2>2, <2>3, <2>4, <2>5 DEF OwnSession
<1>6. CASE NothingOf(a, reply)
  <2>1. /\ UNCHANGED <<tmux, orphaned>> /\ UNCHANGED <<created, base, session, first, origin, typed, alive>>
        /\ reply \notin Panes /\ (reply = Yes => Open(a).what = "has-session")
    BY <1>6 DEF NothingOf, tmux
  <2>2. CommandsAtHome' /\ Blank' /\ InOrder' /\ SessionsApart' /\ \A k : Steady(k)
    BY <2>1, TmuxKept, SteadyIfUnchanged
  <2>3. \A b \in Actors \ {a} : Asks(b)' /\ Progress(b)' /\ OwnSession(b)'
    BY <2>1, <2>2, ElsewhereInductive
  <2>4. Numbered'
    BY <1>1, <1>3, <2>1, NumberedKept
  <2>5. ServerTypes'
    BY <1>1, <2>1 DEF ServerTypes
  <2>6. Made(id[a])' = Made(id[a])
    BY <2>1 DEF Made
  <2> QED BY <1>1, <2>1, <2>2, <2>3, <2>4, <2>5, <2>6 DEF OwnSession
<1> QED BY <1>4, <1>5, <1>6

LEMMA ServeInductive ==
  ASSUME IInv, NEW a \in Actors, Serve(a) PROVE IInv'
<1>1. TypeOK /\ Asks(a) /\ Progress(a) /\ OwnSession(a)
  BY DEF IInv
<1>2. PICK reply \in Answers \ {Silence} :
        Execute(request[a], Wanted[a], reply) /\ answer' = [answer EXCEPT ![a] = reply]
  BY DEF Serve
<1>3. request[a].what # "none" /\ request[a] # NoRequest
  BY <1>2, RequestTypes DEF Execute
<1>4. /\ pc[a] \in Waiting /\ Open(a) = request[a] /\ late[a] = NoRequest
      /\ Open(a).what # "none"
  BY <1>1, <1>3 DEF Asks, Open
<1>5. /\ request' = [request EXCEPT ![a] = NoRequest]
      /\ existed' = IF request[a].what = "has-session"
                    THEN [existed EXCEPT ![a] = Wanted[a] \in Sessions] ELSE existed
      /\ UNCHANGED <<pc, window, pane, late, result, calls, id, robbed, orphaned>>
  BY DEF Serve
<1>6. /\ request \in [Actors -> Requests] /\ answer \in [Actors -> Answers]
      /\ existed \in [Actors -> BOOLEAN]
  BY <1>1 DEF TypeOK
<1>7. /\ request'[a] = NoRequest /\ answer'[a] = reply /\ Open(a)' = NoRequest
      /\ request' \in [Actors -> Requests] /\ answer' \in [Actors -> Answers]
  BY <1>2, <1>4, <1>5, <1>6, RequestTypes DEF Open
<1>8. existed' \in [Actors -> BOOLEAN]
  BY <1>5, <1>6
<1>9. \A b \in Actors \ {a} : Kept(b)
  BY <1>2, <1>5, <1>6 DEF Kept
<1>10. Calling(a)' => Calling(a)
  BY <1>4 DEF Calling
<1>11. PaneOf(a, reply) \/ KeysOf(a, reply) \/ NothingOf(a, reply)
  BY <1>2, <1>3, <1>4, ExecuteCases
<1>12. /\ CommandsAtHome' /\ Blank' /\ InOrder' /\ SessionsApart' /\ ServerTypes' /\ Numbered'
       /\ \A b \in Actors \ {a} : Asks(b)' /\ Progress(b)' /\ OwnSession(b)'
       /\ ~robbed[a] /\ Wanted[a] \notin Indexes => \A p \in Made(id[a])' :
            /\ origin'[first'[p]] = [call |-> id[a], window |-> 1]
            /\ p \in alive' /\ session'[p] = Wanted[a]
       /\ reply \in Panes =>
            Built(a, window[a])' /\ TypedTo(a, window[a] - 1)' /\ Latest(a, reply)'
       /\ reply = Yes /\ Open(a).what # "has-session" =>
            Built(a, window[a])' /\ TypedTo(a, window[a])'
  BY <1>3, <1>4, <1>5, <1>9, <1>10, <1>11, ServerStep
<1>13. TypeOK'
  BY <1>1, <1>5, <1>7, <1>8, <1>12 DEF TypeOK, ServerTypes
<1>14. Asks(a)'
  BY <1>1, <1>4, <1>5, <1>7, RequestTypes DEF Asks
<1>15. OwnSession(a)'
  BY <1>5, <1>12 DEF OwnSession
<1>16. Progress(a)'
  <2>1. pc[a] = "check" => Made(id[a])' = {}
    <3>1. SUFFICES ASSUME pc[a] = "check" PROVE Made(id[a])' = {}
      OBVIOUS
    <3>2. Open(a).what = "has-session" /\ Made(id[a]) = {}
      BY <1>1, <1>4, <3>1 DEF Asks, Progress
    <3>3. UNCHANGED tmux
      BY <1>11, <3>2 DEF PaneOf, KeysOf, NothingOf
    <3> QED BY <1>5, <3>2, <3>3 DEF Made, tmux
  <2>2. pc[a] = "type" => Open(a).what = "send-keys"
    BY <1>1, <1>4 DEF Asks
  <2> QED BY <1>4, <1>5, <1>7, <1>12, <2>1, <2>2, RequestTypes DEF Progress, Waiting
<1> QED BY <1>12, <1>13, <1>14, <1>15, <1>16 DEF IInv

LEMMA ServeLateInductive ==
  ASSUME IInv, NEW a \in Actors, ServeLate(a) PROVE IInv'
<1>1. TypeOK /\ Asks(a) /\ Progress(a) /\ OwnSession(a) /\ late[a] # NoRequest
  BY DEF IInv, ServeLate
<1>2. /\ late' = [late EXCEPT ![a] = NoRequest]
      /\ UNCHANGED <<pc, window, pane, request, answer, result>>
      /\ UNCHANGED <<calls, id, existed, robbed, orphaned>>
  BY DEF ServeLate, history
<1>3. late \in [Actors -> Requests] /\ late' \in [Actors -> Requests] /\ late'[a] = NoRequest
  BY <1>1, <1>2, RequestTypes DEF TypeOK
<1>4. pc[a] \notin Waiting /\ Open(a) = late[a] /\ Open(a)' = NoRequest
  BY <1>1, <1>2, <1>3 DEF Asks, Open
<1>5. \A b \in Actors \ {a} : Kept(b)
  BY <1>2, <1>3 DEF Kept
<1>6. Calling(a)' => Calling(a)
  BY <1>1, <1>4 DEF Calling
<1>7. PICK reply : PaneOf(a, reply) \/ KeysOf(a, reply) \/ NothingOf(a, reply)
  <2>1. CASE \E reply \in Answers : Execute(late[a], Wanted[a], reply)
    BY <1>1, <1>4, <2>1, ExecuteCases
  <2>2. CASE UNCHANGED tmux
    <3>1. No \notin Panes /\ No # Yes
      BY Constants DEF No, Yes, Panes
    <3>2. NothingOf(a, No)
      BY <2>2, <3>1 DEF NothingOf
    <3> QED BY <3>2
  <2> QED BY <2>1, <2>2 DEF ServeLate
<1>8. /\ CommandsAtHome' /\ Blank' /\ InOrder' /\ SessionsApart' /\ ServerTypes' /\ Numbered'
      /\ \A b \in Actors \ {a} : Asks(b)' /\ Progress(b)' /\ OwnSession(b)'
      /\ ~robbed[a] /\ Wanted[a] \notin Indexes => \A p \in Made(id[a])' :
            origin'[first'[p]] = [call |-> id[a], window |-> 1]
  BY <1>1, <1>2, <1>4, <1>5, <1>6, <1>7, ServerStep
<1>9. TypeOK'
  BY <1>1, <1>2, <1>3, <1>8 DEF TypeOK, ServerTypes
<1>10. Asks(a)'
  BY <1>1, <1>2, <1>3, <1>4, RequestTypes DEF Asks, Waiting
<1>11. Progress(a)'
  BY <1>1, <1>2, <1>4, RequestTypes DEF Progress, Waiting, Asks
<1>12. OwnSession(a)'
  BY <1>2, <1>4, <1>8 DEF OwnSession
<1> QED BY <1>8, <1>9, <1>10, <1>11, <1>12 DEF IInv


LEMMA UnchangedInductive ==
  ASSUME IInv, UNCHANGED vars PROVE IInv'
<1>1. /\ UNCHANGED <<created, base, session, first, origin, typed, alive>>
      /\ UNCHANGED <<pc, window, pane, request, answer, late, result>>
      /\ UNCHANGED <<calls, id, existed, robbed, orphaned>> /\ UNCHANGED tmux
  BY DEF vars, tmux, local, history
<1>2. \A k : Steady(k)
  BY <1>1, SteadyIfUnchanged
<1>3. \A b \in Actors : Asks(b)' /\ Progress(b)' /\ OwnSession(b)'
  BY <1>1, <1>2, ElsewhereInductive DEF Kept
<1>4. CommandsAtHome' /\ Blank' /\ InOrder' /\ SessionsApart'
  BY <1>1, TmuxKept
<1>5. TypeOK' /\ Numbered'
  BY <1>1 DEF IInv, TypeOK, Numbered, Open
<1> QED BY <1>3, <1>4, <1>5 DEF IInv

(***************************************************************************)
(* The steps of the user                                                   *)
(***************************************************************************)
LEMMA UserMakesInductive ==
  ASSUME IInv, NEW name \in Names, UserMakes(name) PROVE IInv'
<1>1. TypeOK /\ Numbered /\ calls \in Nat /\ created \in Nat
  BY Constants DEF IInv, TypeOK
<1>2. /\ UNCHANGED <<pc, window, pane, request, answer, late, result>>
      /\ UNCHANGED <<calls, id, existed, robbed, orphaned>>
  BY DEF UserMakes, local, history
<1>3. \A b \in Actors : Kept(b) /\ robbed'[b] = robbed[b] /\ (Calling(b)' => Calling(b))
  BY <1>2 DEF Kept, Calling, Open
<1>4. PICK i \in Panes : NewSession(name, User, i)
  BY DEF UserMakes
<1>5. CASE AddPane(name, created + 1, User, i) /\ name \notin Sessions
  <2>1. Home(name, created + 1) /\ created' = created + 1
    BY <1>5 DEF Home, AddPane
  <2>2. User \in Origins /\ User.call = 0 /\ Due(User)
    BY Constants DEF User, Origins, Due
  <2>3. created + 1 \in 1..(created + 1) /\ created + 1 \in Int
    BY <1>1
  <2>4. /\ CommandsAtHome' /\ Blank' /\ InOrder' /\ SessionsApart'
        /\ \A k : k # 0 => Steady(k)
    BY <1>2, <1>5, <2>1, <2>2, PaneMade
  <2>5. /\ created' \in 0..MaxPanes /\ base' = base /\ base' \in 0..created'
        /\ alive' = alive \cup {created'} /\ alive' \subseteq (base' + 1)..created'
        /\ session' \in [Panes -> Names] /\ first' \in [Panes -> Panes]
        /\ origin' \in [Panes -> Origins] /\ origin'[created'] = User /\ typed' = typed
        /\ \A p \in 1..created :
             session'[p] = session[p] /\ first'[p] = first[p] /\ origin'[p] = origin[p]
    BY <1>1, <1>5, <2>2, <2>3, AddPaneTypes
  <2>6. \A b \in Actors : Asks(b)' /\ Progress(b)' /\ OwnSession(b)'
    BY <1>3, <2>4, <2>5, ElsewhereInductive
  <2>7. TypeOK'
    BY <1>1, <1>2, <2>5 DEF TypeOK
  <2>8. Numbered'
    <3>1. \A p \in 1..created' : p \in 1..created \/ origin'[p].call <= calls'
      BY <1>1, <1>2, <2>1, <2>2, <2>5
    <3> QED BY <1>1, <1>2, <1>3, <2>5, <3>1, NumberedKept
  <2> QED BY <2>4, <2>6, <2>7, <2>8 DEF IInv
<1>6. CASE UNCHANGED tmux
  BY <1>2, <1>6, UnchangedInductive DEF vars, local, history
<1> QED BY <1>4, <1>5, <1>6 DEF NewSession

LEMMA UserKillsInductive ==
  ASSUME IInv, NEW name \in Names, UserKills(name) PROVE IInv'
<1>1. TypeOK /\ Numbered /\ CommandsAtHome /\ Blank /\ InOrder /\ SessionsApart
  BY DEF IInv
<1>2. /\ alive' \subseteq alive /\ base' = IF alive' = {} THEN created ELSE base
      /\ UNCHANGED <<created, session, first, origin, typed>>
      /\ robbed' = [a \in Actors |-> robbed[a] \/ UnderWay(a)]
      /\ orphaned' = orphaned \cup
           {id[a] : a \in {b \in Actors : alive' = {} /\ UnderWay(b) /\ Made(id[b]) # {}}}
      /\ UNCHANGED <<pc, window, pane, request, answer, late, result>>
      /\ UNCHANGED <<calls, id, existed>>
  BY DEF UserKills, KillSession, local
<1>3. \A k : Made(k)' = Made(k) /\ Steady(k)
  BY <1>2 DEF Made, Steady
<1>4. CommandsAtHome' /\ Blank' /\ InOrder' /\ SessionsApart'
  <2>1. CommandsAtHome' /\ Blank' /\ SessionsApart'
    BY <1>1, <1>2 DEF CommandsAtHome, Blank, SessionsApart
  <2>2. InOrder'
    BY <1>1, <1>2, <1>3 DEF InOrder
  <2> QED BY <2>1, <2>2
<1>5. robbed' \in [Actors -> BOOLEAN]
  BY <1>1, <1>2 DEF TypeOK
<1>6. TypeOK'
  <2>1. base' \in 0..created' /\ alive' \subseteq (base' + 1)..created'
    BY <1>1, <1>2, Constants DEF TypeOK
  <2>2. \A a \in Actors : UnderWay(a) => id[a] \in 1..MaxCalls
    <3>1. \A a \in Actors : UnderWay(a) => id[a] # 0
      BY <1>1 DEF UnderWay, Numbered, Open
    <3>2. \A a \in Actors : id[a] \in 0..MaxCalls
      BY <1>1 DEF TypeOK
    <3> QED BY <3>1, <3>2, Constants
  <2>3. orphaned' \subseteq 1..MaxCalls
    BY <1>1, <1>2, <2>2 DEF TypeOK
  <2> QED BY <1>1, <1>2, <1>5, <2>1, <2>3 DEF TypeOK
<1>7. Numbered'
  BY <1>1, <1>2 DEF Numbered, Open
<1>8. ASSUME NEW b \in Actors PROVE Asks(b)' /\ Progress(b)' /\ OwnSession(b)'
  <2>1. Kept(b) /\ Asks(b) /\ Progress(b) /\ OwnSession(b)
    BY <1>2 DEF IInv, Kept
  <2>2. Placed(b) => Rooted(b)
    <3>1. SUFFICES ASSUME Placed(b), alive' = {} PROVE id[b] \in orphaned'
      BY <1>2 DEF Rooted
    <3>2. UnderWay(b)
      BY <3>1, RequestTypes DEF Placed, UnderWay, Open, Waiting
    <3>3. Built(b, window[b]) /\ window[b] \in Windows
      BY <1>1, <2>1, <3>1 DEF Placed, Progress, TypeOK
    <3>4. 1 \in 1..window[b]
      BY <3>3, Constants DEF Windows
    <3>5. Made(id[b]) # {}
      BY <3>3, <3>4 DEF Built
    <3> QED BY <1>2, <3>1, <3>2, <3>5
  <2>3. Asks(b)' /\ Progress(b)'
    BY <1>1, <1>3, <2>1, <2>2, AsksKept, ProgressKept DEF Numbered, Calling
  <2>4. OwnSession(b)'
    <3>1. CASE robbed'[b]
      BY <3>1 DEF OwnSession
    <3>2. CASE ~robbed'[b]
      <4>1. ~robbed[b] /\ pc[b] \notin Waiting /\ late[b] = NoRequest
        BY <1>2, <3>2 DEF UnderWay
      <4>2. Open(b)' = NoRequest /\ pc'[b] \notin Waiting
        BY <1>2, <4>1 DEF Open
      <4> QED BY <1>2, <1>3, <2>1, <4>1, <4>2 DEF OwnSession
    <3> QED BY <3>1, <3>2
  <2> QED BY <2>3, <2>4
<1> QED BY <1>4, <1>6, <1>7, <1>8 DEF IInv

(***************************************************************************)
(* The inductive invariant                                                 *)
(***************************************************************************)
LEMMA InitInductive == Init => IInv
<1> SUFFICES ASSUME Init PROVE IInv
  OBVIOUS
<1>1. TypeOK
  BY InitTypes
<1>2. created = 0 /\ alive = {} /\ calls = 0
  BY DEF Init
<1>3. 1..created = {} /\ \A k : Made(k) = {}
  BY <1>2 DEF Made
<1>4. CommandsAtHome /\ InOrder /\ SessionsApart
  BY <1>2, <1>3 DEF CommandsAtHome, InOrder, SessionsApart
<1>5. Blank
  BY DEF Init, Blank
<1>6. \A a \in Actors : /\ pc[a] = "idle" /\ request[a] = NoRequest /\ late[a] = NoRequest
                        /\ answer[a] = Silence /\ result[a] = "none" /\ id[a] = 0
  BY DEF Init
<1>7. \A a \in Actors : Open(a) = NoRequest /\ pc[a] \notin Waiting
  BY <1>6 DEF Open, Waiting
<1>8. Numbered
  BY <1>2, <1>3, <1>6, <1>7 DEF Numbered
<1>9. \A a \in Actors : Asks(a) /\ Progress(a) /\ OwnSession(a)
  BY <1>6, <1>7, RequestTypes DEF Asks, Progress, OwnSession, Waiting
<1> QED BY <1>1, <1>4, <1>5, <1>8, <1>9 DEF IInv

LEMMA StepInductive == IInv /\ [Next]_vars => IInv'
<1> SUFFICES ASSUME IInv, [Next]_vars PROVE IInv'
  OBVIOUS
<1>1. ASSUME NEW a \in Actors, Step(a) PROVE IInv'
  BY <1>1, CallInductive, LeaveInductive, ServeInductive, ServeLateInductive,
     CheckedInductive, CreatedInductive, FailureInductive, TypedInductive DEF Step
<1>2. ASSUME NEW name \in Names, UserMakes(name) \/ UserKills(name) PROVE IInv'
  BY <1>2, UserMakesInductive, UserKillsInductive
<1>3. CASE UNCHANGED vars
  BY <1>3, UnchangedInductive
<1> QED BY <1>1, <1>2, <1>3 DEF Next

\* The inductive invariant holds throughout.
THEOREM Inductive == Spec => []IInv
BY InitInductive, StepInductive, PTL DEF Spec

(***************************************************************************)
(* What it means                                                           *)
(***************************************************************************)
\* Every variable stays in its type.
THEOREM TypeCorrect == Spec => []TypeOK
<1>1. IInv => TypeOK
  BY DEF IInv
<1> QED BY <1>1, Inductive, PTL

\* A template's command is typed only in the pane made for its own window by the
\* same call, whoever else works in tmux, whatever is killed and executed late: but
\* for calls whose server ends under them.
THEOREM CommandsStayHome == Spec => []CommandsAtHome
<1>1. IInv => CommandsAtHome
  BY DEF IInv
<1> QED BY <1>1, Inductive, PTL

\* The panes of a call up to p are as many as its windows up to p's.
LEMMA CountedByWindow ==
  ASSUME IInv, NEW p \in 1..created, origin[p].call # 0
  PROVE  origin[p].window = Cardinality({q \in Made(origin[p].call) : q <= p})
<1>1. TypeOK /\ InOrder /\ created \in Nat
  BY Constants DEF IInv, TypeOK
<1> DEFINE k == origin[p].call
<1> DEFINE n == origin[p].window
<1> DEFINE S == {q \in Made(k) : q <= p}
<1>2. n \in Windows /\ n \in Nat /\ n >= 1 /\ p \in Made(k)
  BY <1>1, Constants DEF InOrder, Windows, Made
<1>3. \A q \in Made(k) : q \in 1..created /\ origin[q].call = k /\ origin[q].window \in Windows
                         /\ origin[q].window \in Nat /\ origin[q].window >= 1
  BY <1>1, Constants DEF Made, InOrder, Windows
<1>4. \A q, r \in Made(k) : q < r => origin[q].window < origin[r].window
  BY <1>1, <1>3 DEF InOrder
<1>5. \A w \in 1..n : \E q \in Made(k) : origin[q].window = w
  BY <1>1 DEF InOrder
<1> DEFINE f == [q \in S |-> origin[q].window]
<1>6. \A q \in S : q \in Made(k) /\ origin[q].window \in 1..n
  <2>1. SUFFICES ASSUME NEW q \in Made(k), q <= p PROVE origin[q].window \in 1..n
    OBVIOUS
  <2>2. q = p \/ q < p
    BY <1>3, <2>1
  <2> QED BY <1>2, <1>3, <1>4, <2>1, <2>2
<1>7. f \in [S -> 1..n]
  BY <1>6
<1>8. \A q, r \in S : f[q] = f[r] => q = r
  <2>1. SUFFICES ASSUME NEW q \in S, NEW r \in S, f[q] = f[r] PROVE q = r
    OBVIOUS
  <2>2. q \in Made(k) /\ r \in Made(k) /\ origin[q].window = origin[r].window
    BY <2>1
  <2>3. ~(q < r) /\ ~(r < q)
    BY <1>3, <1>4, <2>2
  <2> QED BY <1>3, <2>2, <2>3
<1>9. \A w \in 1..n : \E q \in S : f[q] = w
  <2>1. SUFFICES ASSUME NEW w \in 1..n PROVE \E q \in S : f[q] = w
    OBVIOUS
  <2>2. PICK q \in Made(k) : origin[q].window = w
    BY <1>5
  <2>3. ~(p < q)
    BY <1>2, <1>3, <1>4, <2>2
  <2>4. q \in S
    BY <1>3, <2>2, <2>3
  <2> QED BY <2>2, <2>4
<1> HIDE DEF f, S, n
<1>10. f \in Bijection(S, 1..n)
  BY <1>7, <1>8, <1>9, Fun_IsBij
<1>11. ExistsBijection(S, 1..n)
  BY <1>10 DEF ExistsBijection
<1>12. IsFiniteSet(S)
  <2>1. IsFiniteSet(1..created) /\ S \in SUBSET (1..created)
    BY <1>1, <1>3, FS_Interval DEF S
  <2> QED BY <2>1, FS_Subset
<1>13. Cardinality(1..n) = Cardinality(S) /\ Cardinality(1..n) = n
  BY <1>2, <1>11, <1>12, FS_Bijection, FS_Interval
<1> QED BY <1>13 DEF S, n

\* Whatever happens to a call, what it leaves is the beginning of the template:
\* the first windows, each once and in order, and, unless its server ends under it,
\* every command but the last's.
THEOREM LeavesBeginning == Spec => []LeavesABeginning
<1>1. IInv => LeavesABeginning
  <2>1. SUFFICES ASSUME IInv, NEW k \in 1..calls
        PROVE  /\ \A p \in Made(k) : origin[p].window = Cardinality({q \in Made(k) : q <= p})
               /\ \A p, q \in Made(k) :
                    (p < q /\ Template[origin[p].window] /\ k \notin orphaned) =>
                      origin[p] \in typed[p]
    BY DEF LeavesABeginning
  <2>2. \A p \in Made(k) : p \in 1..created /\ origin[p].call = k /\ k # 0
    BY DEF Made
  <2>3. \A p \in Made(k) : origin[p].window = Cardinality({q \in Made(k) : q <= p})
    BY <2>1, <2>2, CountedByWindow
  <2>4. InOrder
    BY <2>1 DEF IInv
  <2> QED BY <2>2, <2>3, <2>4 DEF InOrder
<1> QED BY <1>1, Inductive, PTL

\* A call that reports success has made every window and, unless the server ends
\* under it, typed every command in its window.
THEOREM SuccessMeansComplete == Spec => []SuccessIsComplete
<1>1. IInv => SuccessIsComplete
  <2>1. SUFFICES ASSUME IInv, NEW a \in Actors, pc[a] = "return", result[a] = "ok"
        PROVE  /\ {origin[p].window : p \in Made(id[a])} = Windows
               /\ \A p \in Made(id[a]) :
                    (Template[origin[p].window] /\ id[a] \notin orphaned) => origin[p] \in typed[p]
    BY DEF SuccessIsComplete
  <2>2. Built(a, Len(Template)) /\ TypedTo(a, Len(Template))
    BY <2>1 DEF IInv, Progress
  <2>3. {origin[p].window : p \in Made(id[a])} = Windows
    BY <2>2 DEF Built, Windows
  <2>4. \A p \in Made(id[a]) : origin[p].window \in Windows
    BY <2>3
  <2> QED BY <2>2, <2>3, <2>4, Constants DEF TypedTo, Windows
<1> QED BY <1>1, Inductive, PTL

\* A call builds in the session it has created and in no other, if nobody kills
\* a session before the call and its late requests are over and its session is not
\* called by a number.
THEOREM BuildsOnOwnSession == Spec => []BuildsOnItsOwn
<1>1. IInv => BuildsOnItsOwn
  BY DEF IInv, BuildsOnItsOwn, OwnSession
<1> QED BY <1>1, Inductive, PTL


=============================================================================
