------------------------- MODULE ForkHandshakeProofs -------------------------
(***************************************************************************)
(* Proofs about ForkHandshake: whatever Ctrl-C cuts short, the stubs share *)
(* no process, the active process is in step with its stub, and a clone()  *)
(* fails only for a fork whose own clone() was cut short before.           *)
(***************************************************************************)
EXTENDS ForkHandshake, NumberLemmas, SequenceTheorems, TLAPS

-----------------------------------------------------------------------------
(***************************************************************************)
(* The inductive invariant says what may be on each line, in each phase.   *)
(* `ph' is the phase, or the last one of a debugger that has ended: the    *)
(* processes go on with what they were told.                               *)
(***************************************************************************)
Cloning == {"fork", "fds", "forked", "ready", "child"}
WithChild == {"forked", "ready", "child"}
LivePhases == Phases \ {"died", "exited"}

At(k) == line[k].stub

\* A process at time t, with these messages on its line and a stub at u.
Told(state, t, requests, answers, u) ==
  [state |-> state, time |-> t, requests |-> requests, answers |-> answers,
   stub |-> u]

ForkMsg    == Msg("FORK", 0)
ForkedMsg  == Msg("FORKED", 0)
ShowMsg    == Msg("BACKTRACE", 0)
FdMsg(k)   == Msg("fd", k)
ReadyMsg(t) == Msg("READY", t)

Quiet(k) == line[k] = Told("idle", At(k), <<>>, <<>>, At(k))

Unborn  == Told("unborn", 1, <<>>, <<>>, 1)
Born(t) == Told("idle", t, <<>>, <<ReadyMsg(t)>>, 1)

\* Told to quit, or gone.
Quitting(k) ==
  /\ line[k].answers = <<>>
  /\ \/ line[k].state = "dead"
     \/ /\ line[k].state = "idle" /\ line[k].requests # <<>>
        /\ Head(line[k].requests).cmd = "QUIT"

Stuck == Quitting(active) /\ ~recovering /\ At(active) = shown

Still == (Quiet(active) \/ Quitting(active)) /\ ~recovering /\ At(active) = shown

Moving ==
  LET u == At(active)
  IN  \E n \in Times :
        /\ u <= n
        /\ \/ line[active] = Told("idle", u, <<Msg("FORWARD", n - u)>>, <<>>, u)
           \/ line[active] = Told("idle", n, <<>>, <<ReadyMsg(n)>>, u)

Drawing ==
  LET u == At(active)
  IN  \/ line[active] = Told("idle", u, <<ShowMsg>>, <<>>, u)
      \/ line[active] = Told("idle", u, <<>>, <<ReadyMsg(u)>>, u)

ActiveShape(ph) ==
  \/ /\ active = None /\ recovering
     /\ ph \in {"resume"} \cup Cloning
     /\ ph \in Cloning => call.parent # None
  \/ /\ active # None
     /\ \/ ph \in {"prompt", "resume"} /\ Still
        \/ ph \in Cloning /\ call.parent # active /\ Still
        \/ ph \in Cloning /\ call.parent = active /\ At(active) \notin Forks
        \/ ph \in {"forward", "show"} /\ (Quiet(active) \/ Stuck)
        \/ ph = "moved" /\ (Moving \/ Stuck)
        \/ ph = "shown" /\ Drawing

\* clone(), where the parent answers every request as it should.
Handshake(ph) ==
  LET p == call.parent
      c == call.child
      t == At(p)
  IN  \/ ph = "fork" /\ Quiet(p)
      \/ /\ ph = "fds"
         /\ \/ line[p] = Told("idle", t, <<ForkMsg>>, <<>>, t)
            \/ line[p] = Told("fetching", t, <<>>, <<>>, t)
      \/ /\ ph = "forked" /\ line[c] = Unborn
         /\ \/ line[p] = Told("idle", t, <<ForkMsg, FdMsg(c)>>, <<>>, t)
            \/ line[p] = Told("fetching", t, <<FdMsg(c)>>, <<>>, t)
      \/ /\ ph = "forked" /\ line[c] = Born(t)
         /\ line[p] = Told("idle", t, <<>>, <<ForkedMsg, ReadyMsg(t)>>, t)
      \/ /\ ph = "ready" /\ line[c] = Born(t)
         /\ line[p] = Told("idle", t, <<>>, <<ReadyMsg(t)>>, t)
      \/ ph = "child" /\ line[c] = Born(t) /\ Quiet(p)

\* Whose clone() is it?
ParentShape(ph) ==
  /\ ph \in WithChild <=> call.child # None
  /\ ph \in Cloning =>
       /\ call.parent = active \/ \E t \in Forks : call.parent = paused[t]
       /\ call.parent \notin cut => Handshake(ph)
       /\ ph \in WithChild /\ call.parent \in cut =>
            line[call.child] \in {Unborn, Born(At(call.parent))}

\* A fork whose clone() was cut short may have anything of a clone() on its line.
ForkRequests == {ForkMsg} \cup {FdMsg(k) : k \in Sockets}

Loose(k) ==
  /\ line[k].state \in {"idle", "fetching", "dead"}
  /\ Running(k) => line[k].time = At(k)
  /\ line[k].requests \in Seq(ForkRequests)
  /\ line[k].answers \in Seq({ForkedMsg, ReadyMsg(At(k))})

ForkShape(ph, t) ==
  /\ At(paused[t]) = t
  /\ paused[t] \in cut => Loose(paused[t])
  /\ paused[t] \notin cut /\ ~(ph \in Cloning /\ paused[t] = call.parent)
       => Quiet(paused[t])

Shape(ph) ==
  ActiveShape(ph) /\ ParentShape(ph) /\ \A t \in Forks : ForkShape(ph, t)

\* Who holds which socket.
Apart ==
  /\ \A t \in Forks : paused[t] \notin {active, call.child}
  /\ \A t, u \in Forks : paused[t] = paused[u] => t = u
  /\ call.child # None => call.child \notin {active, call.parent}
  /\ 1 \in Forks
  /\ \A k \in cut : \E t \in Forks : paused[t] = k

\* Nobody is at the other end of a socket the debugger does not have.
OthersUnused == \A k \in Sockets \ Held : line[k] = Unused

\* A descriptor on its way belongs to the child, which nobody else gets.
DescriptorOnce ==
  \A k \in Sockets : \A i \in DOMAIN line[k].requests : \A j \in Held \ {None} :
    line[k].requests[i] = FdMsg(j) =>
      /\ k = call.parent /\ j = call.child
      /\ i = Len(line[k].requests)
      /\ line[j] = Unborn

Sound == TypeOK /\ Apart /\ OthersUnused /\ DescriptorOnce

IInv ==
  /\ Sound
  /\ \E ph \in LivePhases : phase \in {ph, "died", "exited"} /\ Shape(ph)

-----------------------------------------------------------------------------
\* Short sequences.
LEMMA ShortSequences ==
  ASSUME NEW x, NEW y
  PROVE  /\ Append(<<>>, x) = <<x>>
         /\ Head(<<x>>) = x /\ Tail(<<x>>) = <<>>
         /\ Head(<<x, y>>) = x /\ Tail(<<x, y>>) = <<y>>
         /\ <<>> \o <<x, y>> = <<x, y>>
         /\ <<x>> # <<>> /\ <<x, y>> # <<>>
         /\ Len(<<x>>) = 1 /\ Len(<<x, y>>) = 2
OBVIOUS

LEMMA AppendSecond ==
  ASSUME NEW x, NEW y
  PROVE  Append(<<x>>, y) = <<x, y>>
<1> DEFINE s == Append(<<x>>, y)
           t == <<x, y>>
<1>1. s \in Seq({x, y}) /\ t \in Seq({x, y})
  OBVIOUS
<1>2. Len(s) = 2 /\ s[1] = x /\ s[2] = y
  OBVIOUS
<1>3. Len(t) = 2 /\ t[1] = x /\ t[2] = y
  OBVIOUS
<1>4. 1..2 = {1, 2}
  OBVIOUS
<1> HIDE DEF s, t
<1>5. s = t
  BY <1>1, <1>2, <1>3, <1>4, SeqEqual
<1> QED BY <1>5 DEF s, t

LEMMA SequenceSteps ==
  ASSUME NEW S, NEW s \in Seq(S), NEW x \in S, NEW y \in S
  PROVE  /\ Append(s, x) \in Seq(S)
         /\ s \o <<x, y>> \in Seq(S)
         /\ s # <<>> => Head(s) \in S /\ Tail(s) \in Seq(S)
         /\ <<>> \in Seq(S) /\ <<x>> \in Seq(S) /\ <<x, y>> \in Seq(S)
OBVIOUS

LEMMA ReadSequence ==
  ASSUME NEW S, NEW s \in Seq(S), s # <<>>
  PROVE  /\ Head(s) \in S /\ Tail(s) \in Seq(S) /\ Head(s) = s[1]
         /\ 1 \in DOMAIN s /\ DOMAIN s = 1..Len(s) /\ Len(s) \in Nat
         /\ Len(Tail(s)) = Len(s) - 1
         /\ \A i \in DOMAIN Tail(s) :
              i \in Nat /\ i + 1 \in DOMAIN s /\ Tail(s)[i] = s[i + 1]
OBVIOUS

LEMMA SentSequence ==
  ASSUME NEW S, NEW s \in Seq(S), NEW x
  PROVE  /\ Len(Append(s, x)) = Len(s) + 1
         /\ \A i \in DOMAIN Append(s, x) :
              \/ i \in DOMAIN s /\ Append(s, x)[i] = s[i] /\ i # Len(s) + 1
              \/ i = Len(s) + 1 /\ Append(s, x)[i] = x
OBVIOUS

-----------------------------------------------------------------------------
\* One line.
States == {"unused", "unborn", "idle", "fetching", "dead"}

LineSet ==
  [state: States, time: Times, requests: Seq(Requests), answers: Seq(Answers),
   stub: Times]

LEMMA TimesNat == Times \subseteq Nat /\ 1 \in Times /\ Total \in Nat
BY HandshakeAssumption DEF Times

LEMMA TypedLine ==
  ASSUME TypeOK, NEW k \in Sockets
  PROVE  /\ line \in [Sockets -> LineSet] /\ line[k] \in LineSet
         /\ line[k] = Told(line[k].state, line[k].time, line[k].requests,
                           line[k].answers, line[k].stub)
BY DEF TypeOK, LineSet, States, Told

LEMMA ToldFields ==
  ASSUME NEW s, NEW t, NEW r, NEW a, NEW u
  PROVE  /\ Told(s, t, r, a, u).state = s /\ Told(s, t, r, a, u).time = t
         /\ Told(s, t, r, a, u).requests = r
         /\ Told(s, t, r, a, u).answers = a /\ Told(s, t, r, a, u).stub = u
BY DEF Told

LEMMA MessageFields ==
  ASSUME NEW c, NEW a
  PROVE  Msg(c, a).cmd = c /\ Msg(c, a).arg = a
BY DEF Msg

LEMMA MessageTypes ==
  /\ ForkMsg \in Requests /\ ShowMsg \in Requests
  /\ ForkedMsg \in Answers
  /\ \A k \in Sockets : FdMsg(k) \in Requests
  /\ \A t \in Times : ReadyMsg(t) \in Answers
  /\ \A t \in 0..Total : Msg("FORWARD", t) \in Requests
  /\ Msg("QUIT", 0) \in Requests
  /\ ForkRequests \subseteq Requests
BY HandshakeAssumption
   DEF ForkMsg, ShowMsg, ForkedMsg, FdMsg, ReadyMsg, Msg, Requests, Answers,
       Times, ForkRequests

\* What a process does with a request.
LEMMA ServeFork ==
  ASSUME NEW t, NEW r, NEW a, NEW u, Head(r) = ForkMsg
  PROVE  Serve(Told("idle", t, r, a, u)) = Told("fetching", t, Tail(r), a, u)
<1>1. Head(r).cmd = "FORK"
  BY DEF ForkMsg, Msg
<1> QED BY <1>1 DEF Serve, Told

LEMMA ServeOther ==
  ASSUME NEW t, NEW r, NEW a, NEW u,
         Head(r).cmd \notin {"FORK", "FORWARD", "BACKTRACE"}
  PROVE  Serve(Told("idle", t, r, a, u)) = Told("dead", 1, <<>>, a, u)
BY DEF Serve, Told, Gone

LEMMA GoneTold ==
  ASSUME NEW s, NEW t, NEW r, NEW a, NEW u
  PROVE  Gone(Told(s, t, r, a, u)) = Told("dead", 1, <<>>, a, u)
<1> DEFINE l == Told(s, t, r, a, u)
<1>1. [l EXCEPT !.state = "dead"] = Told("dead", t, r, a, u)
  BY DEF Told
<1>2. [Told("dead", t, r, a, u) EXCEPT !.time = 1] = Told("dead", 1, r, a, u)
  BY DEF Told
<1>3. [Told("dead", 1, r, a, u) EXCEPT !.requests = <<>>]
        = Told("dead", 1, <<>>, a, u)
  BY DEF Told
<1>4. Gone(l) = [[[l EXCEPT !.state = "dead"] EXCEPT !.time = 1]
                   EXCEPT !.requests = <<>>]
  BY DEF Gone
<1> HIDE DEF l
<1> QED BY <1>1, <1>2, <1>3, <1>4 DEF l

Split(l, tail, more) ==
  [l EXCEPT !.state = "idle", !.requests = tail, !.answers = more]

LEMMA SplitTold ==
  ASSUME NEW l, NEW s, NEW t, NEW r, NEW a, NEW u, l = Told(s, t, r, a, u),
         NEW tail, NEW more
  PROVE  Split(l, tail, more) = Told("idle", t, tail, more, u)
<1>1. [l EXCEPT !.state = "idle"] = Told("idle", t, r, a, u)
  BY DEF Told
<1>2. [Told("idle", t, r, a, u) EXCEPT !.requests = tail]
        = Told("idle", t, tail, a, u)
  BY DEF Told
<1>3. [Told("idle", t, tail, a, u) EXCEPT !.answers = more]
        = Told("idle", t, tail, more, u)
  BY DEF Told
<1>4. Split(l, tail, more)
        = [[[l EXCEPT !.state = "idle"] EXCEPT !.requests = tail]
             EXCEPT !.answers = more]
  BY DEF Split
<1> QED BY <1>1, <1>2, <1>3, <1>4

LEMMA BornTold ==
  ASSUME NEW t
  PROVE  [Unborn EXCEPT !.state = "idle", !.time = t, !.answers = <<ReadyMsg(t)>>]
           = Born(t)
<1> DEFINE a == <<ReadyMsg(t)>>
<1>1. [Unborn EXCEPT !.state = "idle"] = Told("idle", 1, <<>>, <<>>, 1)
  BY DEF Unborn, Told
<1>2. [Told("idle", 1, <<>>, <<>>, 1) EXCEPT !.time = t]
        = Told("idle", t, <<>>, <<>>, 1)
  BY DEF Told
<1>3. [Told("idle", t, <<>>, <<>>, 1) EXCEPT !.answers = a]
        = Told("idle", t, <<>>, a, 1)
  BY DEF Told
<1>4. [Unborn EXCEPT !.state = "idle", !.time = t, !.answers = a]
        = [[[Unborn EXCEPT !.state = "idle"] EXCEPT !.time = t] EXCEPT !.answers = a]
  OBVIOUS
<1> QED BY <1>1, <1>2, <1>3, <1>4 DEF Born

WithRequests(l, r) == [l EXCEPT !.requests = r]
WithAnswers(l, a) == [l EXCEPT !.answers = a]
WithStub(l, u) == [l EXCEPT !.stub = u]

LEMMA WithTold ==
  ASSUME NEW l, NEW s, NEW t, NEW r, NEW a, NEW u, l = Told(s, t, r, a, u),
         NEW x
  PROVE  /\ WithRequests(l, x) = Told(s, t, x, a, u)
         /\ WithAnswers(l, x) = Told(s, t, r, x, u)
         /\ WithStub(l, x) = Told(s, t, r, a, x)
BY DEF WithRequests, WithAnswers, WithStub, Told

-----------------------------------------------------------------------------
\* What an action leaves alone.
LEMMA ActiveKept ==
  ASSUME NEW ph, ActiveShape(ph), UNCHANGED <<active, recovering, shown, paused>>,
         call'.parent = call.parent,
         active # None => line'[active] = line[active]
  PROVE  ActiveShape(ph)'
BY DEF ActiveShape, Still, Stuck, Quiet, Quitting, Moving, Drawing, At, Forks

LEMMA ForkKept ==
  ASSUME NEW ph, NEW t \in Forks, ForkShape(ph, t), UNCHANGED <<paused, cut>>,
         call'.parent = call.parent, line'[paused[t]] = line[paused[t]]
  PROVE  ForkShape(ph, t)'
BY DEF ForkShape, Quiet, Loose, Running, At

LEMMA ParentKept ==
  ASSUME NEW ph, ParentShape(ph), UNCHANGED <<active, paused, cut, call>>,
         ph \in Cloning => line'[call.parent] = line[call.parent],
         ph \in WithChild => line'[call.child] = line[call.child]
  PROVE  ParentShape(ph)'
<1>1. Forks' = Forks
  BY DEF Forks
<1>2. ph \in Cloning /\ Handshake(ph) => Handshake(ph)'
  BY DEF Handshake, Quiet, At, WithChild
<1> QED BY <1>1, <1>2 DEF ParentShape, At, WithChild, Cloning

LEMMA ForksSame ==
  ASSUME UNCHANGED paused PROVE Forks' = Forks
BY DEF Forks

\* The child has nothing to read.
LEMMA ChildShape ==
  ASSUME NEW ph, ParentShape(ph), call.child # None
  PROVE  /\ ph \in WithChild
         /\ line[call.child] \in {Unborn, Born(At(call.parent))}
         /\ line[call.child].requests = <<>>
         /\ line[call.child].state \in {"unborn", "idle"}
<1>1. ph \in WithChild /\ ph \in Cloning
  BY DEF ParentShape, WithChild, Cloning
<1>2. line[call.child] \in {Unborn, Born(At(call.parent))}
  <2>1. CASE call.parent \in cut
    BY <1>1, <2>1 DEF ParentShape
  <2>2. CASE call.parent \notin cut
    BY <1>1, <2>2 DEF ParentShape, Handshake, WithChild
  <2> QED BY <2>1, <2>2
<1> QED BY <1>1, <1>2 DEF Unborn, Born, Told

-----------------------------------------------------------------------------
\* The processes.
Others == <<active, paused, phase, call, shown, recovering, past>>

LEMMA HeldSame ==
  ASSUME UNCHANGED <<active, paused>>, call'.child = call.child
  PROVE  Held' = Held
BY DEF Held

\* Who holds a socket where something happens.
LEMMA Holder ==
  ASSUME Sound, NEW ph, ParentShape(ph), NEW k \in Sockets,
         line[k].state \in {"idle", "fetching", "dead"}, line[k].requests # <<>>
  PROVE  /\ k # call.child /\ k # None
         /\ k = active \/ \E t \in Forks : k = paused[t]
<1>1. k \in Held
  BY DEF Sound, OthersUnused, Unused, Line
<1>2. k # None
  BY HandshakeAssumption
<1>3. k # call.child
  BY <1>2, ChildShape
<1> QED BY <1>1, <1>2, <1>3 DEF Held, Forks

\* The parent of a clone() that may not fail.
Good(ph) == ph \in Cloning /\ call.parent \notin cut

LEMMA GoodParent ==
  ASSUME Sound, NEW ph, Shape(ph), Good(ph)
  PROVE  /\ Handshake(ph) /\ call.parent \in Sockets
         /\ At(call.parent) \in Times
         /\ ph \in WithChild => call.child \in Sockets /\ call.child # call.parent
<1>1. Handshake(ph) /\ call.parent \in Sockets \cup {None}
  BY DEF Sound, TypeOK, Shape, ParentShape, Good
<1>2. call.parent # None
  BY DEF Shape, ActiveShape, ParentShape, Good, Forks
<1>3. call.parent \in Sockets /\ At(call.parent) \in Times
  BY <1>1, <1>2, TypedLine DEF Sound, LineSet, At
<1>4. ph \in WithChild => call.child \in Sockets /\ call.child # call.parent
  BY DEF Sound, TypeOK, Apart, Shape, ParentShape
<1> QED BY <1>1, <1>3, <1>4

\* The active process, where it is not the parent.
LEMMA ActiveHas ==
  ASSUME NEW ph, ActiveShape(ph), active # None, ~(ph \in Cloning /\ active = call.parent)
  PROVE  \/ Quiet(active)
         \/ ph \in {"prompt", "resume", "forward", "show", "moved"} \cup Cloning
              /\ Quitting(active) /\ ~recovering /\ At(active) = shown
         \/ ph = "moved" /\ Moving
         \/ ph = "shown" /\ Drawing
BY DEF ActiveShape, Still, Stuck, Cloning

LEMMA QuietHasNothing ==
  ASSUME NEW k, Quiet(k)
  PROVE  /\ line[k].requests = <<>> /\ line[k].answers = <<>>
         /\ line[k].state = "idle" /\ line[k].time = At(k)
BY DEF Quiet, Told

LEMMA WhoServes ==
  ASSUME Sound, NEW ph, Shape(ph), NEW k \in Sockets, Served(k)
  PROVE  \/ Good(ph) /\ k = call.parent /\ ph \in {"fds", "forked"}
              /\ Head(line[k].requests) = ForkMsg
         \/ k = active /\ ph = "moved" /\ Moving
              /\ ~(ph \in Cloning /\ active = call.parent)
         \/ k = active /\ ph = "shown" /\ Drawing
              /\ ~(ph \in Cloning /\ active = call.parent)
         \/ k = active /\ Quitting(k) /\ ~(ph \in Cloning /\ active = call.parent)
              /\ ph \in {"prompt", "resume", "forward", "show", "moved"} \cup Cloning
              /\ ~recovering /\ At(active) = shown
         \/ \E t \in Forks : k = paused[t] /\ k \in cut /\ Loose(k)
<1>1. line[k].state = "idle" /\ line[k].requests # <<>>
  BY DEF Served
<1>2. /\ k # call.child /\ k # None
      /\ k = active \/ \E t \in Forks : k = paused[t]
  BY <1>1, Holder DEF Shape
<1>3. CASE Good(ph) /\ k = call.parent
  <2>1. Handshake(ph)
    BY <1>3, GoodParent
  <2>2. ph \in {"fds", "forked"} /\ Head(line[k].requests) = ForkMsg
    BY <1>1, <1>3, <2>1, QuietHasNothing, ToldFields, ShortSequences DEF Handshake
  <2> QED BY <1>3, <2>2
<1>4. CASE k = active /\ ~(ph \in Cloning /\ active = call.parent)
  BY <1>1, <1>2, <1>4, ActiveHas, QuietHasNothing DEF Shape
<1>5. CASE k = active /\ ph \in Cloning /\ active = call.parent
  <2>1. k \notin cut
    BY <1>2, <1>5 DEF Sound, Apart
  <2> QED BY <1>3, <1>5, <2>1 DEF Good
<1>6. CASE \E t \in Forks : k = paused[t]
  <2>1. PICK t \in Forks : k = paused[t]
    BY <1>6
  <2>2. ForkShape(ph, t)
    BY DEF Shape
  <2>3. CASE k \in cut
    BY <2>1, <2>2, <2>3 DEF ForkShape
  <2>4. CASE k \notin cut
    BY <1>1, <1>3, <2>1, <2>2, <2>4, QuietHasNothing DEF ForkShape, Good
  <2> QED BY <2>3, <2>4
<1> QED BY <1>2, <1>4, <1>5, <1>6

\* One process goes on: nobody else's line changes.
Goes(k) ==
  /\ UNCHANGED Others
  /\ line' = [line EXCEPT ![k] = line'[k]]
  /\ line'[k] \in LineSet /\ line'[k].stub = line[k].stub
  /\ line[k].requests # <<>>
  /\ line'[k].requests \in {<<>>, Tail(line[k].requests)}

LEMMA GoesFacts ==
  ASSUME Sound, NEW k \in Sockets, Goes(k)
  PROVE  /\ UNCHANGED <<active, paused, call, cut, recovering, shown>>
         /\ Forks' = Forks /\ Held' = Held
         /\ \A j \in Sockets \ {k} : line'[j] = line[j]
         /\ \A j \in Sockets : At(j)' = At(j)
<1>1. UNCHANGED <<active, paused, call, cut, recovering, shown>>
  BY DEF Goes, Others, past
<1>2. line \in [Sockets -> LineSet]
  BY TypedLine DEF Sound
<1>3. \A j \in Sockets \ {k} : line'[j] = line[j]
  BY <1>2 DEF Goes
<1>4. \A j \in Sockets : At(j)' = At(j)
  BY <1>3 DEF Goes, At
<1> QED BY <1>1, <1>3, <1>4, HeldSame, ForksSame

LEMMA GoesSound ==
  ASSUME Sound, NEW ph, ParentShape(ph), NEW k \in Sockets,
         k \in Held, k # call.child, Goes(k)
  PROVE  Sound'
<1>1. /\ UNCHANGED <<active, paused, call, cut, recovering, shown>>
      /\ Forks' = Forks /\ Held' = Held
      /\ \A j \in Sockets \ {k} : line'[j] = line[j]
  BY GoesFacts
<1>2. line \in [Sockets -> LineSet] /\ line[k].requests \in Seq(Requests)
  BY TypedLine DEF Sound, LineSet
<1>3. TypeOK'
  <2>1. line' \in [Sockets -> LineSet]
    BY <1>2 DEF Goes
  <2> QED BY <2>1, <1>1 DEF Sound, TypeOK, LineSet, States, Goes, Others, past
<1>4. Apart'
  BY <1>1 DEF Sound, Apart
<1>5. OthersUnused'
  BY <1>1 DEF Sound, OthersUnused
<1>6. DescriptorOnce'
  <2> SUFFICES ASSUME NEW l \in Sockets, NEW i \in DOMAIN line'[l].requests,
                      NEW j \in Held \ {None}, line'[l].requests[i] = FdMsg(j)
               PROVE  /\ l = call.parent /\ j = call.child
                      /\ i = Len(line'[l].requests) /\ line'[j] = Unborn
    BY <1>1 DEF DescriptorOnce
  <2>1. j \in Sockets
    BY DEF Held, Sound, TypeOK
  <2>2. CASE l # k
    <3>1. l = call.parent /\ j = call.child /\ i = Len(line[l].requests)
          /\ line[j] = Unborn
      BY <1>1, <2>2 DEF Sound, DescriptorOnce
    <3> QED BY <1>1, <2>1, <2>2, <3>1
  <2>3. CASE l = k
    <3>1. line'[k].requests # <<>>
      BY <2>3
    <3>2. line'[k].requests = Tail(line[k].requests)
      BY <3>1 DEF Goes
    <3>3. /\ i \in Nat /\ i + 1 \in DOMAIN line[k].requests
          /\ line[k].requests[i + 1] = FdMsg(j)
          /\ Len(line'[k].requests) = Len(line[k].requests) - 1
          /\ Len(line[k].requests) \in Nat
      BY <1>2, <2>3, <3>2, ReadSequence DEF Goes
    <3>4. k = call.parent /\ j = call.child /\ i + 1 = Len(line[k].requests)
          /\ line[j] = Unborn
      BY <3>3 DEF Sound, DescriptorOnce
    <3> QED BY <1>1, <2>1, <2>3, <3>3, <3>4
  <2> QED BY <2>2, <2>3
<1> QED BY <1>3, <1>4, <1>5, <1>6 DEF Sound

LEMMA ForkIs ==
  ASSUME Sound, NEW t \in Forks
  PROVE  /\ paused[t] \in Sockets /\ paused[t] # active
         /\ paused[t] # call.child /\ t \in Times
         /\ \A u \in Forks : u # t => paused[u] # paused[t]
BY DEF Sound, TypeOK, Apart, Forks

\* A fork whose clone() was cut short goes on.
LEMMA LooseGoes ==
  ASSUME Sound, NEW ph, Shape(ph), NEW t \in Forks, NEW k, k = paused[t],
         k \in cut, Goes(k), Loose(k)'
  PROVE  Shape(ph)'
<1>1. /\ k \in Sockets /\ k # active /\ k # call.child
      /\ \A u \in Forks : u # t => paused[u] # k
  BY ForkIs
<1>2. /\ UNCHANGED <<active, paused, call, cut, recovering, shown>>
      /\ Forks' = Forks
      /\ \A j \in Sockets \ {k} : line'[j] = line[j]
      /\ \A j \in Sockets : At(j)' = At(j)
  BY <1>1, GoesFacts
<1>3. ActiveShape(ph)'
  BY <1>1, <1>2, ActiveKept DEF Shape, Sound, TypeOK
<1>4. ASSUME NEW u \in Forks PROVE ForkShape(ph, u)'
  <2>1. CASE u = t
    BY <1>1, <1>2, <2>1 DEF Shape, ForkShape
  <2>2. CASE u # t
    BY <1>1, <1>2, <2>2, ForkKept, ForkIs DEF Shape
  <2> QED BY <2>1, <2>2
<1>5. ph \in WithChild => call.child \in Sockets
  BY DEF Shape, ParentShape, Sound, TypeOK
<1>6. ParentShape(ph)'
  <2>1. CASE ph \in Cloning /\ call.parent = k
    BY <1>1, <1>2, <1>5, <2>1 DEF Shape, ParentShape
  <2>2. CASE ph \in Cloning /\ call.parent # k
    <3>1. call.parent \in Sockets
      BY <2>2, ForkIs DEF Shape, ActiveShape, ParentShape, Sound, TypeOK
    <3> QED BY <1>1, <1>2, <1>5, <2>2, <3>1, ParentKept DEF Shape
  <2>3. CASE ph \notin Cloning
    BY <1>1, <1>2, <1>5, <2>3, ParentKept DEF Shape
  <2> QED BY <2>1, <2>2, <2>3
<1> QED BY <1>2, <1>3, <1>4, <1>6 DEF Shape

\* The active process goes on, where it is not the parent of a clone().
LEMMA ActiveGoes ==
  ASSUME Sound, NEW ph, Shape(ph), active # None,
         ~(ph \in Cloning /\ active = call.parent), Goes(active),
         ActiveShape(ph)'
  PROVE  Shape(ph)'
<1>1. active \in Sockets /\ active # call.child
      /\ \A u \in Forks : paused[u] # active /\ paused[u] \in Sockets
  BY ForkIs DEF Sound, TypeOK, Apart
<1>2. /\ UNCHANGED <<active, paused, call, cut, recovering, shown>>
      /\ Forks' = Forks
      /\ \A j \in Sockets \ {active} : line'[j] = line[j]
  BY <1>1, GoesFacts
<1>3. ASSUME NEW u \in Forks PROVE ForkShape(ph, u)'
  BY <1>1, <1>2, ForkKept DEF Shape
<1>4. ph \in WithChild => call.child \in Sockets
  BY DEF Shape, ParentShape, Sound, TypeOK
<1>5. ph \in Cloning => call.parent \in Sockets
  BY <1>1 DEF Shape, ParentShape
<1>6. ParentShape(ph)'
  BY <1>1, <1>2, <1>4, <1>5, ParentKept DEF Shape
<1> QED BY <1>2, <1>3, <1>6 DEF Shape

\* The parent of a clone() that may not fail goes on.
LEMMA ParentGoes ==
  ASSUME Sound, NEW ph, Shape(ph), Good(ph), Goes(call.parent),
         Handshake(ph)'
  PROVE  Shape(ph)'
<1> DEFINE p == call.parent
<1>1. p \in Sockets /\ (ph \in WithChild => call.child \in Sockets)
  BY GoodParent
<1>2. /\ UNCHANGED <<active, paused, call, cut, recovering, shown>>
      /\ Forks' = Forks
      /\ \A j \in Sockets \ {p} : line'[j] = line[j]
      /\ \A j \in Sockets : At(j)' = At(j)
  BY <1>1, GoesFacts
<1>3. ActiveShape(ph)'
  <2>1. CASE active = p
    <3>1. At(active) \notin Forks /\ active # None
      <4>1. active # None
        BY <1>1, <2>1, HandshakeAssumption
      <4> QED BY <2>1, <4>1 DEF Shape, ActiveShape, Good, Cloning
    <3>2. At(active)' = At(active)
      BY <1>1, <1>2, <2>1
    <3> QED BY <1>2, <2>1, <3>1, <3>2 DEF ActiveShape, Good
  <2>2. CASE active # p
    BY <1>2, <2>2, ActiveKept DEF Shape, Sound, TypeOK
  <2> QED BY <2>1, <2>2
<1>4. ASSUME NEW u \in Forks PROVE ForkShape(ph, u)'
  <2>1. CASE paused[u] = p
    BY <1>1, <1>2, <2>1 DEF Shape, ForkShape, Good
  <2>2. CASE paused[u] # p
    BY <1>2, <2>2, ForkKept, ForkIs DEF Shape
  <2> QED BY <2>1, <2>2
<1>5. ParentShape(ph)'
  BY <1>2 DEF Shape, ParentShape, Good
<1> QED BY <1>2, <1>3, <1>4, <1>5 DEF Shape

\* A request served.
LEMMA ServedInv ==
  ASSUME Sound, NEW ph, Shape(ph), NEW k \in Sockets, Served(k),
         UNCHANGED Others
  PROVE  Sound' /\ Shape(ph)'
<1>1. /\ line[k].state = "idle" /\ line[k].requests # <<>>
      /\ line' = [line EXCEPT ![k] = Serve(line[k])]
  BY DEF Served
<1>2. /\ line \in [Sockets -> LineSet] /\ line[k] \in LineSet
      /\ line[k] = Told("idle", line[k].time, line[k].requests,
                        line[k].answers, At(k))
      /\ line'[k] = Serve(line[k])
  BY <1>1, TypedLine DEF Sound, At
<1>3. /\ line[k].time \in Times /\ line[k].requests \in Seq(Requests)
      /\ line[k].answers \in Seq(Answers) /\ At(k) \in Times
  BY <1>2 DEF LineSet, At
<1> DEFINE r == line[k].requests
           Goal == Goes(k) /\ Shape(ph)'
<1>4. /\ Tail(r) \in Seq(Requests) /\ <<>> \in Seq(Requests)
  BY <1>1, <1>3, ReadSequence
<1>5. Goes(k) => /\ UNCHANGED <<active, paused, call, cut, recovering, shown>>
                 /\ \A j \in Sockets \ {k} : line'[j] = line[j]
                 /\ \A j \in Sockets : At(j)' = At(j)
  BY GoesFacts
<1>6. ASSUME /\ Good(ph) /\ k = call.parent /\ ph \in {"fds", "forked"}
             /\ Head(r) = ForkMsg
     PROVE  Goal
  <2>1. line'[k] = Told("fetching", line[k].time, Tail(r), line[k].answers, At(k))
    BY <1>2, <1>6, ServeFork
  <2>2. Goes(k)
    BY <1>1, <1>2, <1>3, <1>4, <2>1 DEF Goes, LineSet, States, Told, At
  <2>3. Handshake(ph)
    BY <1>6, GoodParent
  <2>4. Handshake(ph)'
    <3>1. CASE ph = "fds"
      <4>1. line[k] = Told("idle", At(k), <<ForkMsg>>, <<>>, At(k))
        BY <1>1, <1>6, <2>3, <3>1, ToldFields DEF Handshake
      <4>2. line'[k] = Told("fetching", At(k), <<>>, <<>>, At(k))
        BY <2>1, <4>1, ShortSequences DEF Told
      <4> QED BY <1>5, <1>6, <2>2, <3>1, <4>2 DEF Handshake
    <3>2. CASE ph = "forked"
      <4> DEFINE c == call.child
      <4>1. /\ line[c] = Unborn /\ c \in Sockets /\ c # k
            /\ line[k] = Told("idle", At(k), <<ForkMsg, FdMsg(c)>>, <<>>, At(k))
        BY <1>1, <1>6, <2>3, <3>2, GoodParent, ToldFields DEF Handshake, WithChild
      <4>2. line'[k] = Told("fetching", At(k), <<FdMsg(c)>>, <<>>, At(k))
        BY <2>1, <4>1, ShortSequences DEF Told
      <4>3. line'[c] = Unborn
        BY <1>5, <2>2, <4>1
      <4> QED BY <1>5, <1>6, <2>2, <3>2, <4>2, <4>3 DEF Handshake, FdMsg
    <3> QED BY <1>6, <3>1, <3>2
  <2> QED BY <1>6, <2>2, <2>4, ParentGoes
<1>7. ASSUME /\ k = active /\ ph = "moved" /\ Moving
             /\ ~(ph \in Cloning /\ active = call.parent)
     PROVE  Goal
  <2>1. PICK n \in Times :
          /\ At(k) <= n
          /\ line[k] = Told("idle", At(k), <<Msg("FORWARD", n - At(k))>>, <<>>, At(k))
    BY <1>1, <1>7, ToldFields DEF Moving
  <2>2. Head(r).cmd = "FORWARD" /\ Head(r).arg = n - At(k) /\ Tail(r) = <<>>
        /\ line[k].answers = <<>> /\ line[k].time = At(k)
    BY <2>1, ShortSequences DEF Told, Msg
  <2>3. line'[k] = Told("idle", n, <<>>, <<ReadyMsg(n)>>, At(k))
    <3>1. n = At(k) + Head(r).arg /\ Head(r).cmd \in {"FORWARD", "BACKTRACE"}
      BY <1>3, <2>2, HandshakeAssumption DEF Times
    <3>2. Serve(Told("idle", At(k), r, <<>>, At(k)))
            = Told("idle", n, Tail(r), Append(<<>>, ReadyMsg(n)), At(k))
      BY <3>1 DEF Serve, Told, ReadyMsg
    <3> QED BY <1>2, <2>2, <3>2, ShortSequences
  <2>4. Goes(k)
    BY <1>1, <1>2, <1>3, <1>4, <2>2, <2>3, MessageTypes, SequenceSteps
       DEF Goes, LineSet, States, Told, At
  <2>5. ActiveShape(ph)'
    BY <1>5, <1>7, <2>1, <2>3, <2>4, HandshakeAssumption DEF ActiveShape, Moving
  <2> QED BY <1>7, <2>4, <2>5, ActiveGoes, HandshakeAssumption
<1>8. ASSUME /\ k = active /\ ph = "shown" /\ Drawing
             /\ ~(ph \in Cloning /\ active = call.parent)
     PROVE  Goal
  <2>1. line[k] = Told("idle", At(k), <<ShowMsg>>, <<>>, At(k))
    BY <1>1, <1>8, ToldFields DEF Drawing
  <2>2. Head(r).cmd = "BACKTRACE" /\ Head(r).arg = 0 /\ Tail(r) = <<>>
        /\ line[k].answers = <<>> /\ line[k].time = At(k)
    BY <2>1, ShortSequences DEF Told, ShowMsg, Msg
  <2>3. line'[k] = Told("idle", At(k), <<>>, <<ReadyMsg(At(k))>>, At(k))
    <3>1. At(k) = At(k) + Head(r).arg /\ Head(r).cmd \in {"FORWARD", "BACKTRACE"}
      BY <1>3, <2>2, HandshakeAssumption DEF Times
    <3>2. Serve(Told("idle", At(k), r, <<>>, At(k)))
            = Told("idle", At(k), Tail(r), Append(<<>>, ReadyMsg(At(k))), At(k))
      BY <3>1 DEF Serve, Told, ReadyMsg
    <3> QED BY <1>2, <2>2, <3>2, ShortSequences
  <2>4. Goes(k)
    BY <1>1, <1>2, <1>3, <1>4, <2>2, <2>3, MessageTypes, SequenceSteps
       DEF Goes, LineSet, States, Told, At
  <2>5. ActiveShape(ph)'
    BY <1>5, <1>8, <2>3, <2>4, HandshakeAssumption DEF ActiveShape, Drawing
  <2> QED BY <1>8, <2>4, <2>5, ActiveGoes, HandshakeAssumption
<1>9. ASSUME /\ k = active /\ Quitting(k) /\ ~(ph \in Cloning /\ active = call.parent)
             /\ ph \in {"prompt", "resume", "forward", "show", "moved"} \cup Cloning
             /\ ~recovering /\ At(active) = shown
     PROVE  Goal
  <2>1. Head(r).cmd = "QUIT" /\ line[k].answers = <<>>
    BY <1>1, <1>9 DEF Quitting
  <2>2. line'[k] = Told("dead", 1, <<>>, <<>>, At(k))
    BY <1>2, <2>1, ServeOther
  <2>3. Goes(k)
    BY <1>1, <1>2, <1>3, <1>4, <2>1, <2>2, TimesNat, SequenceSteps
       DEF Goes, LineSet, States, Told, At
  <2>4. Quitting(k)'
    BY <2>2, ToldFields DEF Quitting
  <2>5. ActiveShape(ph)'
    BY <1>5, <1>9, <2>3, <2>4, HandshakeAssumption
       DEF ActiveShape, Stuck, Still, Cloning
  <2> QED BY <1>9, <2>3, <2>5, ActiveGoes, HandshakeAssumption
<1>10. ASSUME \E t \in Forks : k = paused[t] /\ k \in cut /\ Loose(k)
      PROVE  Goal
  <2>1. PICK t \in Forks : k = paused[t]
    BY <1>10
  <2>2. Loose(k) /\ k \in cut
    BY <1>10
  <2>3. line[k].time = At(k) /\ r \in Seq(ForkRequests)
        /\ line[k].answers \in Seq({ForkedMsg, ReadyMsg(At(k))})
    BY <1>1, <2>2 DEF Loose, Running
  <2>4. Head(r) \in ForkRequests /\ Tail(r) \in Seq(ForkRequests)
        /\ <<>> \in Seq(ForkRequests)
    BY <1>1, <2>3, ReadSequence
  <2>5. CASE Head(r) = ForkMsg
    <3>1. line'[k] = Told("fetching", At(k), Tail(r), line[k].answers, At(k))
      BY <1>2, <2>3, <2>5, ServeFork
    <3>2. Goes(k)
      BY <1>1, <1>2, <1>3, <1>4, <3>1 DEF Goes, LineSet, States, Told, At
    <3>3. Loose(k)'
      BY <1>5, <2>3, <2>4, <3>1, <3>2, GoesFacts DEF Loose, Running, Told
    <3> QED BY <2>1, <2>2, <3>2, <3>3, LooseGoes
  <2>6. CASE Head(r) # ForkMsg
    <3>1. Head(r).cmd = "fd"
      BY <2>4, <2>6, MessageFields DEF ForkRequests, FdMsg
    <3>2. line'[k] = Told("dead", 1, <<>>, line[k].answers, At(k))
      BY <1>2, <3>1, ServeOther
    <3>3. Goes(k)
      BY <1>1, <1>2, <1>3, <1>4, <3>2, TimesNat DEF Goes, LineSet, States, Told, At
    <3>4. Loose(k)'
      BY <1>5, <2>3, <2>4, <3>2, <3>3, GoesFacts DEF Loose, Running, Told
    <3> QED BY <2>1, <2>2, <3>3, <3>4, LooseGoes
  <2> QED BY <2>5, <2>6
<1>11. Goal
  BY <1>6, <1>7, <1>8, <1>9, <1>10, WhoServes
<1>12. k \in Held /\ k # call.child
  <2>1. k # call.child /\ (k = active \/ \E t \in Forks : k = paused[t])
    BY <1>1, Holder DEF Shape
  <2> QED BY <2>1, ForkIs DEF Held
<1> QED BY <1>11, <1>12, GoesSound DEF Shape

\* A parent takes its descriptor: the child is there, and both answer.
Splits(k, c) ==
  /\ UNCHANGED Others
  /\ line' = [line EXCEPT
       ![k] = Told("idle", line[k].time, Tail(line[k].requests),
                   line[k].answers \o <<ForkedMsg, ReadyMsg(line[k].time)>>,
                   At(k)),
       ![c] = Born(line[k].time)]

LEMMA WhoFetches ==
  ASSUME Sound, NEW ph, Shape(ph), NEW k \in Sockets,
         line[k].state = "fetching", line[k].requests # <<>>
  PROVE  \/ /\ Good(ph) /\ k = call.parent /\ ph = "forked"
            /\ line[k] = Told("fetching", At(k), <<FdMsg(call.child)>>, <<>>, At(k))
            /\ line[call.child] = Unborn
         \/ \E t \in Forks : k = paused[t] /\ k \in cut /\ Loose(k)
<1>1. /\ k # call.child /\ k # None
      /\ k = active \/ \E t \in Forks : k = paused[t]
  BY Holder DEF Shape
<1>2. ASSUME Good(ph), k = call.parent
      PROVE  /\ ph = "forked" /\ line[call.child] = Unborn
             /\ line[k] = Told("fetching", At(k), <<FdMsg(call.child)>>, <<>>, At(k))
  <2>1. Handshake(ph)
    BY <1>2, GoodParent
  <2> QED BY <1>2, <2>1, QuietHasNothing, ToldFields DEF Handshake
<1>3. CASE k = active /\ ~(ph \in Cloning /\ active = call.parent)
  <2>1. \/ Quiet(k) \/ Quitting(k) \/ Moving \/ Drawing
    BY <1>1, <1>3, ActiveHas DEF Shape
  <2>2. Quiet(k) \/ Quitting(k) => line[k].state # "fetching"
    BY QuietHasNothing DEF Quitting
  <2>3. Moving \/ Drawing => line[k].state = "idle"
    <3>1. ASSUME Moving PROVE line[active].state = "idle"
      BY <3>1, ToldFields DEF Moving
    <3>2. ASSUME Drawing PROVE line[active].state = "idle"
      BY <3>2, ToldFields DEF Drawing
    <3> QED BY <1>3, <3>1, <3>2
  <2> QED BY <2>1, <2>2, <2>3
<1>4. CASE k = active /\ ph \in Cloning /\ active = call.parent
  <2>1. k \notin cut
    BY <1>1, <1>4 DEF Sound, Apart
  <2> QED BY <1>2, <1>4, <2>1 DEF Good
<1>5. CASE \E t \in Forks : k = paused[t]
  <2>1. PICK t \in Forks : k = paused[t]
    BY <1>5
  <2>2. ForkShape(ph, t)
    BY DEF Shape
  <2>3. CASE k \in cut
    BY <2>1, <2>2, <2>3 DEF ForkShape
  <2>4. CASE k \notin cut
    BY <1>2, <2>1, <2>2, <2>4, QuietHasNothing DEF ForkShape, Good
  <2> QED BY <2>3, <2>4
<1> QED BY <1>1, <1>3, <1>4, <1>5

LEMMA SplitsSound ==
  ASSUME Sound, NEW k \in Sockets, k = call.parent,
         NEW c \in Sockets, c = call.child,
         line[k].state = "fetching", line[k].requests # <<>>,
         Head(line[k].requests) = FdMsg(c), Splits(k, c), k \in Held
  PROVE  /\ Sound'
         /\ UNCHANGED <<active, paused, call, cut, recovering, shown>>
         /\ Forks' = Forks
         /\ line'[k] = Told("idle", line[k].time, <<>>,
                            line[k].answers \o <<ForkedMsg, ReadyMsg(line[k].time)>>,
                            At(k))
         /\ line'[c] = Born(line[k].time)
         /\ \A j \in Sockets \ {k, c} : line'[j] = line[j]
<1>1. UNCHANGED <<active, paused, call, cut, recovering, shown>>
  BY DEF Splits, Others, past
<1>2. /\ line \in [Sockets -> LineSet] /\ line[k] \in LineSet
      /\ line[k].requests \in Seq(Requests) /\ line[k].time \in Times
      /\ line[k].answers \in Seq(Answers) /\ At(k) \in Times
  BY TypedLine DEF Sound, LineSet, At
<1>3. Forks' = Forks /\ Held' = Held
  BY <1>1, HeldSame, ForksSame
<1>4. c \in Held \ {None} /\ k # c
  BY HandshakeAssumption DEF Held, Sound, Apart
<1>5. Tail(line[k].requests) = <<>>
  <2>1. 1 \in DOMAIN line[k].requests /\ line[k].requests[1] = FdMsg(c)
    BY <1>2, ReadSequence
  <2>2. Len(line[k].requests) = 1
    BY <1>4, <2>1 DEF Sound, DescriptorOnce
  <2>3. Len(Tail(line[k].requests)) = 0 /\ Tail(line[k].requests) \in Seq(Requests)
    BY <1>2, <2>2, ReadSequence
  <2> QED BY <2>3, EmptySeq
<1>6. /\ line'[k] = Told("idle", line[k].time, <<>>,
                         line[k].answers \o <<ForkedMsg, ReadyMsg(line[k].time)>>,
                         At(k))
      /\ line'[c] = Born(line[k].time)
      /\ \A j \in Sockets \ {k, c} : line'[j] = line[j]
  BY <1>2, <1>4, <1>5 DEF Splits
<1>7. TypeOK'
  <2>1. line'[k] \in LineSet /\ line'[c] \in LineSet
    <3>1. /\ line[k].answers \o <<ForkedMsg, ReadyMsg(line[k].time)>> \in Seq(Answers)
          /\ <<ReadyMsg(line[k].time)>> \in Seq(Answers)
          /\ <<>> \in Seq(Answers) /\ <<>> \in Seq(Requests)
      BY <1>2, MessageTypes, SequenceSteps
    <3> QED BY <1>2, <1>6, <3>1, TimesNat DEF LineSet, States, Told, Born
  <2>2. line' \in [Sockets -> LineSet]
    BY <1>2, <1>6, <2>1 DEF Splits
  <2> QED BY <1>1, <2>2 DEF Sound, TypeOK, LineSet, States, Splits, Others, past
<1>8. Apart'
  BY <1>1, <1>3 DEF Sound, Apart
<1>9. OthersUnused'
  BY <1>3, <1>4, <1>6 DEF Sound, OthersUnused
<1>10. DescriptorOnce'
  <2> SUFFICES ASSUME NEW l \in Sockets, NEW i \in DOMAIN line'[l].requests,
                      NEW j \in Held \ {None}, line'[l].requests[i] = FdMsg(j)
               PROVE  FALSE
    BY <1>3 DEF DescriptorOnce
  <2>1. line'[l].requests # <<>>
    OBVIOUS
  <2>2. l # k /\ l # c
    BY <1>6, <2>1 DEF Told, Born
  <2>3. line'[l] = line[l]
    BY <1>6, <2>2
  <2> QED BY <2>2, <2>3 DEF Sound, DescriptorOnce
<1> QED BY <1>1, <1>3, <1>6, <1>7, <1>8, <1>9, <1>10 DEF Sound

\* What Fetched() does, in three cases.
LEMMA FetchedCases ==
  ASSUME Sound, NEW k \in Sockets, Fetched(k), UNCHANGED Others
  PROVE  /\ line[k].state = "fetching" /\ line[k].requests # <<>>
         /\ LET r == Head(line[k].requests)
            IN  \/ /\ r.cmd # "fd"
                   /\ line' = [line EXCEPT ![k] =
                        Told("dead", 1, <<>>, line[k].answers, At(k))]
                \/ /\ r.cmd = "fd" /\ r.arg \notin Held
                   /\ line' = [line EXCEPT ![k] =
                        Told("idle", line[k].time, Tail(line[k].requests),
                             line[k].answers
                               \o <<ForkedMsg, ReadyMsg(line[k].time)>>, At(k))]
                \/ /\ r.cmd = "fd" /\ r.arg \in Held
                   /\ line[r.arg] = Unborn /\ k # r.arg => Splits(k, r.arg)
<1>1. line \in [Sockets -> LineSet] /\ line[k] \in LineSet
  BY TypedLine DEF Sound
<1>2. /\ line[k].state = "fetching" /\ line[k].requests # <<>>
  BY DEF Fetched
<1> DEFINE r == Head(line[k].requests)
           ready == Msg("READY", line[k].time)
           split == [line EXCEPT ![k].state = "idle",
                       ![k].requests = Tail(@),
                       ![k].answers = @ \o <<Msg("FORKED", 0), ready>>]
<1>3. line' = IF r.cmd # "fd" THEN [line EXCEPT ![k] = Gone(@)]
              ELSE IF r.arg \notin Held THEN split
              ELSE [split EXCEPT ![r.arg].state = "idle",
                                 ![r.arg].time = line[k].time,
                                 ![r.arg].answers = <<ready>>]
  BY DEF Fetched
<1>4. Gone(line[k]) = Told("dead", 1, <<>>, line[k].answers, At(k))
  BY TypedLine, GoneTold DEF Sound, At
<1>5. split = [line EXCEPT ![k] =
                 Told("idle", line[k].time, Tail(line[k].requests),
                      line[k].answers \o <<ForkedMsg, ReadyMsg(line[k].time)>>,
                      At(k))]
  <2> DEFINE l == [line[k] EXCEPT
                     !.state = "idle", !.requests = Tail(@),
                     !.answers = @ \o <<Msg("FORKED", 0), ready>>]
  <2>1. l = Told("idle", line[k].time, Tail(line[k].requests),
                 line[k].answers \o <<ForkedMsg, ReadyMsg(line[k].time)>>, At(k))
    <3> DEFINE tail == Tail(line[k].requests)
               more == line[k].answers \o <<Msg("FORKED", 0), ready>>
    <3>1. l = Split(line[k], tail, more)
      BY <1>1 DEF LineSet, Split
    <3>2. line[k] = Told(line[k].state, line[k].time, line[k].requests,
                         line[k].answers, At(k))
      BY TypedLine DEF Sound, At
    <3>3. Split(line[k], tail, more)
            = Told("idle", line[k].time, tail, more, At(k))
      BY <3>2, SplitTold
    <3> QED BY <3>1, <3>3 DEF ForkedMsg, ReadyMsg
  <2>2. split = [line EXCEPT ![k] = l]
    BY <1>1
  <2> QED BY <2>1, <2>2
<1>6. CASE r.cmd # "fd"
  BY <1>1, <1>2, <1>3, <1>4, <1>6
<1>7. CASE r.cmd = "fd" /\ r.arg \notin Held
  BY <1>2, <1>3, <1>5, <1>7
<1>8. CASE r.cmd = "fd" /\ r.arg \in Held
  <2>1. ASSUME line[r.arg] = Unborn, k # r.arg PROVE Splits(k, r.arg)
    <3>1. r.arg \in Sockets
      BY <1>8, <2>1, <1>1, <1>2, ReadSequence, HandshakeAssumption, SMTT(30)
         DEF LineSet, Requests
    <3>2. split[r.arg] = Unborn
      BY <1>1, <1>5, <2>1, <3>1
    <3> DEFINE l == [split[r.arg] EXCEPT
                       !.state = "idle", !.time = line[k].time,
                       !.answers = <<ready>>]
    <3> HIDE DEF split
    <3>3. line' = [split EXCEPT ![r.arg] = l]
      BY <1>1, <1>3, <1>5, <1>8, <3>1
    <3>4. l = Born(line[k].time)
      BY <3>2, BornTold DEF ReadyMsg
    <3> QED BY <1>5, <3>3, <3>4 DEF Splits
  <2> QED BY <1>2, <1>8, <2>1
<1> QED BY <1>6, <1>7, <1>8

\* A descriptor fetched.
LEMMA FetchedInv ==
  ASSUME Sound, NEW ph, Shape(ph), NEW k \in Sockets, Fetched(k),
         UNCHANGED Others
  PROVE  Sound' /\ Shape(ph)'
<1> DEFINE r == Head(line[k].requests)
           c == call.child
<1>1. line[k].state = "fetching" /\ line[k].requests # <<>>
  BY FetchedCases
<1>2. /\ line \in [Sockets -> LineSet] /\ line[k] \in LineSet
      /\ line[k].requests \in Seq(Requests) /\ line[k].time \in Times
      /\ line[k].answers \in Seq(Answers) /\ At(k) \in Times
  BY TypedLine DEF Sound, LineSet, At
<1>3. r \in Requests /\ Tail(line[k].requests) \in Seq(Requests)
      /\ r = line[k].requests[1] /\ 1 \in DOMAIN line[k].requests
  BY <1>1, <1>2, ReadSequence
<1>4. k \in Held /\ k # c
  <2>1. k # c /\ (k = active \/ \E t \in Forks : k = paused[t])
    BY <1>1, Holder DEF Shape
  <2> QED BY <2>1, ForkIs DEF Held
<1>5. ASSUME r.cmd = "fd", r.arg \in Held
      PROVE  /\ k = call.parent /\ c \in Sockets /\ r = FdMsg(c) /\ r.arg = c
             /\ Splits(k, c)
  <2>1. r.arg \in Sockets /\ r = FdMsg(r.arg)
    BY <1>3, <1>5 DEF Requests, FdMsg, Msg
  <2>2. r.arg \in Held \ {None}
    BY <1>5, <2>1, HandshakeAssumption
  <2>3. k = call.parent /\ r.arg = c /\ line[c] = Unborn
    BY <1>3, <2>1, <2>2 DEF Sound, DescriptorOnce
  <2>4. Splits(k, c)
    BY <1>4, <1>5, <2>3, FetchedCases
  <2> QED BY <2>1, <2>3, <2>4
<1>6. ASSUME /\ Good(ph) /\ k = call.parent /\ ph = "forked"
             /\ line[k] = Told("fetching", At(k), <<FdMsg(c)>>, <<>>, At(k))
             /\ line[c] = Unborn
      PROVE  Sound' /\ Shape(ph)'
  <2>1. c \in Sockets /\ c # k
    BY <1>6, GoodParent DEF WithChild
  <2>2. r = FdMsg(c) /\ line[k].time = At(k) /\ line[k].answers = <<>>
    BY <1>6, ShortSequences DEF Told
  <2>3. r.cmd = "fd" /\ r.arg \in Held
    BY <2>2, <2>1 DEF FdMsg, Msg, Held
  <2>4. Splits(k, c)
    BY <1>5, <2>3
  <2>5. /\ Sound'
        /\ UNCHANGED <<active, paused, call, cut, recovering, shown>>
        /\ Forks' = Forks
        /\ line'[k] = Told("idle", line[k].time, <<>>,
                           line[k].answers \o <<ForkedMsg, ReadyMsg(line[k].time)>>,
                           At(k))
        /\ line'[c] = Born(line[k].time)
        /\ \A j \in Sockets \ {k, c} : line'[j] = line[j]
    BY <1>1, <1>4, <1>6, <2>1, <2>2, <2>4, SplitsSound
  <2>6. line'[k] = Told("idle", At(k), <<>>, <<ForkedMsg, ReadyMsg(At(k))>>, At(k))
    BY <2>2, <2>5, ShortSequences
  <2>7. At(k)' = At(k)
    BY <2>6 DEF At, Told
  <2>8. Handshake(ph)'
    BY <1>6, <2>2, <2>5, <2>6, <2>7 DEF Handshake
  <2>9. ParentShape(ph)'
    BY <1>6, <2>5, <2>8 DEF Shape, ParentShape, Good
  <2>10. ActiveShape(ph)'
    <3>1. CASE active = k
      BY <1>6, <2>5, <2>7, <3>1 DEF Shape, ActiveShape, Good, Cloning
    <3>2. CASE active # k
      BY <1>4, <2>1, <2>5, <3>2, ActiveKept DEF Shape, Sound, TypeOK, Apart
    <3> QED BY <3>1, <3>2
  <2>11. ASSUME NEW u \in Forks PROVE ForkShape(ph, u)'
    <3>1. CASE paused[u] = k
      BY <1>6, <2>5, <2>7, <3>1 DEF Shape, ForkShape, Good
    <3>2. CASE paused[u] # k
      BY <2>5, <3>2, ForkKept, ForkIs DEF Shape
    <3> QED BY <3>1, <3>2
  <2> QED BY <2>5, <2>9, <2>10, <2>11 DEF Shape
<1>7. ASSUME NEW t \in Forks, k = paused[t], k \in cut, Loose(k)
      PROVE  Sound' /\ Shape(ph)'
  <2>1. line[k].time = At(k) /\ line[k].requests \in Seq(ForkRequests)
        /\ line[k].answers \in Seq({ForkedMsg, ReadyMsg(At(k))})
    BY <1>1, <1>7 DEF Loose, Running
  <2>2. /\ Tail(line[k].requests) \in Seq(ForkRequests)
        /\ <<>> \in Seq(ForkRequests)
        /\ line[k].answers \o <<ForkedMsg, ReadyMsg(At(k))>>
             \in Seq({ForkedMsg, ReadyMsg(At(k))})
    BY <1>1, <2>1, ReadSequence, SequenceSteps
  <2>3. CASE /\ r.cmd # "fd"
             /\ line' = [line EXCEPT ![k] =
                  Told("dead", 1, <<>>, line[k].answers, At(k))]
    <3>1. line'[k] = Told("dead", 1, <<>>, line[k].answers, At(k))
      BY <1>2, <2>3
    <3>2. Goes(k)
      BY <1>1, <1>2, <2>3, <3>1, TimesNat, SequenceSteps, EmptySeq
         DEF Goes, LineSet, States, Told, At
    <3>3. Loose(k)'
      BY <2>1, <2>2, <3>1, <3>2, GoesFacts DEF Loose, Running, Told
    <3> QED BY <1>4, <1>7, <3>2, <3>3, LooseGoes, GoesSound DEF Shape
  <2>4. CASE /\ r.arg \notin Held
             /\ line' = [line EXCEPT ![k] =
                  Told("idle", line[k].time, Tail(line[k].requests),
                       line[k].answers
                         \o <<ForkedMsg, ReadyMsg(line[k].time)>>, At(k))]
    <3>1. line'[k] = Told("idle", line[k].time, Tail(line[k].requests),
                          line[k].answers
                            \o <<ForkedMsg, ReadyMsg(line[k].time)>>, At(k))
      BY <1>2, <2>4
    <3>2. line[k].answers \o <<ForkedMsg, ReadyMsg(line[k].time)>> \in Seq(Answers)
      BY <1>2, MessageTypes, SequenceSteps
    <3>3. Goes(k)
      BY <1>1, <1>2, <1>3, <2>4, <3>1, <3>2 DEF Goes, LineSet, States, Told, At
    <3>4. Loose(k)'
      BY <2>1, <2>2, <3>1, <3>3, GoesFacts DEF Loose, Running, Told
    <3> QED BY <1>4, <1>7, <3>3, <3>4, LooseGoes, GoesSound DEF Shape
  <2>5. CASE r.cmd = "fd" /\ r.arg \in Held
    <3>1. k = call.parent /\ c \in Sockets /\ r = FdMsg(c) /\ Splits(k, c)
      BY <1>5, <2>5
    <3>2. /\ Sound'
          /\ UNCHANGED <<active, paused, call, cut, recovering, shown>>
          /\ Forks' = Forks
          /\ line'[k] = Told("idle", line[k].time, <<>>,
                             line[k].answers \o <<ForkedMsg, ReadyMsg(line[k].time)>>,
                             At(k))
          /\ line'[c] = Born(line[k].time)
          /\ \A j \in Sockets \ {k, c} : line'[j] = line[j]
      BY <1>1, <1>4, <3>1, SplitsSound
    <3>3. At(k)' = At(k)
      BY <3>2 DEF At, Told
    <3>4. Loose(k)'
      BY <2>1, <2>2, <3>2, <3>3 DEF Loose, Running, Told
    <3>5. ParentShape(ph)'
      BY <1>7, <2>1, <3>1, <3>2, <3>3 DEF Shape, ParentShape
    <3>6. ActiveShape(ph)'
      BY <1>7, <1>4, <3>2, ActiveKept, ForkIs DEF Shape, Sound, TypeOK, Apart
    <3>7. ASSUME NEW u \in Forks PROVE ForkShape(ph, u)'
      <4>1. CASE u = t
        BY <1>7, <3>2, <3>3, <3>4, <4>1 DEF Shape, ForkShape
      <4>2. CASE u # t
        BY <1>7, <3>2, <4>2, ForkKept, ForkIs DEF Shape
      <4> QED BY <4>1, <4>2
    <3> QED BY <3>2, <3>5, <3>6, <3>7 DEF Shape
  <2> QED BY <2>3, <2>4, <2>5, FetchedCases
<1> QED BY <1>1, <1>6, <1>7, WhoFetches

LEMMA ProcessStepInv ==
  ASSUME Sound, NEW ph, Shape(ph), ProcessStep
  PROVE  Sound' /\ Shape(ph)' /\ phase' = phase
BY ServedInv, FetchedInv DEF ProcessStep, Others

-----------------------------------------------------------------------------
\* What send() and expect() do to a line.
Sent(k, msg) ==
  Told(line[k].state, line[k].time, Append(line[k].requests, msg),
       line[k].answers, At(k))

LEMMA SendTold ==
  ASSUME Sound, NEW k \in Sockets, NEW msg, Send(k, msg)
  PROVE  /\ line' = [line EXCEPT ![k] = Sent(k, msg)]
         /\ line'[k] = Sent(k, msg)
         /\ \A j \in Sockets \ {k} : line'[j] = line[j]
<1>1. line \in [Sockets -> LineSet]
  BY TypedLine DEF Sound
<1> DEFINE l == [line[k] EXCEPT !.requests = Append(@, msg)]
<1>2. l = Sent(k, msg)
  <2>1. l = WithRequests(line[k], Append(line[k].requests, msg))
    BY DEF WithRequests
  <2> QED BY <2>1, TypedLine, WithTold DEF Sound, Sent, At
<1>3. line' = [line EXCEPT ![k] = l]
  BY <1>1 DEF Send
<1> HIDE DEF l
<1> QED BY <1>1, <1>2, <1>3

LEMMA ReadTimesTold ==
  ASSUME Sound, NEW k \in Sockets, NEW n, line[k].answers # <<>>,
         Head(line[k].answers) = ReadyMsg(n)
  PROVE  /\ ReadTimes(k) = [line EXCEPT ![k] =
                              Told(line[k].state, line[k].time, line[k].requests,
                                   Tail(line[k].answers), n)]
         /\ ReadTimes(k)[k] = Told(line[k].state, line[k].time, line[k].requests,
                                   Tail(line[k].answers), n)
         /\ \A j \in Sockets \ {k} : ReadTimes(k)[j] = line[j]
<1>1. line \in [Sockets -> LineSet]
  BY TypedLine DEF Sound
<1> DEFINE b == [line[k] EXCEPT !.answers = Tail(@)]
           l == [b EXCEPT !.stub = n]
<1>2. Head(line[k].answers).arg = n
  BY DEF ReadyMsg, Msg
<1>3. b = Told(line[k].state, line[k].time, line[k].requests,
               Tail(line[k].answers), At(k))
  <2>1. b = WithAnswers(line[k], Tail(line[k].answers))
    BY DEF WithAnswers
  <2> QED BY <2>1, TypedLine, WithTold DEF Sound, At
<1>4. l = Told(line[k].state, line[k].time, line[k].requests,
               Tail(line[k].answers), n)
  <2>1. l = WithStub(b, n)
    BY DEF WithStub
  <2> HIDE DEF b, l
  <2> QED BY <1>3, <2>1, WithTold
<1>5. ReadTimes(k) = [line EXCEPT ![k] = l]
  BY <1>1, <1>2 DEF ReadTimes
<1> HIDE DEF l
<1> QED BY <1>1, <1>4, <1>5

LEMMA ReadTold ==
  ASSUME Sound, NEW k \in Sockets, line[k].answers # <<>>
  PROVE  /\ Read(k) = [line EXCEPT ![k] =
                         Told(line[k].state, line[k].time, line[k].requests,
                              Tail(line[k].answers), At(k))]
         /\ Read(k)[k] = Told(line[k].state, line[k].time, line[k].requests,
                              Tail(line[k].answers), At(k))
         /\ \A j \in Sockets \ {k} : Read(k)[j] = line[j]
<1>1. line \in [Sockets -> LineSet]
  BY TypedLine DEF Sound
<1> DEFINE l == [line[k] EXCEPT !.answers = Tail(@)]
<1>2. l = Told(line[k].state, line[k].time, line[k].requests,
               Tail(line[k].answers), At(k))
  <2>1. l = WithAnswers(line[k], Tail(line[k].answers))
    BY DEF WithAnswers
  <2> QED BY <2>1, TypedLine, WithTold DEF Sound, At
<1>3. Read(k) = [line EXCEPT ![k] = l]
  BY <1>1 DEF Read
<1> HIDE DEF l
<1> QED BY <1>1, <1>2, <1>3

LEMMA LiveShape ==
  ASSUME IInv, phase \notin {"died", "exited"}
  PROVE  Sound /\ Shape(phase) /\ phase \in LivePhases
BY DEF IInv

LEMMA LiveInv ==
  ASSUME NEW q \in LivePhases, Sound', phase' \in {q, "died", "exited"}, Shape(q)'
  PROVE  IInv'
BY DEF IInv

\* Outside clone() nobody gets a descriptor.
LEMMA NoDescriptor ==
  ASSUME Sound, call.child = None, NEW k \in Sockets,
         NEW i \in DOMAIN line[k].requests, NEW j \in Held \ {None}
  PROVE  line[k].requests[i] # FdMsg(j)
BY DEF Sound, DescriptorOnce

-----------------------------------------------------------------------------
(***************************************************************************)
(* Outside clone(): only the line of the active process changes, and what  *)
(* is sent is no descriptor.                                               *)
(***************************************************************************)
LEMMA OutsideClone ==
  ASSUME Sound, NEW ph, Shape(ph), ph \notin Cloning, TypeOK',
         UNCHANGED <<active, paused, cut>>, call'.child = None,
         \A k \in Sockets \ {active} : line'[k] = line[k],
         active # None =>
           \A i \in DOMAIN line'[active].requests :
             \/ line'[active].requests[i].cmd # "fd"
             \/ /\ i \in DOMAIN line[active].requests
                /\ line'[active].requests[i] = line[active].requests[i]
  PROVE  /\ Sound'
         /\ \A q : \A t \in Forks' : ForkShape(q, t)'
         /\ \A q : q \notin Cloning => ParentShape(q)'
<1>1. call.child = None
  BY DEF Shape, ParentShape, Cloning, WithChild
<1>2. Forks' = Forks /\ Held' = Held
  BY <1>1, HeldSame, ForksSame
<1>3. Apart'
  BY <1>2, ForkIs, HandshakeAssumption DEF Sound, Apart
<1>4. OthersUnused'
  BY <1>2 DEF Sound, OthersUnused, Held
<1>5. DescriptorOnce'
  <2> SUFFICES ASSUME NEW k \in Sockets, NEW i \in DOMAIN line'[k].requests,
                      NEW j \in Held \ {None}
               PROVE  line'[k].requests[i] # FdMsg(j)
    BY <1>2 DEF DescriptorOnce
  <2>1. CASE k # active
    BY <1>1, <2>1, NoDescriptor
  <2>2. CASE k = active
    <3>1. active # None
      BY <2>2, HandshakeAssumption
    <3>2. CASE line'[active].requests[i].cmd # "fd"
      BY <2>2, <3>2 DEF FdMsg, Msg
    <3>3. CASE /\ i \in DOMAIN line[active].requests
               /\ line'[active].requests[i] = line[active].requests[i]
      BY <1>1, <2>2, <3>3, NoDescriptor
    <3> QED BY <2>2, <3>1, <3>2, <3>3
  <2> QED BY <2>1, <2>2
<1>6. ASSUME NEW q, NEW t \in Forks PROVE ForkShape(q, t)'
  <2>1. line'[paused[t]] = line[paused[t]]
    BY ForkIs
  <2>2. ForkShape(ph, t)
    BY DEF Shape
  <2> QED BY <2>1, <2>2 DEF ForkShape, Loose, Quiet, Running, At
<1>7. ASSUME NEW q, q \notin Cloning PROVE ParentShape(q)'
  BY <1>7 DEF ParentShape, Cloning, WithChild
<1> QED BY <1>2, <1>3, <1>4, <1>5, <1>6, <1>7 DEF Sound

-----------------------------------------------------------------------------
\* The commands, and what is outside clone().
LEMMA SoundTypes ==
  ASSUME Sound
  PROVE  /\ line \in [Sockets -> LineSet] /\ active \in Sockets \cup {None}
         /\ paused \in [Times -> Sockets \cup {None}]
         /\ call.parent \in Sockets \cup {None}
         /\ call.child \in Sockets \cup {None} /\ call.target \in Times
         /\ shown \in Times /\ recovering \in BOOLEAN
         /\ cut \subseteq Sockets /\ pressed \in 0..MaxInterrupts
         /\ NoCall.child = None /\ NoCall.parent = None
BY TypedLine DEF Sound, TypeOK, NoCall

\* A line that changes nothing but the call.
LEMMA SameLines ==
  ASSUME Sound, NEW ph, Shape(ph), ph \notin Cloning,
         UNCHANGED <<line, active, paused, past>>, phase' \in Phases,
         call' \in [parent: Sockets \cup {None}, child: {None}, target: Times],
         shown' \in Times, recovering' \in BOOLEAN
  PROVE  /\ Sound'
         /\ \A q : \A t \in Forks' : ForkShape(q, t)'
         /\ \A q : q \notin Cloning => ParentShape(q)'
<1>1. TypeOK'
  BY DEF Sound, TypeOK, past
<1>2. call'.child = None
  OBVIOUS
<1> QED BY <1>1, <1>2, OutsideClone DEF past

LEMMA GoInv ==
  ASSUME IInv, Go PROVE IInv'
<1>1. /\ phase = "prompt" /\ phase' = "resume"
      /\ UNCHANGED <<line, active, paused, shown, recovering, past>>
      /\ call' \in [parent: Sockets \cup {None}, child: {None}, target: Times]
  BY DEF Go, NoCall
<1>2. Sound /\ Shape("prompt")
  BY <1>1, LiveShape
<1>3. Sound' /\ (\A t \in Forks' : ForkShape("resume", t)') /\ ParentShape("resume")'
  BY <1>1, <1>2, SameLines, SoundTypes DEF Phases, Cloning
<1>4. ActiveShape("resume")'
  BY <1>1, <1>2 DEF Shape, ActiveShape, Still, Quiet, Quitting, At, Cloning
<1> QED BY <1>1, <1>3, <1>4, LiveInv DEF Shape, LivePhases, Phases

LEMMA StepInv ==
  ASSUME IInv, Step PROVE IInv'
<1>1. phase = "prompt" /\ phase' = "forward"
      /\ UNCHANGED <<line, active, paused, shown, recovering, past>>
  BY DEF Step
<1>2. Sound /\ Shape("prompt")
  BY <1>1, LiveShape
<1>3. active # None /\ Still
  BY <1>2 DEF Shape, ActiveShape, Cloning
<1>4. line[active].stub \in Times
  BY <1>2, <1>3, SoundTypes, TypedLine DEF Sound, LineSet
<1>5. call' \in [parent: Sockets \cup {None}, child: {None}, target: Times]
  BY <1>4, HandshakeAssumption DEF Step, NoCall, Times
<1>6. Sound' /\ (\A t \in Forks' : ForkShape("forward", t)') /\ ParentShape("forward")'
  BY <1>1, <1>2, <1>5, SameLines, SoundTypes DEF Phases, Cloning
<1>7. ActiveShape("forward")'
  BY <1>1, <1>3 DEF ActiveShape, Still, Stuck, Quiet, Quitting, At
<1> QED BY <1>1, <1>6, <1>7, LiveInv DEF Shape, LivePhases, Phases

LEMMA PromptUnmovedInv ==
  ASSUME IInv, PromptUnmoved PROVE IInv'
<1>1. /\ phase = "show" /\ phase' = "prompt" /\ Unmoved
      /\ UNCHANGED <<line, active, paused, shown, recovering, past>>
      /\ call' \in [parent: Sockets \cup {None}, child: {None}, target: Times]
  BY TimesNat DEF PromptUnmoved, NoCall
<1>2. Sound /\ Shape("show")
  BY <1>1, LiveShape
<1>3. Sound' /\ (\A t \in Forks' : ForkShape("prompt", t)') /\ ParentShape("prompt")'
  BY <1>1, <1>2, SameLines, SoundTypes DEF Phases, Cloning
<1>4. active # None /\ Still
  BY <1>1, <1>2 DEF Shape, ActiveShape, Cloning, Unmoved, Still, Stuck, At
<1>5. ActiveShape("prompt")'
  BY <1>1, <1>4 DEF ActiveShape, Still, Quiet, Quitting, At
<1> QED BY <1>1, <1>3, <1>5, LiveInv DEF Shape, LivePhases, Phases

\* A request sent to the active process outside clone().
LEMMA ActiveSends ==
  ASSUME Sound, NEW ph, Shape(ph), ph \notin Cloning, active # None,
         NEW msg \in Requests, msg.cmd # "fd", Send(active, msg),
         UNCHANGED <<active, paused, call, shown, recovering, past>>,
         phase' \in Phases
  PROVE  /\ Sound'
         /\ \A q : \A t \in Forks' : ForkShape(q, t)'
         /\ \A q : q \notin Cloning => ParentShape(q)'
         /\ line'[active] = Sent(active, msg)
<1>1. active \in Sockets /\ call.child = None
  BY SoundTypes DEF Shape, ParentShape, Cloning, WithChild
<1>2. /\ line' = [line EXCEPT ![active] = Sent(active, msg)]
      /\ line'[active] = Sent(active, msg)
      /\ \A j \in Sockets \ {active} : line'[j] = line[j]
  BY <1>1, SendTold
<1>3. line[active] \in LineSet /\ line[active].requests \in Seq(Requests)
  BY <1>1, TypedLine DEF Sound, LineSet
<1>4. Append(line[active].requests, msg) \in Seq(Requests)
  BY <1>3, SequenceSteps
<1>5. Sent(active, msg) \in LineSet
  BY <1>3, <1>4 DEF Sent, Told, LineSet, At
<1>6. TypeOK'
  <2>1. line' \in [Sockets -> LineSet]
    BY <1>2, <1>5, SoundTypes
  <2> QED BY <2>1 DEF Sound, TypeOK, LineSet, States, past
<1>7. \A i \in DOMAIN line'[active].requests :
        \/ line'[active].requests[i].cmd # "fd"
        \/ /\ i \in DOMAIN line[active].requests
           /\ line'[active].requests[i] = line[active].requests[i]
  <2>1. line'[active].requests = Append(line[active].requests, msg)
    BY <1>2 DEF Sent, Told
  <2> QED BY <2>1, <1>3, SentSequence
<1> QED BY <1>1, <1>2, <1>6, <1>7, OutsideClone DEF past

LEMMA ForwardInv ==
  ASSUME IInv, Forward PROVE IInv'
<1>1. phase = "forward" /\ phase' = "moved" /\ ~Broken(active)
      /\ UNCHANGED <<active, paused, call, shown, recovering, past>>
  BY DEF Forward
<1>2. Sound /\ Shape("forward")
  BY <1>1, LiveShape
<1>3. active # None /\ active \in Sockets /\ (Quiet(active) \/ Stuck)
  BY <1>2, SoundTypes DEF Shape, ActiveShape, Cloning
<1>4. At(active) \in Times
  BY <1>2, <1>3, TypedLine DEF Sound, LineSet, At
<1>5. PICK n \in At(active)..call.target :
        Send(active, Msg("FORWARD", n - At(active)))
  BY DEF Forward, At
<1>6. n \in Times /\ At(active) <= n /\ n - At(active) \in 0..Total
  BY <1>2, <1>4, <1>5, SoundTypes, HandshakeAssumption DEF Times
<1> DEFINE msg == Msg("FORWARD", n - At(active))
<1>7. msg \in Requests /\ msg.cmd = "FORWARD"
  BY <1>6, MessageTypes DEF Msg
<1>8. /\ Sound' /\ (\A t \in Forks' : ForkShape("moved", t)')
      /\ ParentShape("moved")' /\ line'[active] = Sent(active, msg)
  <2> HIDE DEF msg
  <2>1. Send(active, msg) /\ msg.cmd # "fd"
    BY <1>5, <1>7 DEF msg
  <2> QED BY <1>1, <1>2, <1>3, <1>7, <2>1, ActiveSends DEF Phases, Cloning
<1>9. At(active)' = At(active)
  BY <1>1, <1>8 DEF At, Sent, Told
<1>10. CASE Quiet(active)
  <2>0. /\ line[active].requests = <<>> /\ line[active].answers = <<>>
        /\ line[active].state = "idle" /\ line[active].time = At(active)
        /\ Append(<<>>, msg) = <<msg>>
    BY <1>10, QuietHasNothing, ShortSequences
  <2>1. line'[active] = Told("idle", At(active), <<msg>>, <<>>, At(active))
    BY <1>8, <2>0 DEF Sent
  <2>2. Moving'
    BY <1>1, <1>6, <1>9, <2>1 DEF Moving
  <2>3. ActiveShape("moved")'
    BY <1>1, <1>3, <2>2 DEF ActiveShape
  <2> QED BY <1>1, <1>8, <2>3, LiveInv DEF Shape, LivePhases, Phases
<1>11. CASE Stuck
  <2>1. /\ line[active].answers = <<>> /\ line[active].state = "idle"
        /\ line[active].requests # <<>> /\ Head(line[active].requests).cmd = "QUIT"
    BY <1>1, <1>11 DEF Stuck, Quitting, Broken
  <2>2. line[active].requests \in Seq(Requests)
    BY <1>2, <1>3, TypedLine DEF Sound, LineSet
  <2>3. /\ Append(line[active].requests, msg) # <<>>
        /\ Head(Append(line[active].requests, msg)) = Head(line[active].requests)
    BY <2>1, <2>2
  <2>4. Stuck'
    BY <1>1, <1>8, <1>9, <1>11, <2>1, <2>3 DEF Stuck, Quitting, Sent, Told
  <2>5. ActiveShape("moved")'
    BY <1>1, <1>3, <2>4 DEF ActiveShape
  <2> QED BY <1>1, <1>8, <2>5, LiveInv DEF Shape, LivePhases, Phases
<1> QED BY <1>3, <1>10, <1>11

LEMMA ShowInv ==
  ASSUME IInv, Show PROVE IInv'
<1>1. phase = "show" /\ phase' = "shown" /\ ~Unmoved /\ ~Broken(active)
      /\ Send(active, ShowMsg)
      /\ UNCHANGED <<active, paused, call, shown, recovering, past>>
  BY DEF Show, ShowMsg
<1>2. Sound /\ Shape("show")
  BY <1>1, LiveShape
<1>3. active # None /\ active \in Sockets /\ Quiet(active)
  BY <1>1, <1>2, SoundTypes DEF Shape, ActiveShape, Cloning, Stuck, Unmoved, At
<1>4. ShowMsg \in Requests /\ ShowMsg.cmd # "fd"
  BY MessageTypes DEF ShowMsg, Msg
<1>5. /\ Sound' /\ (\A t \in Forks' : ForkShape("shown", t)')
      /\ ParentShape("shown")' /\ line'[active] = Sent(active, ShowMsg)
  BY <1>1, <1>2, <1>3, <1>4, ActiveSends DEF Phases, Cloning
<1>6. line'[active] = Told("idle", At(active), <<ShowMsg>>, <<>>, At(active))
  <2>1. /\ line[active].requests = <<>> /\ line[active].answers = <<>>
        /\ line[active].state = "idle" /\ line[active].time = At(active)
        /\ Append(<<>>, ShowMsg) = <<ShowMsg>>
    BY <1>3, QuietHasNothing, ShortSequences
  <2> QED BY <1>5, <2>1 DEF Sent
<1>7. ActiveShape("shown")'
  BY <1>1, <1>3, <1>6 DEF ActiveShape, Drawing, At, Told
<1> QED BY <1>1, <1>5, <1>7, LiveInv DEF Shape, LivePhases, Phases

\* An answer of the active process outside clone().
LEMMA ActiveReads ==
  ASSUME Sound, NEW ph, Shape(ph), ph \notin Cloning, active # None,
         NEW n \in Times,
         line[active] = Told("idle", n, <<>>, <<ReadyMsg(n)>>, At(active)),
         line' = ReadTimes(active), UNCHANGED <<active, paused, past>>,
         phase' \in Phases, shown' \in Times, recovering' \in BOOLEAN,
         call' \in [parent: Sockets \cup {None}, child: {None}, target: Times]
  PROVE  /\ Sound'
         /\ \A q : \A t \in Forks' : ForkShape(q, t)'
         /\ \A q : q \notin Cloning => ParentShape(q)'
         /\ Quiet(active)' /\ At(active)' = n
<1>1. active \in Sockets
  BY SoundTypes
<1>2. line[active].state = "idle" /\ line[active].time = n
      /\ line[active].requests = <<>> /\ line[active].answers = <<ReadyMsg(n)>>
  BY ToldFields
<1> DEFINE l == Told("idle", n, <<>>, <<>>, n)
<1>3. /\ line' = [line EXCEPT ![active] = l] /\ line'[active] = l
      /\ \A j \in Sockets \ {active} : line'[j] = line[j]
  <2>1. /\ line[active].answers # <<>> /\ Head(line[active].answers) = ReadyMsg(n)
        /\ Tail(line[active].answers) = <<>>
    BY <1>2, ShortSequences
  <2> DEFINE m == Told(line[active].state, line[active].time,
                       line[active].requests, Tail(line[active].answers), n)
  <2>2. m = l
    BY <1>2, <2>1
  <2>3. /\ ReadTimes(active) = [line EXCEPT ![active] = m]
        /\ ReadTimes(active)[active] = m
        /\ \A j \in Sockets \ {active} : ReadTimes(active)[j] = line[j]
    BY <1>1, <2>1, ReadTimesTold
  <2> HIDE DEF m, l
  <2> QED BY <2>2, <2>3
<1>4. TypeOK'
  <2>1. Told("idle", n, <<>>, <<>>, n) \in LineSet
    BY EmptySeq DEF Told, LineSet, States
  <2>2. line' \in [Sockets -> LineSet]
    BY <1>3, <2>1, SoundTypes
  <2> QED BY <2>2 DEF Sound, TypeOK, LineSet, States, past
<1>5. line'[active].requests = <<>> /\ call'.child = None
  BY <1>3, ToldFields
<1>6. Quiet(active)' /\ At(active)' = n
  BY <1>3 DEF Quiet, At, Told
<1> QED BY <1>1, <1>3, <1>4, <1>5, <1>6, OutsideClone DEF past

LEMMA MovedInv ==
  ASSUME IInv, Moved PROVE IInv'
<1>1. /\ phase = "moved" /\ Came(active, "READY") /\ line' = ReadTimes(active)
      /\ UNCHANGED <<active, paused, shown, recovering, past>>
      /\ \/ /\ At(active)' \notin Forks
            /\ phase' = "fork" /\ call' = [call EXCEPT !.parent = active]
         \/ phase' = "show" /\ UNCHANGED call
  BY DEF Moved, At
<1>2. Sound /\ Shape("moved")
  BY <1>1, LiveShape
<1>3. active # None /\ active \in Sockets /\ Moving
  BY <1>1, <1>2, SoundTypes DEF Shape, ActiveShape, Cloning, Stuck, Quitting, Came
<1>4. PICK n \in Times :
        line[active] = Told("idle", n, <<>>, <<ReadyMsg(n)>>, At(active))
  BY <1>1, <1>3, ToldFields DEF Moving, Came
<1>5. call.child = None
  BY <1>2 DEF Shape, ParentShape, Cloning, WithChild
<1>6. call' \in [parent: Sockets \cup {None}, child: {None}, target: Times]
      /\ call'.child = None
  BY <1>1, <1>2, <1>3, <1>5 DEF Sound, TypeOK
<1>7. /\ Sound' /\ (\A q : \A t \in Forks' : ForkShape(q, t)')
      /\ (\A q : q \notin Cloning => ParentShape(q)')
      /\ Quiet(active)' /\ At(active)' = n
  BY <1>1, <1>2, <1>3, <1>4, <1>6, ActiveReads, SoundTypes
     DEF Phases, Cloning
<1>8. CASE phase' = "show"
  <2>1. ActiveShape("show")'
    BY <1>1, <1>3, <1>7 DEF ActiveShape
  <2>2. Shape("show")'
    BY <1>7, <2>1 DEF Shape, Cloning
  <2> QED BY <1>7, <1>8, <2>2, LiveInv DEF LivePhases, Phases
<1>9. CASE /\ phase' = "fork" /\ At(active)' \notin Forks
           /\ call' = [call EXCEPT !.parent = active]
  <2>1. call'.parent = active /\ Forks' = Forks
    BY <1>1, <1>2, <1>9, ForksSame DEF Sound, TypeOK
  <2>2. ActiveShape("fork")'
    BY <1>1, <1>3, <1>9, <2>1 DEF ActiveShape, Cloning
  <2>3. ParentShape("fork")'
    BY <1>1, <1>6, <1>7, <2>1 DEF ParentShape, Handshake, WithChild
  <2>4. Shape("fork")'
    BY <1>7, <2>2, <2>3 DEF Shape
  <2> QED BY <1>7, <1>9, <2>4, LiveInv DEF LivePhases, Phases
<1> QED BY <1>1, <1>8, <1>9

LEMMA PromptInv ==
  ASSUME IInv, Prompt PROVE IInv'
<1>1. /\ phase = "shown" /\ Came(active, "READY") /\ line' = ReadTimes(active)
      /\ shown' = At(active) /\ phase' = "prompt" /\ recovering' = FALSE
      /\ UNCHANGED <<active, paused, past>>
      /\ call' \in [parent: Sockets \cup {None}, child: {None}, target: Times]
  BY TimesNat DEF Prompt, At, NoCall, past
<1>2. Sound /\ Shape("shown")
  BY <1>1, LiveShape
<1>3. active # None /\ active \in Sockets /\ Drawing
  BY <1>2, SoundTypes DEF Shape, ActiveShape, Cloning
<1>4. At(active) \in Times
  BY <1>2, <1>3, TypedLine DEF Sound, LineSet, At
<1>5. line[active] = Told("idle", At(active), <<>>, <<ReadyMsg(At(active))>>, At(active))
  BY <1>1, <1>3, ToldFields DEF Drawing, Came
<1>6. /\ Sound' /\ (\A t \in Forks' : ForkShape("prompt", t)') /\ ParentShape("prompt")'
      /\ Quiet(active)' /\ At(active)' = At(active)
  BY <1>1, <1>2, <1>3, <1>4, <1>5, ActiveReads DEF Phases, Cloning
<1>7. ActiveShape("prompt")'
  BY <1>1, <1>3, <1>6 DEF ActiveShape, Still
<1> QED BY <1>1, <1>6, <1>7, LiveInv DEF Shape, LivePhases, Phases

\* The active process was told to quit: the command fails, and nothing changed.
LEMMA ForwardFailsInv ==
  ASSUME IInv, ForwardFails PROVE IInv'
<1>1. /\ phase \in {"forward", "moved"}
      /\ phase' = IF recovering THEN "died" ELSE "show"
      /\ call' = [call EXCEPT !.child = None]
      /\ UNCHANGED <<active, paused, shown, recovering, past>>
  BY DEF ForwardFails, SendFails, ExpectFails, Raise
<1>2. Sound /\ Shape(phase)
  BY <1>1, LiveShape
<1>3. active # None /\ active \in Sockets /\ call.child = None
  BY <1>1, <1>2, SoundTypes DEF Shape, ActiveShape, ParentShape, Cloning, WithChild
<1>4. Stuck
  <2>1. CASE phase = "forward"
    <3>1. Broken(active)
      BY <2>1 DEF ForwardFails, SendFails
    <3>2. ~Quiet(active)
      BY <3>1, QuietHasNothing DEF Broken
    <3> QED BY <1>2, <1>3, <2>1, <3>2 DEF Shape, ActiveShape, Cloning
  <2>2. CASE phase = "moved"
    <3>1. Fails(active, "READY")
      BY <2>2 DEF ForwardFails, ExpectFails
    <3>2. ASSUME Moving PROVE FALSE
      <4>1. PICK n \in Times :
              \/ line[active] = Told("idle", At(active),
                                      <<Msg("FORWARD", n - At(active))>>, <<>>,
                                      At(active))
              \/ line[active] = Told("idle", n, <<>>, <<ReadyMsg(n)>>, At(active))
        BY <3>2 DEF Moving
      <4>2. line[active].state = "idle"
        BY <4>1, ToldFields
      <4>3. ~Broken(active)
        BY <4>2 DEF Broken
      <4>4. line[active].answers = <<ReadyMsg(n)>>
        BY <3>1, <4>1, <4>3, ToldFields DEF Fails
      <4>5. Head(line[active].answers).cmd = "READY" /\ line[active].answers # <<>>
        BY <4>4, ShortSequences DEF ReadyMsg, Msg
      <4> QED BY <3>1, <4>5 DEF Fails
    <3> QED BY <1>2, <1>3, <2>2, <3>2 DEF Shape, ActiveShape, Cloning
  <2> QED BY <1>1, <2>1, <2>2
<1>5. line' = line
  <2>1. Read(active) = line
    BY <1>4 DEF Stuck, Quitting, Read
  <2>2. Dropped({call.child}, line) = line
    BY <1>2, <1>3, SoundTypes, HandshakeAssumption DEF Dropped
  <2> QED BY <2>1, <2>2 DEF ForwardFails, SendFails, ExpectFails, Raise
<1>6. phase' = "show" /\ call' = call
  BY <1>1, <1>2, <1>3, <1>4 DEF Stuck, Sound, TypeOK
<1>7. call' \in [parent: Sockets \cup {None}, child: {None}, target: Times]
  BY <1>2, <1>3, <1>6 DEF Sound, TypeOK
<1>8. Sound' /\ (\A t \in Forks' : ForkShape("show", t)') /\ ParentShape("show")'
  BY <1>1, <1>2, <1>5, <1>6, <1>7, SameLines, SoundTypes DEF Phases, Cloning
<1>9. ActiveShape("show")'
  BY <1>1, <1>3, <1>4, <1>5, <1>6 DEF ActiveShape, Stuck, Quitting, At
<1> QED BY <1>6, <1>8, <1>9, LiveInv DEF Shape, LivePhases, Phases

LEMMA InterruptAgainInv ==
  ASSUME IInv, InterruptAgain PROVE IInv'
<1>1. /\ phase \notin {"died", "exited"} /\ phase' = "exited"
      /\ UNCHANGED <<line, active, paused, call, shown, recovering, past>>
  BY DEF InterruptAgain
<1>2. Sound /\ Shape(phase) /\ phase \in LivePhases
  BY <1>1, LiveShape
<1>3. PICK q \in LivePhases : q = phase
  BY <1>2
<1>4. Shape(q)'
  BY <1>1, <1>2, <1>3
     DEF Shape, ActiveShape, ParentShape, ForkShape, Still, Stuck, Quiet,
         Quitting, Moving, Drawing, Handshake, Loose, Running, At, Forks, past
<1>5. Sound'
  BY <1>1, <1>2 DEF Sound, TypeOK, Phases, Apart, OthersUnused, DescriptorOnce,
                    Held, Forks, past
<1> QED BY <1>1, <1>3, <1>4, <1>5, LiveInv

LEMMA StutterInv ==
  ASSUME IInv, UNCHANGED vars PROVE IInv'
<1>1. Sound'
  BY DEF IInv, Sound, TypeOK, Phases, Apart, OthersUnused, DescriptorOnce, Held,
         Forks, past, vars
<1>2. ASSUME NEW q, Shape(q) PROVE Shape(q)'
  <2>1. ActiveShape(q)'
    BY <1>2 DEF Shape, ActiveShape, Still, Stuck, Quiet, Quitting, Moving,
        Drawing, Handshake, Loose, Running, At, Forks, past, vars
  <2>2. ParentShape(q)'
    BY <1>2 DEF Shape, ParentShape, Still, Stuck, Quiet, Quitting, Moving,
        Drawing, Handshake, Loose, Running, At, Forks, past, vars
  <2>3. ASSUME NEW t \in Forks' PROVE ForkShape(q, t)'
    BY <1>2, <2>3 DEF Shape, ForkShape, Still, Stuck, Quiet, Quitting, Moving,
        Drawing, Handshake, Loose, Running, At, Forks, past, vars
  <2> QED BY <2>1, <2>2, <2>3 DEF Shape
<1> QED BY <1>1, <1>2 DEF IInv, vars

-----------------------------------------------------------------------------
\* A jump.
LEMMA EarlierForkIs ==
  ASSUME Sound
  PROVE  EarlierFork \in Forks
<1> DEFINE Gaps == {d \in Nat : \E t \in Forks : t <= call.target /\ d = call.target - t}
<1>1. call.target \in Nat /\ 1 \in Forks /\ 1 <= call.target
      /\ \A t \in Forks : t \in Nat
  BY SoundTypes, HandshakeAssumption DEF Times, Sound, Apart, Forks
<1>2. Gaps \in SUBSET Nat /\ call.target - 1 \in Gaps
  BY <1>1
<1>3. PICK d \in Gaps : \A e \in Gaps : d <= e
  BY <1>2, LeastExists
<1>4. PICK t \in Forks : t <= call.target /\ d = call.target - t
  BY <1>3
<1>5. ASSUME NEW u \in Forks, u <= call.target PROVE u <= t
  <2>1. call.target - u \in Gaps
    BY <1>1, <1>5
  <2> QED BY <1>1, <1>3, <1>4, <2>1
<1>6. \E f \in Forks :
        f <= call.target /\ \A u \in Forks : u <= call.target => u <= f
  BY <1>4, <1>5
<1> QED BY <1>6 DEF EarlierFork

LEMMA ResumeInv ==
  ASSUME IInv, Resume PROVE IInv'
<1> DEFINE p == paused[EarlierFork]
           quit == Msg("QUIT", 0)
<1>1. /\ phase = "resume" /\ phase' = "fork"
      /\ IF active = None \/ HasQuit(active) THEN UNCHANGED line
         ELSE Send(active, quit)
      /\ call' = [call EXCEPT !.parent = p]
      /\ UNCHANGED <<active, paused, shown, recovering, past>>
  BY DEF Resume
<1>2. Sound /\ Shape("resume")
  BY <1>1, LiveShape
<1>3. EarlierFork \in Forks /\ p \in Sockets /\ p # active /\ p # None
  BY <1>2, EarlierForkIs, ForkIs, HandshakeAssumption
<1>4. call.child = None /\ call'.child = None /\ call'.parent = p
      /\ call'.target = call.target
  BY <1>1, <1>2 DEF Shape, ParentShape, Cloning, WithChild, Sound, TypeOK
<1>5. \/ active = None /\ recovering
      \/ active # None /\ active \in Sockets /\ Still
  BY <1>2, SoundTypes DEF Shape, ActiveShape, Cloning
<1>6. ASSUME active # None, ~HasQuit(active)
      PROVE  Sound' /\ (\A q : \A t \in Forks' : ForkShape(q, t)') /\ Still'
  <2>1. Send(active, quit) /\ quit \in Requests /\ quit.cmd = "QUIT"
    BY <1>1, <1>6, MessageTypes DEF Msg
  <2> HIDE DEF quit
  <2>2. /\ line' = [line EXCEPT ![active] = Sent(active, quit)]
        /\ line'[active] = Sent(active, quit)
        /\ \A j \in Sockets \ {active} : line'[j] = line[j]
    BY <1>2, <1>5, <1>6, <2>1, SendTold
  <2>3. line[active] \in LineSet /\ line[active].requests \in Seq(Requests)
    BY <1>2, <1>5, <1>6, TypedLine DEF Sound, LineSet
  <2>4. Append(line[active].requests, quit) \in Seq(Requests)
    BY <2>1, <2>3, SequenceSteps
  <2>5. TypeOK'
    <3>1. Sent(active, quit) \in LineSet
      BY <2>3, <2>4 DEF Sent, Told, LineSet, At
    <3>2. line' \in [Sockets -> LineSet]
      BY <1>2, <2>2, <3>1, SoundTypes
    <3> QED BY <1>1, <1>2, <1>3, <3>2 DEF Sound, TypeOK, LineSet, States, past, Phases
  <2>6. \A i \in DOMAIN line'[active].requests :
          \/ line'[active].requests[i].cmd # "fd"
          \/ /\ i \in DOMAIN line[active].requests
             /\ line'[active].requests[i] = line[active].requests[i]
    <3>1. line'[active].requests = Append(line[active].requests, quit)
      BY <2>2 DEF Sent, Told
    <3> QED BY <2>1, <2>3, <3>1, SentSequence
  <2>7. Sound' /\ \A q : \A t \in Forks' : ForkShape(q, t)'
    BY <1>1, <1>2, <1>4, <2>2, <2>5, <2>6, OutsideClone DEF past, Cloning
  <2>8. At(active)' = At(active)
    BY <1>1, <2>2 DEF At, Sent, Told
  <2>9. Quitting(active)'
    <3>1. line[active].answers = <<>>
      BY <1>5, <1>6, QuietHasNothing DEF Still, Quitting
    <3>2. line[active].state = "idle"
      BY <1>5, <1>6, QuietHasNothing DEF Still, Quitting, HasQuit
    <3>3. line[active].requests = <<>> \/ Head(line[active].requests).cmd = "QUIT"
      BY <1>5, <1>6, <3>2, QuietHasNothing DEF Still, Quitting
    <3>4. /\ Append(line[active].requests, quit) # <<>>
          /\ line[active].requests = <<>> =>
               Head(Append(line[active].requests, quit)) = quit
          /\ line[active].requests # <<>> =>
               Head(Append(line[active].requests, quit)) = Head(line[active].requests)
      BY <2>1, <2>3
    <3> QED BY <1>1, <2>1, <2>2, <3>1, <3>2, <3>3, <3>4 DEF Quitting, Sent, Told
  <2>10. Still'
    BY <1>1, <1>5, <1>6, <2>8, <2>9 DEF Still
  <2> QED BY <2>7, <2>10
<1>7. ASSUME active = None \/ HasQuit(active)
      PROVE  /\ Sound' /\ \A q : \A t \in Forks' : ForkShape(q, t)'
             /\ active # None => Still'
  <2>1. line' = line
    BY <1>1, <1>7
  <2>2. call' \in [parent: Sockets \cup {None}, child: {None}, target: Times]
    BY <1>1, <1>2, <1>3, <1>4 DEF Sound, TypeOK
  <2>3. Sound' /\ \A q : \A t \in Forks' : ForkShape(q, t)'
    BY <1>1, <1>2, <2>1, <2>2, SameLines, SoundTypes DEF Phases, Cloning
  <2>4. active # None => Still'
    BY <1>1, <1>5, <2>1 DEF Still, Quiet, Quitting, At
  <2> QED BY <2>3, <2>4
<1>8. /\ Sound' /\ \A q : \A t \in Forks' : ForkShape(q, t)'
      /\ active # None => Still'
  BY <1>6, <1>7
<1>9. Forks' = Forks /\ cut' = cut
  BY <1>1, ForksSame DEF past
<1>10. ActiveShape("fork")'
  BY <1>1, <1>3, <1>4, <1>5, <1>8 DEF ActiveShape, Cloning
<1>11. ParentShape("fork")'
  <2>1. PICK f \in Forks : f = EarlierFork
    BY <1>3
  <2>2. ForkShape("resume", f)' /\ paused'[f] = p
    BY <1>1, <1>8, <1>9, <2>1
  <2>3. p \in cut \/ Quiet(call.parent)'
    BY <1>4, <1>9, <2>2 DEF ForkShape, Cloning
  <2> QED BY <1>1, <1>3, <1>4, <1>9, <2>2, <2>3
         DEF ParentShape, Handshake, WithChild, Cloning
<1> QED BY <1>1, <1>8, <1>10, <1>11, LiveInv DEF Shape, LivePhases, Phases

-----------------------------------------------------------------------------
(***************************************************************************)
(* clone().  The parent either keeps to the handshake, or is a fork whose  *)
(* own clone() was cut short before.                                       *)
(***************************************************************************)
LEMMA ParentIs ==
  ASSUME Sound, NEW ph, Shape(ph), ph \in Cloning
  PROVE  /\ call.parent \in Sockets /\ call.parent # call.child
         /\ call.parent # None /\ At(call.parent) \in Times
         /\ call.parent \in Held
         /\ call.parent \in cut =>
              call.parent # active /\ Loose(call.parent)
         /\ call.parent \notin cut => Handshake(ph) /\ Good(ph)
         /\ call.parent = active \/ \E t \in Forks : call.parent = paused[t]
<1>1. call.parent = active \/ \E t \in Forks : call.parent = paused[t]
  BY DEF Shape, ParentShape
<1>2. call.parent \in Sockets /\ call.parent # None
  BY <1>1, ForkIs, SoundTypes, HandshakeAssumption DEF Shape, ActiveShape
<1>3. call.parent # call.child /\ At(call.parent) \in Times
  BY <1>2, TypedLine DEF Sound, Apart, LineSet, At
<1>4. ASSUME call.parent \in cut
      PROVE  call.parent # active /\ Loose(call.parent)
  <2>1. PICK t \in Forks : paused[t] = call.parent
    BY <1>4 DEF Sound, Apart
  <2>2. ForkShape(ph, t)
    BY DEF Shape
  <2> QED BY <1>4, <2>1, <2>2, ForkIs DEF ForkShape
<1>5. call.parent \in Held
  BY <1>1, ForkIs DEF Held
<1> QED BY <1>1, <1>2, <1>3, <1>4, <1>5 DEF Shape, ParentShape, Good

LEMMA CloneGoesOn ==
  ASSUME Sound, NEW ph, Shape(ph), ph \in Cloning, NEW q, q \in Cloning,
         UNCHANGED <<active, paused, cut, shown, recovering>>,
         call'.parent = call.parent,
         \A t \in Forks : paused[t] # call'.child,
         active # None => active # call'.child,
         \A j \in Sockets \ {call.parent, call'.child} : line'[j] = line[j],
         At(call.parent)' = At(call.parent),
         call.parent \in cut => Loose(call.parent)',
         call.parent \notin cut => Handshake(q)',
         q \in WithChild <=> call'.child # None,
         q \in WithChild /\ call.parent \in cut =>
           line'[call'.child] \in {Unborn, Born(At(call.parent))}
  PROVE  Shape(q)'
<1> DEFINE p == call.parent
<1>1. Forks' = Forks /\ p \in Sockets
  BY ForksSame, ParentIs
<1>2. ActiveShape(q)'
  <2>1. CASE active = p
    BY <1>1, <2>1 DEF Shape, ActiveShape, Cloning
  <2>2. CASE active # p /\ active # None
    <3>1. line'[active] = line[active] /\ Still
      BY <2>2, SoundTypes DEF Shape, ActiveShape, Cloning
    <3> QED BY <2>2, <3>1 DEF ActiveShape, Still, Quiet, Quitting, At
  <2>3. CASE active = None
    BY <1>1, <2>3, HandshakeAssumption DEF Shape, ActiveShape
  <2> QED BY <2>1, <2>2, <2>3
<1>3. ParentShape(q)'
  BY <1>1 DEF Shape, ParentShape, Cloning, WithChild
<1>4. ASSUME NEW t \in Forks PROVE ForkShape(q, t)'
  <2>1. ForkShape(ph, t)
    BY DEF Shape
  <2>2. CASE paused[t] = p
    BY <2>1, <2>2 DEF ForkShape
  <2>3. CASE paused[t] # p
    <3>1. line'[paused[t]] = line[paused[t]]
      BY <2>3, ForkIs
    <3> QED BY <2>1, <2>3, <3>1 DEF ForkShape, Loose, Quiet, Running, At
  <2> QED BY <2>2, <2>3
<1> QED BY <1>1, <1>2, <1>3, <1>4 DEF Shape

LEMMA SendForkInv ==
  ASSUME IInv, SendFork PROVE IInv'
<1> DEFINE p == call.parent
<1>1. /\ phase = "fork" /\ phase' = "fds" /\ ~Broken(p) /\ Send(p, ForkMsg)
      /\ UNCHANGED <<active, paused, call, shown, recovering, past>>
  BY DEF SendFork, ForkMsg
<1>2. Sound /\ Shape("fork")
  BY <1>1, LiveShape
<1>3. /\ p \in Sockets /\ p # call.child /\ At(p) \in Times
      /\ p \in cut => p # active /\ Loose(p)
      /\ p \notin cut => Handshake("fork")
  BY <1>2, ParentIs DEF Cloning
<1>4. call.child = None
  BY <1>2 DEF Shape, ParentShape, WithChild
<1>5. /\ line' = [line EXCEPT ![p] = Sent(p, ForkMsg)]
      /\ line'[p] = Sent(p, ForkMsg)
      /\ \A j \in Sockets \ {p} : line'[j] = line[j]
  BY <1>1, <1>2, <1>3, SendTold
<1>6. line[p] \in LineSet /\ line[p].requests \in Seq(Requests)
  BY <1>2, <1>3, TypedLine DEF Sound, LineSet
<1>7. Sound'
  <2>1. Append(line[p].requests, ForkMsg) \in Seq(Requests)
    BY <1>6, MessageTypes, SequenceSteps
  <2>2. Sent(p, ForkMsg) \in LineSet
    BY <1>6, <2>1 DEF Sent, Told, LineSet, At
  <2>3. line' \in [Sockets -> LineSet]
    BY <1>2, <1>5, <2>2, SoundTypes
  <2>4. TypeOK'
    BY <1>1, <1>2, <2>3 DEF Sound, TypeOK, LineSet, States, past, Phases
  <2>5. Forks' = Forks /\ Held' = Held
    BY <1>1, HeldSame, ForksSame
  <2>6. Apart'
    BY <1>1, <1>2, <2>5 DEF Sound, Apart, past
  <2>7. OthersUnused'
    BY <1>2, <1>5, <2>5, ParentIs DEF Sound, OthersUnused, Cloning
  <2>8. DescriptorOnce'
    <3> SUFFICES ASSUME NEW k \in Sockets, NEW i \in DOMAIN line'[k].requests,
                        NEW j \in Held \ {None}
                 PROVE  line'[k].requests[i] # FdMsg(j)
      BY <2>5 DEF DescriptorOnce
    <3>1. CASE k # p
      BY <1>2, <1>4, <1>5, <3>1, NoDescriptor
    <3>2. CASE k = p
      <4>1. line'[p].requests = Append(line[p].requests, ForkMsg)
        BY <1>5 DEF Sent, Told
      <4>2. ForkMsg # FdMsg(j)
        BY DEF ForkMsg, FdMsg, Msg
      <4> QED BY <1>2, <1>4, <1>6, <3>2, <4>1, <4>2, SentSequence, NoDescriptor
    <3> QED BY <3>1, <3>2
  <2> QED BY <2>4, <2>6, <2>7, <2>8 DEF Sound
<1>8. At(p)' = At(p)
  BY <1>1, <1>5 DEF At, Sent, Told
<1>9. ASSUME p \in cut PROVE Loose(p)'
  <2>1. ForkMsg \in ForkRequests
    BY DEF ForkRequests
  <2>2. Append(line[p].requests, ForkMsg) \in Seq(ForkRequests)
    BY <1>3, <1>9, <2>1, SequenceSteps DEF Loose
  <2> QED BY <1>1, <1>3, <1>5, <1>8, <1>9, <2>2 DEF Loose, Running, Sent, Told
<1>10. ASSUME p \notin cut PROVE Handshake("fds")'
  <2>1. Quiet(p)
    BY <1>3, <1>10 DEF Handshake
  <2>2. line'[p] = Told("idle", At(p), <<ForkMsg>>, <<>>, At(p))
    <3>1. /\ line[p].requests = <<>> /\ line[p].answers = <<>>
          /\ line[p].state = "idle" /\ line[p].time = At(p)
      BY <2>1, QuietHasNothing
    <3>2. Append(<<>>, ForkMsg) = <<ForkMsg>>
      BY ShortSequences
    <3> QED BY <1>5, <3>1, <3>2 DEF Sent
  <2> QED BY <1>1, <1>8, <2>2 DEF Handshake
<1>11. Shape("fds")'
  BY <1>1, <1>2, <1>3, <1>4, <1>5, <1>8, <1>9, <1>10, ForkIs, CloneGoesOn,
     HandshakeAssumption DEF Cloning, WithChild, past
<1> QED BY <1>1, <1>7, <1>11, LiveInv DEF LivePhases, Phases

LEMMA SendFdsInv ==
  ASSUME IInv, SendFds PROVE IInv'
<1> DEFINE p == call.parent
<1>0. PICK c : c = CHOOSE k \in Fresh : \A j \in Fresh : k <= j
  OBVIOUS
<1>1. /\ phase = "fds" /\ phase' = "forked" /\ ~Broken(p) /\ Fresh # {}
      /\ line' = [line EXCEPT ![p].requests = Append(@, FdMsg(c)), ![c] = Unborn]
      /\ call' = [call EXCEPT !.child = c]
      /\ UNCHANGED <<active, paused, shown, recovering, past>>
  BY <1>0 DEF SendFds, FdMsg, Line, Unborn, Told
<1>2. Sound /\ Shape("fds")
  BY <1>1, LiveShape
<1>3. /\ p \in Sockets /\ p # call.child /\ At(p) \in Times /\ p \in Held
      /\ p \in cut => p # active /\ Loose(p)
      /\ p \notin cut => Handshake("fds")
  BY <1>2, ParentIs DEF Cloning
<1>4. call.child = None
  BY <1>2 DEF Shape, ParentShape, WithChild
<1>5. c \in Fresh
  <2>1. Fresh \in SUBSET Nat
    BY DEF Fresh, Sockets
  <2>2. \E k \in Fresh : \A j \in Fresh : k <= j
    BY <1>1, <2>1, LeastExists
  <2> QED BY <1>0, <2>2
<1>6. c \in Sockets /\ c \notin Held /\ ~Travelling(c) /\ c # p /\ c # None
  BY <1>3, <1>5, HandshakeAssumption DEF Fresh
<1>7. line \in [Sockets -> LineSet] /\ line[p] \in LineSet
      /\ line[p].requests \in Seq(Requests)
  BY <1>2, <1>3, TypedLine DEF Sound, LineSet
<1>8. /\ line' = [line EXCEPT ![p] = Sent(p, FdMsg(c)), ![c] = Unborn]
      /\ line'[p] = Sent(p, FdMsg(c)) /\ line'[c] = Unborn
      /\ \A j \in Sockets \ {p, c} : line'[j] = line[j]
  <2> DEFINE l == [line[p] EXCEPT !.requests = Append(@, FdMsg(c))]
  <2>1. l = WithRequests(line[p], Append(line[p].requests, FdMsg(c)))
    BY DEF WithRequests
  <2>2. l = Sent(p, FdMsg(c))
    BY <1>2, <1>3, <2>1, TypedLine, WithTold DEF Sound, Sent, At
  <2>3. line' = [line EXCEPT ![p] = l, ![c] = Unborn]
    BY <1>1, <1>6, <1>7
  <2> HIDE DEF l
  <2> QED BY <1>3, <1>6, <1>7, <2>2, <2>3
<1>8a. /\ line'[p].requests = Append(line[p].requests, FdMsg(c))
       /\ line'[p].state = line[p].state /\ line'[p].time = line[p].time
       /\ line'[p].answers = line[p].answers /\ line'[p].stub = line[p].stub
  <2> DEFINE r == Append(line[p].requests, FdMsg(c))
  <2>1. line'[p] = Told(line[p].state, line[p].time, r, line[p].answers, At(p))
    BY <1>8 DEF Sent
  <2> HIDE DEF r
  <2>2. /\ line'[p].requests = r
        /\ line'[p].state = line[p].state /\ line'[p].time = line[p].time
        /\ line'[p].answers = line[p].answers /\ line'[p].stub = line[p].stub
    BY <2>1, ToldFields DEF At
  <2> QED BY <2>2 DEF r
<1>9. /\ call'.parent = p /\ call'.child = c /\ call'.target = call.target
      /\ call' \in [parent: Sockets \cup {None}, child: Sockets \cup {None},
                    target: Times]
  BY <1>1, <1>2, <1>6 DEF Sound, TypeOK
<1>10. Sound'
  <2>1. Append(line[p].requests, FdMsg(c)) \in Seq(Requests)
    BY <1>6, <1>7, MessageTypes, SequenceSteps
  <2>2. Sent(p, FdMsg(c)) \in LineSet /\ Unborn \in LineSet
    BY <1>7, <2>1, TimesNat, EmptySeq DEF Sent, Told, LineSet, At, Unborn, States
  <2>3. line' \in [Sockets -> LineSet]
    BY <1>7, <1>8, <2>2
  <2>4. TypeOK'
    BY <1>1, <1>2, <1>9, <2>3 DEF Sound, TypeOK, LineSet, States, past, Phases
  <2>5. Forks' = Forks
    BY <1>1, ForksSame
  <2>6. Held' \ {None} = (Held \ {None}) \cup {c}
    BY <1>1, <1>4, <1>6, <1>9 DEF Held
  <2>7. Apart'
    <3>1. \A t \in Forks : paused[t] # c
      BY <1>2, <1>6, ForkIs DEF Held
    <3>2. c # active
      BY <1>6 DEF Held
    <3> QED BY <1>1, <1>2, <1>6, <1>9, <2>5, <3>1, <3>2 DEF Sound, Apart, past
  <2>8. OthersUnused'
    <3> SUFFICES ASSUME NEW k \in Sockets, k \notin Held' PROVE line'[k] = Unused
      BY DEF OthersUnused, Unused, Line
    <3>1. k \notin Held /\ k # c /\ k # p
      BY <1>3, <1>6, <2>6, HandshakeAssumption
    <3> QED BY <1>2, <1>8, <3>1 DEF Sound, OthersUnused
  <2>9. DescriptorOnce'
    <3> SUFFICES ASSUME NEW k \in Sockets, NEW i \in DOMAIN line'[k].requests,
                        NEW j \in Held' \ {None}, line'[k].requests[i] = FdMsg(j)
                 PROVE  /\ k = p /\ j = c /\ i = Len(line'[k].requests)
                        /\ line'[j] = Unborn
      BY <1>9 DEF DescriptorOnce
    <3>1. ASSUME NEW m \in DOMAIN line[k].requests
          PROVE  line[k].requests[m] # FdMsg(j)
      <4>1. CASE j = c
        BY <1>6, <4>1 DEF Travelling, FdMsg
      <4>2. CASE j # c
        BY <1>2, <1>4, <2>6, <4>2, NoDescriptor
      <4> QED BY <4>1, <4>2
    <3>2. k = p
      <4>1. k # c
        BY <1>8 DEF Unborn, Told
      <4> QED BY <1>8, <3>1, <4>1
    <3>3. line'[p].requests = Append(line[p].requests, FdMsg(c))
      BY <1>8a
    <3>4. i = Len(line[p].requests) + 1 /\ FdMsg(c) = FdMsg(j)
      BY <1>7, <3>1, <3>2, <3>3, SentSequence
    <3>5. j = c
      BY <3>4 DEF FdMsg, Msg
    <3>6. i = Len(line'[k].requests)
      BY <1>7, <3>2, <3>3, <3>4, SentSequence
    <3> QED BY <1>8, <3>2, <3>5, <3>6
  <2> QED BY <2>4, <2>7, <2>8, <2>9 DEF Sound
<1>11. At(p)' = At(p)
  BY <1>9, <1>8 DEF At, Sent, Told
<1>12. ASSUME p \in cut PROVE Loose(p)'
  <2>1. FdMsg(c) \in ForkRequests
    BY <1>6 DEF ForkRequests
  <2>2. Append(line[p].requests, FdMsg(c)) \in Seq(ForkRequests)
    BY <1>3, <1>12, <2>1, SequenceSteps DEF Loose
  <2> QED BY <1>3, <1>9, <1>11, <1>12, <1>8a, <2>2 DEF Loose, Running
<1>13. ASSUME p \notin cut PROVE Handshake("forked")'
  <2>1. \/ line[p] = Told("idle", At(p), <<ForkMsg>>, <<>>, At(p))
        \/ line[p] = Told("fetching", At(p), <<>>, <<>>, At(p))
    BY <1>3, <1>13 DEF Handshake
  <2>2. \/ line'[p] = Told("idle", At(p), <<ForkMsg, FdMsg(c)>>, <<>>, At(p))
        \/ line'[p] = Told("fetching", At(p), <<FdMsg(c)>>, <<>>, At(p))
    <3>1. CASE line[p] = Told("idle", At(p), <<ForkMsg>>, <<>>, At(p))
      BY <1>8, <3>1, AppendSecond DEF Sent, Told
    <3>2. CASE line[p] = Told("fetching", At(p), <<>>, <<>>, At(p))
      BY <1>8, <3>2, ShortSequences DEF Sent, Told
    <3> QED BY <2>1, <3>1, <3>2
  <2> QED BY <1>8, <1>9, <1>11, <2>2 DEF Handshake, FdMsg
<1>14. Shape("forked")'
  <2>1. /\ \A t \in Forks : paused[t] # call'.child
        /\ active # call'.child
    BY <1>2, <1>6, <1>9, ForkIs DEF Held
  <2> QED BY <1>1, <1>2, <1>3, <1>6, <1>8, <1>9, <1>11, <1>12, <1>13, <2>1,
             CloneGoesOn DEF Cloning, WithChild, past
<1> QED BY <1>1, <1>10, <1>14, LiveInv DEF LivePhases, Phases

\* An answer of the parent is read.
LEMMA ParentAnswers ==
  ASSUME Sound, NEW ph \in {"forked", "ready"}, Shape(ph),
         NEW q \in {"ready", "child"}, NEW p, p = call.parent,
         line[p].answers # <<>>,
         line' = [line EXCEPT ![p] =
           Told(line[p].state, line[p].time, line[p].requests,
                Tail(line[p].answers), At(p))],
         UNCHANGED <<active, paused, call, shown, recovering, past>>,
         phase' \in Phases,
         p \notin cut => Handshake(q)'
  PROVE  Sound' /\ Shape(q)'
<1>1. /\ p \in Sockets /\ p # call.child /\ At(p) \in Times /\ p \in Held
      /\ p \in cut => p # active /\ Loose(p)
  BY ParentIs DEF Cloning
<1>2. /\ line \in [Sockets -> LineSet] /\ line[p] \in LineSet
      /\ line[p].answers \in Seq(Answers)
  BY <1>1, TypedLine DEF Sound, LineSet
<1> DEFINE l == Told(line[p].state, line[p].time, line[p].requests,
                     Tail(line[p].answers), At(p))
<1>3. /\ line'[p] = l /\ \A j \in Sockets \ {p} : line'[j] = line[j]
  BY <1>1, <1>2
<1>4. /\ line'[p].state = line[p].state /\ line'[p].time = line[p].time
      /\ line'[p].requests = line[p].requests
      /\ line'[p].answers = Tail(line[p].answers) /\ line'[p].stub = line[p].stub
  BY <1>3, ToldFields DEF At
<1>5. At(p)' = At(p)
  BY <1>4 DEF At
<1>6. call.child # None /\ call.child \in Sockets /\ call.child # active
  <2>1. call.child # None
    BY DEF Shape, ParentShape, WithChild
  <2> QED BY <2>1, SoundTypes DEF Sound, Apart
<1>7. Sound'
  <2>1. l \in LineSet
    <3>1. Tail(line[p].answers) \in Seq(Answers)
      BY <1>2, ReadSequence
    <3> QED BY <1>2, <3>1 DEF LineSet, Told, At
  <2>2. line' \in [Sockets -> LineSet]
    BY <1>2, <2>1
  <2>3. TypeOK'
    BY <2>2 DEF Sound, TypeOK, LineSet, States, past
  <2>4. Forks' = Forks /\ Held' = Held
    BY HeldSame, ForksSame
  <2>5. Apart'
    BY <2>4 DEF Sound, Apart, past
  <2>6. OthersUnused'
    BY <1>1, <1>3, <2>4 DEF Sound, OthersUnused
  <2>7. DescriptorOnce'
    <3> SUFFICES ASSUME NEW k \in Sockets, NEW i \in DOMAIN line'[k].requests,
                        NEW j \in Held' \ {None},
                        line'[k].requests[i] = FdMsg(j)
                 PROVE  /\ k = call'.parent /\ j = call'.child
                        /\ i = Len(line'[k].requests) /\ line'[j] = Unborn
      BY DEF DescriptorOnce
    <3>1. line'[k].requests = line[k].requests
      BY <1>3, <1>4
    <3>2. j \in Held \ {None} /\ call' = call
      BY <2>4
    <3>3. /\ k = call.parent /\ j = call.child
          /\ i = Len(line[k].requests) /\ line[j] = Unborn
      BY <3>1, <3>2 DEF Sound, DescriptorOnce
    <3> QED BY <1>1, <1>3, <1>6, <3>1, <3>2, <3>3
  <2> QED BY <2>3, <2>5, <2>6, <2>7 DEF Sound
<1>8. ASSUME p \in cut PROVE Loose(p)'
  <2>1. Tail(line[p].answers) \in Seq({ForkedMsg, ReadyMsg(At(p))})
    BY <1>1, <1>8, ReadSequence DEF Loose
  <2> QED BY <1>1, <1>4, <1>5, <1>8, <2>1 DEF Loose, Running
<1>9. ASSUME p \in cut PROVE line'[call.child] \in {Unborn, Born(At(p))}
  <2>1. line[call.child] \in {Unborn, Born(At(p))}
    BY <1>6, ChildShape DEF Shape
  <2> QED BY <1>1, <1>3, <1>6, <2>1
<1>10. Shape(q)'
  BY <1>3, <1>5, <1>6, <1>8, <1>9, ForkIs, CloneGoesOn DEF Cloning, WithChild, past
<1> QED BY <1>7, <1>10

LEMMA ExpectForkedInv ==
  ASSUME IInv, ExpectForked PROVE IInv'
<1>1. PICK p : p = call.parent
  OBVIOUS
<1>2. /\ phase = "forked" /\ phase' = "ready" /\ Came(p, "FORKED")
      /\ line' = Read(p)
      /\ UNCHANGED <<active, paused, call, shown, recovering, past>>
  BY <1>1 DEF ExpectForked, ReadForked
<1>3. Sound /\ Shape("forked")
  BY <1>2, LiveShape
<1>4. /\ p \in Sockets /\ p # call.child
      /\ p \notin cut => Handshake("forked") /\ Good("forked")
  BY <1>1, <1>3, ParentIs DEF Cloning
<1>5. line[p].answers # <<>>
  BY <1>2 DEF Came
<1> DEFINE l == Told(line[p].state, line[p].time, line[p].requests,
                     Tail(line[p].answers), At(p))
<1>6. /\ line' = [line EXCEPT ![p] = l] /\ line'[p] = l
      /\ \A j \in Sockets \ {p} : line'[j] = line[j]
  BY <1>2, <1>3, <1>4, <1>5, ReadTold
<1>7. ASSUME p \notin cut PROVE Handshake("ready")'
  <2>1. /\ line[call.child] = Born(At(p))
        /\ line[p] = Told("idle", At(p), <<>>, <<ForkedMsg, ReadyMsg(At(p))>>, At(p))
    BY <1>1, <1>4, <1>5, <1>7, ToldFields DEF Handshake
  <2>2. l = Told("idle", At(p), <<>>, <<ReadyMsg(At(p))>>, At(p))
    BY <2>1, ShortSequences DEF Told
  <2>3. At(p)' = At(p)
    BY <1>6 DEF At, Told
  <2>4. call.child \in Sockets
    BY <1>3, <1>4, <1>7, GoodParent DEF WithChild
  <2>5. line'[call.child] = Born(At(p))
    BY <1>4, <1>6, <2>1, <2>4
  <2> QED BY <1>1, <1>2, <1>6, <2>2, <2>3, <2>5 DEF Handshake
<1>8. Sound' /\ Shape("ready")'
  BY <1>1, <1>2, <1>3, <1>5, <1>6, <1>7, ParentAnswers DEF Phases
<1> QED BY <1>2, <1>8, LiveInv DEF LivePhases, Phases

LEMMA ExpectReadyInv ==
  ASSUME IInv, ExpectReady PROVE IInv'
<1>1. PICK p : p = call.parent
  OBVIOUS
<1>2. /\ phase = "ready" /\ phase' = "child" /\ Came(p, "READY")
      /\ line' = ReadTimes(p)
      /\ UNCHANGED <<active, paused, call, shown, recovering, past>>
  BY <1>1 DEF ExpectReady, ReadReady
<1>3. Sound /\ Shape("ready")
  BY <1>2, LiveShape
<1>4. /\ p \in Sockets /\ p # call.child /\ (p \in cut => Loose(p))
      /\ p \notin cut => Handshake("ready") /\ Good("ready")
  BY <1>1, <1>3, ParentIs DEF Cloning
<1>5. line[p].answers # <<>> /\ Head(line[p].answers).cmd = "READY"
  BY <1>2 DEF Came
<1> DEFINE l == Told(line[p].state, line[p].time, line[p].requests,
                     Tail(line[p].answers), At(p))
<1>6. p \notin cut =>
        /\ line[call.child] = Born(At(p))
        /\ line[p] = Told("idle", At(p), <<>>, <<ReadyMsg(At(p))>>, At(p))
  BY <1>1, <1>4 DEF Handshake
<1>7. Head(line[p].answers) = ReadyMsg(At(p))
  <2>1. CASE p \in cut
    <3>1. Head(line[p].answers) \in {ForkedMsg, ReadyMsg(At(p))}
      BY <1>4, <1>5, <2>1, ReadSequence DEF Loose
    <3>2. ForkedMsg.cmd = "FORKED"
      BY DEF ForkedMsg, Msg
    <3> QED BY <1>5, <3>1, <3>2
  <2>2. CASE p \notin cut
    BY <1>6, <2>2, ToldFields, ShortSequences
  <2> QED BY <2>1, <2>2
<1>8. /\ line' = [line EXCEPT ![p] = l] /\ line'[p] = l
      /\ \A j \in Sockets \ {p} : line'[j] = line[j]
  BY <1>2, <1>3, <1>4, <1>5, <1>7, ReadTimesTold
<1>9. ASSUME p \notin cut PROVE Handshake("child")'
  <2>1. l = Told("idle", At(p), <<>>, <<>>, At(p))
    <3>1. /\ line[p].state = "idle" /\ line[p].time = At(p)
          /\ line[p].requests = <<>> /\ line[p].answers = <<ReadyMsg(At(p))>>
      BY <1>6, <1>9, ToldFields
    <3>2. Tail(line[p].answers) = <<>>
      BY <3>1, ShortSequences
    <3> QED BY <3>1, <3>2
  <2>2. At(p)' = At(p)
    BY <1>8 DEF At, Told
  <2>3. call.child \in Sockets
    BY <1>3, <1>4, <1>9, GoodParent DEF WithChild
  <2>4. line'[call.child] = Born(At(p))
    BY <1>4, <1>6, <1>8, <1>9, <2>3
  <2>5. Quiet(p)'
    BY <1>8, <2>1, <2>2 DEF Quiet
  <2> QED BY <1>1, <1>2, <2>2, <2>4, <2>5 DEF Handshake
<1>10. Sound' /\ Shape("child")'
  BY <1>1, <1>2, <1>3, <1>5, <1>8, <1>9, ParentAnswers DEF Phases
<1> QED BY <1>2, <1>10, LiveInv DEF LivePhases, Phases

\* The child answers: it is kept under its time, or becomes the active process.
LEMMA ExpectChildInv ==
  ASSUME IInv, ExpectChild PROVE IInv'
<1>1. PICK p, c, u : p = call.parent /\ c = call.child /\ u = At(p)
  OBVIOUS
<1>2. /\ phase = "child" /\ phase' = "forward" /\ Came(c, "READY")
      /\ call' = [call EXCEPT !.parent = None, !.child = None]
      /\ UNCHANGED <<shown, recovering, past>>
      /\ \/ /\ p = active /\ line' = ReadTimes(c)
            /\ paused' = [paused EXCEPT ![line'[c].stub] = c]
            /\ active' = active
         \/ /\ p # active /\ line' = Dropped({active}, ReadTimes(c))
            /\ active' = c /\ paused' = paused
  BY <1>1 DEF ExpectChild, ActivateChild
<1>3. Sound /\ Shape("child")
  BY <1>2, LiveShape
<1>4. /\ p \in Sockets /\ p # c /\ p # None /\ u \in Times /\ p \in Held
      /\ p \in cut => p # active /\ Loose(p)
      /\ p \notin cut => Handshake("child")
      /\ p = active \/ \E t \in Forks : p = paused[t]
  BY <1>1, <1>3, ParentIs DEF Cloning
<1>5. c # None /\ c \in Sockets /\ c # active /\ c \in Held
  <2>1. c # None
    BY <1>1, <1>3 DEF Shape, ParentShape, WithChild
  <2> QED BY <1>1, <1>3, <2>1, SoundTypes DEF Sound, Apart, Held
<1>6. line[c] = Born(u)
  <2>1. line[c] \in {Unborn, Born(u)}
    BY <1>1, <1>3, <1>5, ChildShape DEF Shape
  <2>2. Unborn.answers = <<>>
    BY DEF Unborn, Told
  <2> QED BY <1>2, <2>1, <2>2 DEF Came
<1> DEFINE l == Told("idle", u, <<>>, <<>>, u)
<1>7. /\ ReadTimes(c) = [line EXCEPT ![c] = l] /\ ReadTimes(c)[c] = l
      /\ \A j \in Sockets \ {c} : ReadTimes(c)[j] = line[j]
  <2>1. /\ line[c].state = "idle" /\ line[c].time = u /\ line[c].requests = <<>>
        /\ line[c].answers = <<ReadyMsg(u)>>
    BY <1>6, ToldFields DEF Born
  <2>2. /\ line[c].answers # <<>> /\ Head(line[c].answers) = ReadyMsg(u)
        /\ Tail(line[c].answers) = <<>>
    BY <2>1, ShortSequences
  <2>3. PICK m : m = Told(line[c].state, line[c].time, line[c].requests,
                          Tail(line[c].answers), u)
    OBVIOUS
  <2>4. m = l
    BY <2>1, <2>2, <2>3
  <2>5. /\ ReadTimes(c) = [line EXCEPT ![c] = m] /\ ReadTimes(c)[c] = m
        /\ \A j \in Sockets \ {c} : ReadTimes(c)[j] = line[j]
    BY <1>3, <1>5, <2>2, <2>3, ReadTimesTold
  <2> HIDE DEF l
  <2> QED BY <2>4, <2>5
<1>8. l \in LineSet /\ l.stub = u /\ l.requests = <<>> /\ l.state = "idle"
  BY <1>4, EmptySeq DEF Told, LineSet, States
<1> HIDE DEF l
<1>9. line \in [Sockets -> LineSet]
  BY <1>3, SoundTypes
<1>10. /\ call'.parent = None /\ call'.child = None
       /\ call' \in [parent: Sockets \cup {None}, child: Sockets \cup {None},
                     target: Times]
  BY <1>2, <1>3 DEF Sound, TypeOK
<1>11. ASSUME NEW k \in Sockets, NEW i \in DOMAIN line[k].requests,
              NEW j \in Held \ {None}
       PROVE  line[k].requests[i] # FdMsg(j)
  <2>1. line[c] # Unborn
    BY <1>6 DEF Born, Unborn, Told
  <2> QED BY <1>1, <1>3, <2>1 DEF Sound, DescriptorOnce
<1>12. ParentShape("forward")'
  BY <1>10 DEF ParentShape, WithChild, Cloning
<1>13. ASSUME NEW t \in Forks
       PROVE  /\ At(paused[t]) = t
              /\ paused[t] \in cut => Loose(paused[t])
              /\ paused[t] \notin cut => Quiet(paused[t])
  <2>1. ForkShape("child", t)
    BY <1>3 DEF Shape
  <2>2. p \notin cut => Quiet(p)
    BY <1>1, <1>4 DEF Handshake
  <2> QED BY <1>1, <2>1, <2>2 DEF ForkShape
<1>14. CASE p = active
  <2>1. /\ line' = [line EXCEPT ![c] = l] /\ line'[c] = l
        /\ \A j \in Sockets \ {c} : line'[j] = line[j]
        /\ active' = active
    BY <1>2, <1>7, <1>14
  <2>2. paused' = [paused EXCEPT ![u] = c]
    BY <1>2, <1>8, <1>14, <2>1
  <2>3. u \notin Forks /\ active # None
    BY <1>1, <1>3, <1>4, <1>14 DEF Shape, ActiveShape, Cloning
  <2>4. paused' \in [Times -> Sockets \cup {None}] /\ paused'[u] = c
        /\ \A t \in Times \ {u} : paused'[t] = paused[t]
    BY <1>3, <1>4, <1>5, <2>2, SoundTypes
  <2>5. Forks' = Forks \cup {u}
    BY <1>4, <1>5, <2>4 DEF Forks
  <2>6. Held' \ {None} \subseteq Held /\ Held \subseteq Held' \cup {None}
    <3>1. u \in Times /\ \A t \in Times : paused'[t] = c \/ paused'[t] = paused[t]
      BY <1>4, <2>4
    <3>2. Held' \ {None} \subseteq Held
      BY <1>5, <1>10, <2>1, <3>1 DEF Held
    <3>3. paused[u] = None
      BY <1>4, <2>3 DEF Forks
    <3>4. Held \subseteq Held' \cup {None}
      <4> SUFFICES ASSUME NEW k \in Held, k # None PROVE k \in Held'
        OBVIOUS
      <4>1. CASE k = active
        BY <2>1, <4>1 DEF Held
      <4>2. CASE k = c
        BY <1>4, <2>4, <4>2 DEF Held
      <4>3. CASE \E t \in Times : k = paused[t]
        BY <2>4, <3>3, <4>3 DEF Held
      <4> QED BY <1>1, <4>1, <4>2, <4>3 DEF Held
    <3> QED BY <3>2, <3>4
  <2>7. TypeOK'
    <3>1. line' \in [Sockets -> LineSet]
      BY <1>8, <1>9, <2>1
    <3> QED BY <1>2, <1>3, <1>10, <2>1, <2>4, <3>1
            DEF Sound, TypeOK, LineSet, States, past, Phases
  <2>8. Apart'
    <3>1. \A t \in Forks : paused[t] # c /\ paused[t] # active /\ t \in Times /\ t # u
                           /\ paused[t] \in Sockets
      BY <1>1, <1>3, <2>3, ForkIs
    <3>2. \A t \in Forks : paused'[t] = paused[t]
      BY <2>4, <3>1
    <3> QED BY <1>2, <1>3, <1>5, <1>10, <2>1, <2>4, <2>5, <3>1, <3>2, HandshakeAssumption
            DEF Sound, Apart, past
  <2>9. OthersUnused'
    BY <1>3, <1>5, <2>1, <2>6, HandshakeAssumption DEF Sound, OthersUnused, Unused, Line
  <2>10. DescriptorOnce'
    <3> SUFFICES ASSUME NEW k \in Sockets, NEW i \in DOMAIN line'[k].requests,
                        NEW j \in Held' \ {None}
                 PROVE  line'[k].requests[i] # FdMsg(j)
      BY DEF DescriptorOnce
    <3>1. k # c
      BY <1>8, <2>1
    <3> QED BY <1>11, <2>1, <2>6, <3>1
  <2>11. Quiet(active)' /\ active' # None
    <3>1. Quiet(active)
      BY <1>1, <1>3, <1>4, <1>14, <2>3 DEF Handshake, Sound, Apart
    <3> QED BY <1>4, <1>5, <1>14, <2>1, <2>3, <3>1 DEF Quiet, At
  <2>12. ActiveShape("forward")'
    BY <2>11 DEF ActiveShape
  <2>13. ASSUME NEW t \in Forks' PROVE ForkShape("forward", t)'
    <3>1. CASE t = u
      <4>1. c \notin cut
        BY <1>1, <1>3 DEF Sound, Apart
      <4> QED BY <1>2, <1>5, <1>8, <2>1, <2>4, <3>1, <4>1
              DEF ForkShape, Quiet, At, past, l
    <3>2. CASE t \in Forks
      <4>1. paused'[t] = paused[t] /\ line'[paused[t]] = line[paused[t]]
        BY <1>1, <1>3, <2>1, <2>3, <2>4, <3>2, ForkIs
      <4> QED BY <1>2, <1>13, <3>2, <4>1 DEF ForkShape, Loose, Quiet, Running, At, past
    <3> QED BY <2>5, <3>1, <3>2
  <2> QED BY <1>2, <1>12, <2>7, <2>8, <2>9, <2>10, <2>12, <2>13, LiveInv
          DEF Sound, Shape, LivePhases, Phases
<1>15. CASE p # active
  <2>1. /\ line' = Dropped({active}, ReadTimes(c)) /\ active' = c /\ paused' = paused
    BY <1>2, <1>15
  <2>2. /\ line'[c] = l
        /\ \A j \in Sockets \ {c, active} : line'[j] = line[j]
        /\ active # None => line'[active] = Unused
        /\ line' = [k \in Sockets |-> IF k = active THEN Unused
                                      ELSE ReadTimes(c)[k]]
    BY <1>3, <1>5, <1>7, <2>1, SoundTypes DEF Dropped
  <2>3. Forks' = Forks
    BY <2>1, ForksSame
  <2>4. Held' \ {None} \subseteq Held /\ Held \subseteq Held' \cup {None, active}
    BY <1>1, <1>5, <1>10, <2>1 DEF Held
  <2>5. Unused \in LineSet /\ Unused.requests = <<>>
    BY TimesNat, EmptySeq DEF Unused, Line, LineSet, States
  <2>6. TypeOK'
    <3>1. \A k \in Sockets : line'[k] \in LineSet
      BY <1>8, <1>9, <2>2, <2>5
    <3>2. line' \in [Sockets -> LineSet]
      BY <2>2, <3>1
    <3> QED BY <1>2, <1>3, <1>5, <1>10, <2>1, <3>2
            DEF Sound, TypeOK, LineSet, States, past, Phases
  <2>7. Apart'
    BY <1>1, <1>2, <1>3, <1>5, <1>10, <2>1, <2>3, ForkIs, HandshakeAssumption
       DEF Sound, Apart, past
  <2>8. OthersUnused'
    <3> SUFFICES ASSUME NEW k \in Sockets, k \notin Held' PROVE line'[k] = Unused
      BY DEF OthersUnused, Unused, Line
    <3>1. k # None /\ k # c
      BY <2>1, HandshakeAssumption DEF Held
    <3>2. CASE k = active
      BY <2>2, <3>1, <3>2
    <3>3. CASE k # active
      BY <1>3, <2>2, <2>4, <3>1, <3>3 DEF Sound, OthersUnused
    <3> QED BY <3>2, <3>3
  <2>9. DescriptorOnce'
    <3> SUFFICES ASSUME NEW k \in Sockets, NEW i \in DOMAIN line'[k].requests,
                        NEW j \in Held' \ {None}
                 PROVE  line'[k].requests[i] # FdMsg(j)
      BY DEF DescriptorOnce
    <3>1. k # c /\ k # active
      BY <1>8, <2>2, <2>5, HandshakeAssumption
    <3> QED BY <1>11, <2>2, <2>4, <3>1
  <2>10. ActiveShape("forward")'
    BY <1>5, <1>8, <2>1, <2>2 DEF ActiveShape, Quiet, At, l
  <2>11. ASSUME NEW t \in Forks PROVE ForkShape("forward", t)'
    <3>1. line'[paused[t]] = line[paused[t]]
      BY <1>1, <1>3, <2>2, ForkIs
    <3> QED BY <1>2, <1>13, <2>1, <3>1 DEF ForkShape, Loose, Quiet, Running, At, past
  <2> QED BY <1>2, <1>12, <2>3, <2>6, <2>7, <2>8, <2>9, <2>10, <2>11, LiveInv
          DEF Sound, Shape, LivePhases, Phases
<1> QED BY <1>14, <1>15

-----------------------------------------------------------------------------
(***************************************************************************)
(* The debugger drops the process it was making, and maybe the active one. *)
(***************************************************************************)
LEMMA DroppedSound ==
  ASSUME Sound, TypeOK', UNCHANGED paused, active' \in {active, None},
         call'.child = None,
         \A k \in cut' : \E t \in Forks : paused[t] = k,
         \A k \in Sockets :
           \/ k # call.child /\ (k = active => k = active')
           \/ line'[k] = Unused,
         \A k \in Sockets :
           line'[k].requests = <<>> \/ line'[k].requests = line[k].requests,
         \A k \in Sockets : line[k] = Unused => line'[k] = Unused
  PROVE  Sound' /\ Forks' = Forks
<1>1. Forks' = Forks
  BY ForksSame
<1>2. \A t \in Forks : paused[t] # None
  BY DEF Forks
<1>3. Apart'
  BY <1>1, <1>2 DEF Sound, Apart
<1>4. OthersUnused'
  <2> SUFFICES ASSUME NEW k \in Sockets, k \notin Held' PROVE line'[k] = Unused
    BY DEF OthersUnused, Unused, Line
  <2>1. CASE k \notin Held
    BY <2>1 DEF Sound, OthersUnused
  <2>2. CASE k \in Held
    BY <2>2 DEF Held
  <2> QED BY <2>1, <2>2
<1>5. DescriptorOnce'
  <2> SUFFICES ASSUME NEW k \in Sockets, NEW i \in DOMAIN line'[k].requests,
                      NEW j \in Held' \ {None}
               PROVE  line'[k].requests[i] # FdMsg(j)
    BY DEF DescriptorOnce
  <2>1. line'[k].requests = line[k].requests
    BY EmptySeq
  <2>2. j \in Held /\ (j = active \/ \E t \in Forks : j = paused[t])
    BY DEF Held, Forks
  <2>3. j # call.child
    BY <2>2, HandshakeAssumption DEF Sound, Apart
  <2> QED BY <2>1, <2>2, <2>3 DEF Sound, DescriptorOnce
<1> QED BY <1>1, <1>3, <1>4, <1>5 DEF Sound

LEMMA UnusedLine ==
  Unused \in LineSet /\ Unused.requests = <<>> /\ Unused.state = "unused"
BY TimesNat, EmptySeq DEF Unused, Line, LineSet, States

(***************************************************************************)
(* A clone() fails only for a fork whose own clone() was cut short: any    *)
(* other parent keeps to the handshake, and so does its child.             *)
(***************************************************************************)
LEMMA CloneFailsCut ==
  ASSUME IInv, CloneFails
  PROVE  call.parent \in cut
<1> SUFFICES ASSUME call.parent \notin cut PROVE FALSE
  OBVIOUS
<1>1. phase \in Cloning
  BY DEF CloneFails, Cloning
<1>2. Sound /\ Shape(phase)
  BY <1>1, LiveShape DEF Cloning
<1>3. PICK p, c, u : p = call.parent /\ c = call.child /\ u = At(p)
  OBVIOUS
<1>4. Handshake(phase)
  BY <1>1, <1>2, ParentIs
<1>5. CASE phase = "fork"
  <2>1. Quiet(p) /\ Broken(p)
    BY <1>3, <1>4, <1>5 DEF Handshake, CloneFails, SendFails
  <2> QED BY <2>1, QuietHasNothing DEF Broken
<1>6. CASE phase = "fds"
  <2>1. Broken(p)
    BY <1>3, <1>6 DEF CloneFails, SendFails
  <2>2. line[p].state \in {"idle", "fetching"}
    BY <1>3, <1>4, <1>6, ToldFields DEF Handshake
  <2> QED BY <2>1, <2>2 DEF Broken
<1>7. CASE phase = "forked"
  <2>1. Fails(p, "FORKED")
    BY <1>3, <1>7 DEF CloneFails, ExpectFails
  <2>2. line[p].state \in {"idle", "fetching"}
    BY <1>3, <1>4, <1>7, ToldFields DEF Handshake
  <2>3. line[p].answers = <<>> \/ line[p].answers = <<ForkedMsg, ReadyMsg(u)>>
    BY <1>3, <1>4, <1>7, ToldFields DEF Handshake
  <2>4. Head(<<ForkedMsg, ReadyMsg(u)>>).cmd = "FORKED"
    BY ShortSequences DEF ForkedMsg, Msg
  <2> QED BY <2>1, <2>2, <2>3, <2>4, ShortSequences DEF Fails, Broken
<1>8. CASE phase = "child"
  <2>1. Fails(c, "READY")
    BY <1>3, <1>8 DEF CloneFails, ExpectFails
  <2>2. line[c].answers = <<ReadyMsg(u)>>
    BY <1>3, <1>4, <1>8, ToldFields DEF Handshake, Born
  <2>3. Head(<<ReadyMsg(u)>>).cmd = "READY" /\ <<ReadyMsg(u)>> # <<>>
    BY ShortSequences DEF ReadyMsg, Msg
  <2> QED BY <2>1, <2>2, <2>3 DEF Fails
<1> QED BY <1>5, <1>6, <1>7, <1>8 DEF CloneFails

\* What a failed clone() leaves behind.
LEMMA FailedLines ==
  ASSUME IInv, CloneFails
  PROVE  /\ \A k \in Sockets : k = call.child => line'[k] = Unused
         /\ \A k \in Sockets \ {call.parent, call.child} : line'[k] = line[k]
         /\ line'[call.parent] =
              Told(line[call.parent].state, line[call.parent].time,
                   line[call.parent].requests, line'[call.parent].answers,
                   At(call.parent))
         /\ \/ line'[call.parent].answers = line[call.parent].answers
            \/ /\ line[call.parent].answers # <<>>
               /\ line'[call.parent].answers = Tail(line[call.parent].answers)
         /\ line' \in [Sockets -> LineSet]
<1>1. phase \in Cloning
  BY DEF CloneFails, Cloning
<1>2. Sound /\ Shape(phase)
  BY <1>1, LiveShape DEF Cloning
<1>3. PICK p, c : p = call.parent /\ c = call.child
  OBVIOUS
<1>4. p \in Sockets /\ p # c /\ c \in Sockets \cup {None}
  BY <1>1, <1>2, <1>3, ParentIs, SoundTypes
<1>5. line \in [Sockets -> LineSet]
  BY <1>2, SoundTypes
<1>6. ASSUME NEW k \in Sockets
      PROVE  /\ \A j \in Sockets \ {k} : Read(k)[j] = line[j]
             /\ \/ Read(k)[k] = line[k]
                \/ /\ line[k].answers # <<>>
                   /\ Read(k)[k] = Told(line[k].state, line[k].time, line[k].requests,
                                        Tail(line[k].answers), At(k))
             /\ Read(k) \in [Sockets -> LineSet]
  <2>1. CASE line[k].answers = <<>>
    BY <1>5, <2>1 DEF Read
  <2>2. CASE line[k].answers # <<>>
    <3>1. line[k] \in LineSet
      BY <1>5
    <3>2. Tail(line[k].answers) \in Seq(Answers)
      BY <2>2, <3>1, ReadSequence DEF LineSet
    <3>3. Told(line[k].state, line[k].time, line[k].requests,
               Tail(line[k].answers), At(k)) \in LineSet
      BY <3>1, <3>2 DEF Told, LineSet, At
    <3> QED BY <1>2, <1>5, <2>2, <3>3, ReadTold
  <2> QED BY <2>1, <2>2
<1>7. \/ line' = Dropped({c}, line)
      \/ line' = Dropped({c}, Read(p))
      \/ c # None /\ line' = Dropped({c}, Read(c))
  <2>1. phase = "child" => c # None
    BY <1>2, <1>3 DEF Shape, ParentShape, WithChild
  <2> QED BY <1>3, <2>1 DEF CloneFails, SendFails, ExpectFails, Raise
<1>8. PICK lines :
        /\ line' = Dropped({c}, lines)
        /\ lines \in [Sockets -> LineSet]
        /\ \A j \in Sockets \ {p, c} : lines[j] = line[j]
        /\ \/ lines[p] = line[p]
           \/ /\ line[p].answers # <<>>
              /\ lines[p] = Told(line[p].state, line[p].time, line[p].requests,
                                 Tail(line[p].answers), At(p))
  <2>1. CASE line' = Dropped({c}, line)
    BY <1>5, <2>1
  <2>2. CASE line' = Dropped({c}, Read(p))
    BY <1>4, <1>6, <2>2
  <2>3. CASE c # None /\ line' = Dropped({c}, Read(c))
    <3>1. c \in Sockets /\ p \in Sockets \ {c}
      BY <1>4, <2>3
    <3>2. Read(c) \in [Sockets -> LineSet]
          /\ \A j \in Sockets \ {c} : Read(c)[j] = line[j]
      BY <1>6, <3>1
    <3> QED BY <2>3, <3>1, <3>2
  <2> QED BY <1>7, <2>1, <2>2, <2>3
<1>9. /\ line' \in [Sockets -> LineSet]
      /\ \A k \in Sockets : k = c => line'[k] = Unused
      /\ \A k \in Sockets : k # c => line'[k] = lines[k]
  BY <1>8, UnusedLine DEF Dropped
<1>10. line[p] = Told(line[p].state, line[p].time, line[p].requests,
                      line[p].answers, At(p))
  BY <1>2, <1>4, TypedLine DEF Sound, At
<1>11. /\ line'[p] = Told(line[p].state, line[p].time, line[p].requests,
                          line'[p].answers, At(p))
       /\ \/ line'[p].answers = line[p].answers
          \/ /\ line[p].answers # <<>>
             /\ line'[p].answers = Tail(line[p].answers)
  <2>1. line'[p] = lines[p]
    BY <1>4, <1>9
  <2>2. CASE lines[p] = line[p]
    BY <1>10, <2>1, <2>2
  <2>3. CASE /\ line[p].answers # <<>>
             /\ lines[p] = Told(line[p].state, line[p].time, line[p].requests,
                                Tail(line[p].answers), At(p))
    BY <2>1, <2>3, ToldFields
  <2> QED BY <1>8, <2>2, <2>3
<1> QED BY <1>3, <1>4, <1>8, <1>9, <1>11

LEMMA CloneFailsInv ==
  ASSUME IInv, CloneFails PROVE IInv'
<1>1. phase \in Cloning
  BY DEF CloneFails, Cloning
<1>2. Sound /\ Shape(phase)
  BY <1>1, LiveShape DEF Cloning
<1>3. PICK p, c : p = call.parent /\ c = call.child
  OBVIOUS
<1>4. /\ UNCHANGED <<active, paused, shown, recovering, cut, pressed>>
      /\ call' = [call EXCEPT !.child = None]
      /\ phase' = IF recovering THEN "died" ELSE "show"
  BY DEF CloneFails, SendFails, ExpectFails, Raise, past
<1>5. p \in cut /\ p \in Sockets /\ p # active /\ Loose(p) /\ p # c
  BY <1>1, <1>2, <1>3, CloneFailsCut, ParentIs
<1>6. call'.child = None /\ call'.parent = p
      /\ call' \in [parent: Sockets \cup {None}, child: Sockets \cup {None},
                    target: Times]
  BY <1>2, <1>3, <1>4 DEF Sound, TypeOK
<1>7. /\ \A k \in Sockets : k = c => line'[k] = Unused
      /\ \A k \in Sockets \ {p, c} : line'[k] = line[k]
      /\ line'[p] = Told(line[p].state, line[p].time, line[p].requests,
                         line'[p].answers, At(p))
      /\ \/ line'[p].answers = line[p].answers
         \/ /\ line[p].answers # <<>>
            /\ line'[p].answers = Tail(line[p].answers)
      /\ line' \in [Sockets -> LineSet]
  BY <1>3, FailedLines
<1>8. /\ line'[p].state = line[p].state /\ line'[p].time = line[p].time
      /\ line'[p].requests = line[p].requests /\ At(p)' = At(p)
  BY <1>7, ToldFields DEF At
<1>9. TypeOK'
  BY <1>2, <1>4, <1>6, <1>7 DEF Sound, TypeOK, LineSet, States, Phases
<1>10. Sound' /\ Forks' = Forks
  <2>1. line[p] # Unused
    BY <1>5, UnusedLine DEF Loose
  <2>2. \A k \in cut' : \E t \in Forks : paused[t] = k
    BY <1>2, <1>4 DEF Sound, Apart
  <2>3. \A k \in Sockets :
          \/ k # call.child /\ (k = active => k = active')
          \/ line'[k] = Unused
    BY <1>3, <1>4, <1>7
  <2>4. \A k \in Sockets :
          line'[k].requests = <<>> \/ line'[k].requests = line[k].requests
    BY <1>5, <1>7, <1>8, UnusedLine
  <2>5. \A k \in Sockets : line[k] = Unused => line'[k] = Unused
    BY <1>7, <2>1
  <2> QED BY <1>2, <1>4, <1>6, <1>9, <2>2, <2>3, <2>4, <2>5, DroppedSound
<1>11. Loose(p)'
  <2>1. PICK S : S = {ForkedMsg, ReadyMsg(At(p))}
    OBVIOUS
  <2>2. line[p].answers \in Seq(S)
    BY <1>5, <2>1 DEF Loose
  <2>3. PICK a, b : a = line[p].answers /\ b = line'[p].answers
    OBVIOUS
  <2>4. b \in Seq(S)
    <3>1. b = a \/ (a # <<>> /\ b = Tail(a))
      BY <1>7, <2>3
    <3>2. a \in Seq(S)
      BY <2>2, <2>3
    <3> QED BY <3>1, <3>2, ReadSequence
  <2> QED BY <1>5, <1>8, <2>1, <2>3, <2>4 DEF Loose, Running
<1>12. ASSUME NEW q, NEW t \in Forks, q \notin Cloning PROVE ForkShape(q, t)'
  <2>1. ForkShape(phase, t)
    BY <1>2 DEF Shape
  <2>2. CASE paused[t] = p
    BY <1>4, <1>5, <1>8, <1>11, <2>1, <2>2 DEF ForkShape
  <2>3. CASE paused[t] # p
    <3>1. line'[paused[t]] = line[paused[t]]
      BY <1>2, <1>3, <1>7, <2>3, ForkIs
    <3> QED BY <1>3, <1>4, <2>1, <2>3, <3>1
            DEF ForkShape, Loose, Quiet, Running, At
  <2> QED BY <2>2, <2>3
<1>13. ASSUME NEW q, q \notin Cloning PROVE ParentShape(q)'
  BY <1>6, <1>13 DEF ParentShape, WithChild, Cloning
<1>14. CASE recovering
  <2>1. active = None
    BY <1>1, <1>2, <1>3, <1>5, <1>14 DEF Shape, ActiveShape, Still, Cloning
  <2>2. ActiveShape("resume")'
    BY <1>4, <1>14, <2>1 DEF ActiveShape, Cloning
  <2> QED BY <1>4, <1>10, <1>12, <1>13, <1>14, <2>2, LiveInv
          DEF Shape, LivePhases, Phases, Cloning
<1>15. CASE ~recovering
  <2>1. active # None /\ Still
    BY <1>1, <1>2, <1>3, <1>5, <1>15 DEF Shape, ActiveShape, Cloning
  <2>2. line'[active] = line[active]
    <3>1. active \in Sockets /\ active # c
      BY <1>2, <1>3, <2>1, SoundTypes DEF Sound, Apart
    <3> QED BY <1>5, <1>7, <3>1
  <2>3. ActiveShape("show")'
    BY <1>4, <2>1, <2>2 DEF ActiveShape, Still, Stuck, Quiet, Quitting, At
  <2> QED BY <1>4, <1>10, <1>12, <1>13, <1>15, <2>3, LiveInv
          DEF Shape, LivePhases, Phases, Cloning
<1> QED BY <1>2, <1>14, <1>15, SoundTypes

-----------------------------------------------------------------------------
LEMMA SmallSequences ==
  ASSUME NEW S, NEW x \in S, NEW y \in S
  PROVE  <<>> \in Seq(S) /\ <<x>> \in Seq(S) /\ <<x, y>> \in Seq(S)
OBVIOUS

(***************************************************************************)
(* Ctrl-C.  Whatever the handshake had put on the line of the parent, it   *)
(* is something a clone() that was cut short may leave there.              *)
(***************************************************************************)
LEMMA MidwayLoose ==
  ASSUME Sound, NEW ph, Shape(ph), ph \in {"fds", "forked", "ready"},
         call.parent \notin cut
  PROVE  Loose(call.parent)
<1>1. PICK p, c, u : p = call.parent /\ c = call.child /\ u = At(p)
  OBVIOUS
<1>2. Handshake(ph)
  BY ParentIs DEF Cloning
<1>3. ph \in WithChild => c \in Sockets
  BY <1>1, SoundTypes DEF Shape, ParentShape
<1>4. PICK R, A : R = ForkRequests /\ A = {ForkedMsg, ReadyMsg(u)}
  OBVIOUS
<1>5. /\ ForkMsg \in R /\ (ph \in WithChild => FdMsg(c) \in R)
      /\ ForkedMsg \in A /\ ReadyMsg(u) \in A
  BY <1>3, <1>4 DEF ForkRequests
<1>6. /\ <<>> \in Seq(R) /\ <<ForkMsg>> \in Seq(R)
      /\ <<>> \in Seq(A) /\ <<ReadyMsg(u)>> \in Seq(A)
      /\ <<ForkedMsg, ReadyMsg(u)>> \in Seq(A)
  BY <1>5, SmallSequences
<1>7. /\ line[p].state \in {"idle", "fetching"} /\ line[p].time = u
      /\ line[p].requests \in Seq(R) /\ line[p].answers \in Seq(A)
  <2>1. CASE ph = "fds"
    <3>1. /\ line[p].state \in {"idle", "fetching"} /\ line[p].time = u
          /\ line[p].requests \in {<<>>, <<ForkMsg>>} /\ line[p].answers = <<>>
      BY <1>1, <1>2, <2>1, ToldFields DEF Handshake
    <3> QED BY <1>6, <3>1
  <2>2. CASE ph = "forked"
    <3>1. /\ line[p].state \in {"idle", "fetching"} /\ line[p].time = u
          /\ line[p].requests \in {<<>>, <<ForkMsg, FdMsg(c)>>, <<FdMsg(c)>>}
          /\ line[p].answers \in {<<>>, <<ForkedMsg, ReadyMsg(u)>>}
      BY <1>1, <1>2, <2>2, ToldFields DEF Handshake
    <3>2. FdMsg(c) \in R
      BY <1>5, <2>2 DEF WithChild
    <3>3. <<ForkMsg, FdMsg(c)>> \in Seq(R) /\ <<FdMsg(c)>> \in Seq(R)
      BY <1>5, <3>2, SmallSequences
    <3> QED BY <1>6, <3>1, <3>3
  <2>3. CASE ph = "ready"
    <3>1. /\ line[p].state = "idle" /\ line[p].time = u
          /\ line[p].requests = <<>> /\ line[p].answers = <<ReadyMsg(u)>>
      BY <1>1, <1>2, <2>3, ToldFields DEF Handshake
    <3> QED BY <1>6, <3>1
  <2> QED BY <2>1, <2>2, <2>3
<1> QED BY <1>1, <1>4, <1>7 DEF Loose

\* One that is killed leaves its answers.
LEMMA GoneLine ==
  ASSUME NEW l \in LineSet
  PROVE  /\ Gone(l) \in LineSet /\ Gone(l).state = "dead"
         /\ Gone(l).requests = <<>> /\ Gone(l).answers = l.answers
         /\ Gone(l).stub = l.stub
<1>1. l = Told(l.state, l.time, l.requests, l.answers, l.stub)
  BY DEF LineSet, Told
<1>2. Gone(l) = Told("dead", 1, <<>>, l.answers, l.stub)
  BY <1>1, GoneTold
<1> QED BY <1>2, ToldFields, TimesNat, EmptySeq DEF LineSet, States, Told

LEMMA InterruptInv ==
  ASSUME IInv, Interrupt PROVE IInv'
<1>1. PICK p, c : p = call.parent /\ c = call.child
  OBVIOUS
<1>2. /\ ~recovering /\ phase \notin {"died", "exited"}
      /\ active' = None /\ phase' = "resume" /\ recovering' = TRUE
      /\ call' = [NoCall EXCEPT !.target = shown]
      /\ UNCHANGED <<paused, shown>>
      /\ cut' = IF Midway /\ p # active THEN cut \cup {p} ELSE cut
      /\ pressed < MaxInterrupts /\ pressed' = pressed + 1
  BY <1>1 DEF Interrupt
<1>3. Sound /\ Shape(phase)
  BY <1>2, LiveShape
<1>4. PICK killed \in SUBSET (AtWork \ {active, c}) :
        line' = Dropped({active, c},
                        [k \in Sockets |-> IF k \in killed THEN Gone(line[k])
                                           ELSE line[k]])
  BY <1>1 DEF Interrupt
<1>5. ASSUME NEW k \in Sockets
      PROVE  /\ k \in {active, c} => line'[k] = Unused
             /\ k \in killed => line'[k] = Gone(line[k])
             /\ k \notin killed \cup {active, c} => line'[k] = line[k]
             /\ line[k] \in LineSet
  BY <1>3, <1>4, SoundTypes DEF Dropped
<1>6. line' \in [Sockets -> LineSet]
  <2>1. \A k \in Sockets : line'[k] \in LineSet
    BY <1>5, UnusedLine, GoneLine
  <2>2. line' = [k \in Sockets |-> line'[k]]
    BY <1>4 DEF Dropped
  <2> QED BY <2>1, <2>2
<1>7. ASSUME NEW k \in killed
      PROVE  Running(k) /\ (line[k].requests # <<>> \/ line[k].state = "fetching")
  BY DEF AtWork
<1>8. Midway => phase \in Cloning
  BY DEF Midway, Cloning
<1>9. \A k \in cut' : \E t \in Forks : paused[t] = k
  <2>1. \A k \in cut : \E t \in Forks : paused[t] = k
    BY <1>3 DEF Sound, Apart
  <2>2. Midway /\ p # active => \E t \in Forks : paused[t] = p
    BY <1>1, <1>3, <1>8, ParentIs
  <2> QED BY <1>2, <2>1, <2>2
<1>10. TypeOK'
  <2>1. cut' \subseteq Sockets
    BY <1>3, <1>9, ForkIs
  <2>2. call' \in [parent: Sockets \cup {None}, child: Sockets \cup {None}, target: Times]
    BY <1>2, <1>3, SoundTypes DEF NoCall
  <2>3. pressed' \in 0..MaxInterrupts
    BY <1>2, <1>3, SoundTypes, HandshakeAssumption
  <2> QED BY <1>2, <1>3, <1>6, <2>1, <2>2, <2>3 DEF Sound, TypeOK, LineSet, States, Phases
<1>11. call'.child = None
  BY <1>2 DEF NoCall
<1>12. Sound' /\ Forks' = Forks
  <2>1. \A k \in Sockets :
          \/ k # call.child /\ (k = active => k = active')
          \/ line'[k] = Unused
    BY <1>1, <1>5
  <2>2. \A k \in Sockets :
          line'[k].requests = <<>> \/ line'[k].requests = line[k].requests
    BY <1>5, UnusedLine, GoneLine
  <2>3. \A k \in Sockets : line[k] = Unused => line'[k] = Unused
    BY <1>5, <1>7, UnusedLine DEF Running
  <2> QED BY <1>2, <1>3, <1>9, <1>10, <1>11, <2>1, <2>2, <2>3, DroppedSound
<1>13. ASSUME NEW k \in Sockets, k \notin {active, c}
       PROVE  /\ At(k)' = At(k)
              /\ Loose(k) => Loose(k)'
              /\ Quiet(k) => Quiet(k)'
  <2>1. CASE k \in killed
    <3>1. /\ line'[k].state = "dead" /\ line'[k].requests = <<>>
          /\ line'[k].answers = line[k].answers /\ At(k)' = At(k)
      BY <1>5, <2>1, GoneLine DEF At
    <3>2. ~Quiet(k)
      BY <1>7, <2>1, QuietHasNothing
    <3> QED BY <3>1, <3>2, EmptySeq DEF Loose, Running
  <2>2. CASE k \notin killed
    <3>1. line'[k] = line[k]
      BY <1>5, <1>13, <2>2
    <3> QED BY <3>1 DEF Loose, Quiet, Running, At
  <2> QED BY <2>1, <2>2
<1>14. ASSUME NEW t \in Forks PROVE ForkShape("resume", t)'
  <2>1. PICK k : k = paused[t]
    OBVIOUS
  <2>2. k \in Sockets /\ k # active /\ k # c
    BY <1>1, <1>3, <2>1, ForkIs
  <2>3. ForkShape(phase, t)
    BY <1>3 DEF Shape
  <2>4. At(k) = t
    BY <2>1, <2>3 DEF ForkShape
  <2>5. CASE k \in cut
    <3>1. Loose(k)' /\ At(k)' = t
      BY <1>13, <2>1, <2>2, <2>3, <2>4, <2>5 DEF ForkShape
    <3>2. k \in cut'
      BY <1>2, <2>5
    <3> QED BY <1>2, <2>1, <3>1, <3>2 DEF ForkShape
  <2>6. CASE k \notin cut /\ Midway /\ k = p
    <3>1. Loose(k)
      BY <1>1, <1>3, <2>6, MidwayLoose DEF Midway
    <3>2. k \in cut'
      BY <1>2, <2>2, <2>6
    <3> QED BY <1>2, <1>13, <2>1, <2>2, <2>4, <3>1, <3>2 DEF ForkShape
  <2>7. CASE k \notin cut /\ ~(Midway /\ k = p)
    <3>1. Quiet(k)
      <4>1. CASE phase \in Cloning /\ k = p
        <5>1. phase \in {"fork", "child"}
          BY <2>7, <4>1 DEF Midway, Cloning
        <5>2. Handshake(phase)
          BY <1>1, <1>3, <2>7, <4>1, ParentIs
        <5> QED BY <1>1, <4>1, <5>1, <5>2 DEF Handshake
      <4>2. CASE ~(phase \in Cloning /\ k = p)
        BY <1>1, <2>1, <2>3, <2>7, <4>2 DEF ForkShape
      <4> QED BY <4>1, <4>2
    <3>2. k \notin cut'
      BY <1>2, <2>7
    <3> QED BY <1>2, <1>13, <2>1, <2>2, <2>4, <3>1, <3>2 DEF ForkShape
  <2> QED BY <2>5, <2>6, <2>7
<1>15. ActiveShape("resume")'
  BY <1>2 DEF ActiveShape, Cloning
<1>16. ParentShape("resume")'
  BY <1>11 DEF ParentShape, WithChild, Cloning
<1> QED BY <1>2, <1>12, <1>14, <1>15, <1>16, LiveInv DEF Shape, LivePhases, Phases

-----------------------------------------------------------------------------
(***************************************************************************)
(* The invariant, and what it says.                                        *)
(***************************************************************************)
LEMMA InitInv ==
  ASSUME Init PROVE IInv
<1>1. {1, 2} \subseteq Sockets /\ 1 \in Times /\ None \notin Sockets
      /\ Times \subseteq Nat
  BY HandshakeAssumption DEF Sockets, Times
<1>2. /\ line \in [Sockets -> LineSet]
      /\ line[1] = Told("idle", 1, <<>>, <<>>, 1)
      /\ line[2] = Told("idle", 1, <<>>, <<>>, 1)
      /\ \A k \in Sockets \ {1, 2} : line[k] = Unused
      /\ \A k \in Sockets : line[k].requests = <<>>
  <2>1. Line("idle", 1, 1) = Told("idle", 1, <<>>, <<>>, 1)
    BY DEF Line, Told
  <2>2. Line("idle", 1, 1) \in LineSet /\ Line("idle", 1, 1).requests = <<>>
    BY <1>1, EmptySeq DEF Line, LineSet, States
  <2> QED BY <1>1, <2>1, <2>2, UnusedLine DEF Init
<1>3. /\ active = 1 /\ paused = [t \in Times |-> IF t = 1 THEN 2 ELSE None]
      /\ phase = "prompt" /\ call = NoCall /\ shown = 1 /\ recovering = FALSE
      /\ cut = {} /\ pressed = 0
  BY DEF Init
<1>4. paused \in [Times -> Sockets \cup {None}] /\ paused[1] = 2
      /\ \A t \in Times \ {1} : paused[t] = None
  BY <1>1, <1>3
<1>5. Forks = {1}
  BY <1>1, <1>4 DEF Forks
<1>6. NoCall.child = None /\ NoCall.parent = None
      /\ NoCall \in [parent: Sockets \cup {None}, child: Sockets \cup {None},
                     target: Times]
  BY <1>1 DEF NoCall
<1>7. TypeOK
  <2>1. active \in Sockets \cup {None} /\ phase \in Phases
        /\ shown \in Times /\ cut \subseteq Sockets /\ recovering \in BOOLEAN
    BY <1>1, <1>3 DEF Phases
  <2>2. pressed \in 0..MaxInterrupts
    BY <1>3, HandshakeAssumption
  <2> QED BY <1>2, <1>3, <1>4, <1>6, <2>1, <2>2 DEF TypeOK, LineSet, States
<1>8. Apart
  BY <1>1, <1>3, <1>4, <1>5, <1>6 DEF Apart
<1>9. OthersUnused
  <2>1. 1 \in Held /\ 2 \in Held
    BY <1>1, <1>3, <1>4 DEF Held
  <2> QED BY <1>2, <2>1 DEF OthersUnused
<1>10. DescriptorOnce
  BY <1>2, EmptySeq DEF DescriptorOnce
<1>11. Quiet(1) /\ Quiet(2) /\ At(1) = 1 /\ At(2) = 1
  BY <1>2, ToldFields DEF Quiet, At
<1>12. Shape("prompt")
  <2>1. ActiveShape("prompt")
    BY <1>1, <1>3, <1>11 DEF ActiveShape, Still
  <2>2. ParentShape("prompt")
    BY <1>3, <1>6 DEF ParentShape, WithChild, Cloning
  <2>3. \A t \in Forks : ForkShape("prompt", t)
    BY <1>3, <1>4, <1>5, <1>11 DEF ForkShape
  <2> QED BY <2>1, <2>2, <2>3 DEF Shape
<1> QED BY <1>3, <1>7, <1>8, <1>9, <1>10, <1>12 DEF IInv, Sound, LivePhases, Phases

LEMMA NextInv ==
  ASSUME IInv, [Next]_vars PROVE IInv'
<1>1. CASE Command
  BY <1>1, GoInv, StepInv DEF Command
<1>2. CASE Work
  BY <1>2, ResumeInv, SendForkInv, SendFdsInv, ExpectForkedInv, ExpectReadyInv,
     ExpectChildInv, CloneFailsInv, ForwardInv, MovedInv, ForwardFailsInv,
     PromptUnmovedInv, ShowInv, PromptInv DEF Work
<1>3. CASE ProcessStep
  <2>1. PICK ph \in LivePhases : phase \in {ph, "died", "exited"} /\ Shape(ph)
    BY DEF IInv
  <2>2. Sound' /\ Shape(ph)' /\ phase' = phase
    BY <1>3, <2>1, ProcessStepInv DEF IInv
  <2> QED BY <2>1, <2>2, LiveInv
<1>4. CASE Interrupt
  BY <1>4, InterruptInv
<1>5. CASE InterruptAgain
  BY <1>5, InterruptAgainInv
<1>6. CASE Ended
  BY <1>6, StutterInv DEF Ended
<1>7. CASE UNCHANGED vars
  BY <1>7, StutterInv
<1> QED BY <1>1, <1>2, <1>3, <1>4, <1>5, <1>6, <1>7 DEF Next

(***************************************************************************)
(* The inductive invariant: what is on each line in each phase of the      *)
(* commands, whatever Ctrl-C cut short before and wherever the processes   *)
(* are.                                                                    *)
(***************************************************************************)
THEOREM InvariantHolds == Spec => []IInv
<1>1. Init => IInv
  BY InitInv
<1>2. IInv /\ [Next]_vars => IInv'
  BY NextInv
<1> QED BY <1>1, <1>2, PTL DEF Spec

\* The sockets, the stubs and the locals of clone() have their types.
THEOREM TypeCorrect == Spec => []TypeOK
<1>1. IInv => TypeOK
  BY DEF IInv, Sound
<1> QED BY <1>1, InvariantHolds, PTL

LEMMA ApartInIInv ==
  ASSUME IInv PROVE ForksApart
<1>1. PICK ph \in LivePhases : Shape(ph)
  BY DEF IInv
<1>2. Sound
  BY DEF IInv
<1> SUFFICES ASSUME NEW t \in Forks
             PROVE  /\ paused[t] \notin {active, call.child}
                    /\ \A u \in Forks \ {t} : paused[u] # paused[t]
                    /\ line[paused[t]].stub = t
                    /\ paused[t] \notin cut => /\ Running(paused[t])
                                               /\ line[paused[t]].time = t
  BY DEF ForksApart
<1>3. PICK k : k = paused[t]
  OBVIOUS
<1>4. ForkShape(ph, t)
  BY <1>1 DEF Shape
<1>5. At(k) = t
  BY <1>3, <1>4 DEF ForkShape
<1>6. ASSUME k \notin cut PROVE Running(k) /\ line[k].time = t
  <2>1. CASE ph \in Cloning /\ k = call.parent
    <3>1. Handshake(ph)
      BY <1>1, <1>2, <1>6, <2>1, ParentIs
    <3>2. line[k].state \in {"idle", "fetching"} /\ line[k].time = At(k)
      BY <2>1, <3>1, ToldFields, QuietHasNothing DEF Handshake
    <3> QED BY <1>5, <3>2 DEF Running
  <2>2. CASE ~(ph \in Cloning /\ k = call.parent)
    <3>1. Quiet(k)
      BY <1>3, <1>4, <1>6, <2>2 DEF ForkShape
    <3> QED BY <1>5, <3>1, QuietHasNothing DEF Running
  <2> QED BY <2>1, <2>2
<1> QED BY <1>2, <1>3, <1>5, <1>6, ForkIs DEF At

(***************************************************************************)
(* clone() and _resume() never give one process to two stubs: a paused     *)
(* fork is nobody else's, stays at the time it is kept under, and is alive *)
(* unless Ctrl-C cut its own clone() short.                                *)
(***************************************************************************)
THEOREM ForksStayApart == Spec => []ForksApart
BY ApartInIInv, InvariantHolds, PTL

LEMMA SyncInIInv ==
  ASSUME IInv PROVE ActiveInSync
<1> SUFFICES ASSUME phase = "prompt"
             PROVE  \/ HasQuit(active)
                    \/ line[active] = Line("idle", line[active].stub, line[active].stub)
  BY DEF ActiveInSync
<1>1. Sound /\ Shape("prompt")
  BY LiveShape
<1>2. active \in Sockets /\ (Quiet(active) \/ Quitting(active))
  BY <1>1, SoundTypes DEF Shape, ActiveShape, Cloning, Still
<1>3. CASE Quiet(active)
  BY <1>3 DEF Quiet, Told, Line, At
<1>4. CASE Quitting(active)
  <2>1. line[active].requests \in Seq(Requests)
    BY <1>1, <1>2, TypedLine DEF Sound, LineSet
  <2> QED BY <1>4, <2>1, ReadSequence DEF Quitting, HasQuit
<1> QED BY <1>2, <1>3, <1>4

(***************************************************************************)
(* Whatever was cut short before, the process that becomes active has      *)
(* answered every request when the prompt comes, and is where its stub     *)
(* says, or was told to quit by a jump that failed.                        *)
(***************************************************************************)
THEOREM ActiveStaysInSync == Spec => []ActiveInSync
BY SyncInIInv, InvariantHolds, PTL

(***************************************************************************)
(* The assertions of expect() hold and the sockets are open in every       *)
(* clone(), but for a fork whose own clone() was cut short by Ctrl-C       *)
(* before.                                                                 *)
(***************************************************************************)
THEOREM OnlyCutForksCanFail == Spec => OnlyCutForksFail
<1>1. IInv => [CloneFails => call.parent \in cut]_vars
  BY CloneFailsCut
<1> QED BY <1>1, InvariantHolds, PTL DEF OnlyCutForksFail
=============================================================================
