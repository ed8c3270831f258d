--------------------------- MODULE SteppingProofs ---------------------------
(***************************************************************************)
(* Where the commands end that step over and out of calls and to another   *)
(* thread: for every recording, whatever its length, its threads and what  *)
(* happens between its stop points.                                        *)
(***************************************************************************)
EXTENDS Stepping, NumberLemmas, SequenceTheorems, TLAPS

-----------------------------------------------------------------------------
(***************************************************************************)
(* A call and a return are the same change, seen from its two sides.       *)
(***************************************************************************)
Called(s, t, new) ==
  /\ t.thread = s.thread
  /\ Depth(t) = Depth(s) + 1
  /\ \A i \in 1..Depth(s) : Stack(t)[i] = Stack(s)[i]
  /\ Stack(t)[Depth(t)] = new
  /\ \A n \in Threads \ {s.thread} : t.stacks[n] = s.stacks[n]

Switched(s, t) == t.thread # s.thread /\ t.stacks = s.stacks

\* Frame f waits in state s for a call that it made.
WaitsIn(s, f) == \E n \in Threads : f \in Range(Front(s.stacks[n]))

LEMMA StacksAreSequences ==
  ASSUME NEW s \in States, Whole(s), NEW n \in Threads
  PROVE  /\ s.stacks[n] \in Seq(Nat \ {0})
         /\ Len(s.stacks[n]) \in Nat \ {0}
         /\ \A i \in 1..Len(s.stacks[n]) : s.stacks[n][i] \in Nat \ {0}
<1>1. s.stacks[n] \in Seq(Nat \ {0}) /\ s.stacks[n] # <<>>
  BY DEF States, Whole
<1> QED BY <1>1

LEMMA StackIsSequence ==
  ASSUME NEW s \in States, Whole(s)
  PROVE  /\ s.thread \in Threads /\ Stack(s) = s.stacks[s.thread]
         /\ Stack(s) \in Seq(Nat \ {0})
         /\ Depth(s) = Len(s.stacks[s.thread]) /\ Depth(s) \in Nat \ {0}
         /\ \A i \in 1..Depth(s) : Stack(s)[i] \in Nat \ {0}
         /\ Top(s) = Stack(s)[Depth(s)] /\ Top(s) \in Nat \ {0}
<1>1. s.thread \in Threads
  BY DEF States
<1>2. /\ s.stacks[s.thread] \in Seq(Nat \ {0})
      /\ Len(s.stacks[s.thread]) \in Nat \ {0}
      /\ \A i \in 1..Len(s.stacks[s.thread]) :
           s.stacks[s.thread][i] \in Nat \ {0}
  BY <1>1, StacksAreSequences
<1> QED BY <1>1, <1>2 DEF Stack, Depth, Top, Last

LEMMA FrontOfSequence ==
  ASSUME NEW S, NEW q \in Seq(S), q # <<>>
  PROVE  /\ Front(q) \in Seq(S) /\ Len(Front(q)) = Len(q) - 1
         /\ \A i \in 1..(Len(q) - 1) : Front(q)[i] = q[i]
         /\ Range(Front(q)) = {q[i] : i \in 1..(Len(q) - 1)}
<1>1. /\ Front(q) \in Seq(S) /\ Len(Front(q)) = Len(q) - 1
      /\ \A i \in 1..(Len(q) - 1) : Front(q)[i] = q[i]
  BY DEF Front
<1>2. DOMAIN Front(q) = 1..(Len(q) - 1)
  BY <1>1
<1> QED BY <1>1, <1>2 DEF Range

LEMMA WaitsAtPlace ==
  ASSUME NEW s \in States, Whole(s), NEW f
  PROVE  WaitsIn(s, f) <=>
           \E n \in Threads : \E i \in 1..(Len(s.stacks[n]) - 1) :
             s.stacks[n][i] = f
<1>1. ASSUME NEW n \in Threads
      PROVE  Range(Front(s.stacks[n]))
               = {s.stacks[n][i] : i \in 1..(Len(s.stacks[n]) - 1)}
  <2>1. s.stacks[n] \in Seq(Nat \ {0}) /\ s.stacks[n] # <<>>
    BY StacksAreSequences DEF Whole
  <2> QED BY <2>1, FrontOfSequence
<1> QED BY <1>1 DEF WaitsIn

LEMMA FrameAtPlace ==
  ASSUME NEW s \in States, Whole(s), NEW f
  PROVE  f \in Frames(s) <=>
           \E n \in Threads : \E i \in 1..Len(s.stacks[n]) :
             s.stacks[n][i] = f
<1>1. ASSUME NEW n \in Threads
      PROVE  Range(s.stacks[n])
               = {s.stacks[n][i] : i \in 1..Len(s.stacks[n])}
  BY StacksAreSequences DEF Range
<1> QED BY <1>1 DEF Frames

\* No frame is in two places.
LEMMA OnePlace ==
  ASSUME NEW s \in States, Whole(s), NEW n \in Threads, NEW m \in Threads,
         NEW i \in 1..Len(s.stacks[n]), NEW j \in 1..Len(s.stacks[m]),
         s.stacks[n][i] = s.stacks[m][j]
  PROVE  n = m /\ i = j
BY DEF Whole

\* The frame on top is where it is, and does not wait.
LEMMA TopPlace ==
  ASSUME NEW s \in States, Whole(s),
         NEW n \in Threads, NEW i \in 1..Len(s.stacks[n]),
         s.stacks[n][i] = Top(s)
  PROVE  n = s.thread /\ i = Depth(s)
<1>1. s.thread \in Threads /\ Depth(s) \in 1..Len(s.stacks[s.thread])
  BY StackIsSequence
<1>2. s.stacks[s.thread][Depth(s)] = s.stacks[n][i]
  BY StackIsSequence
<1> QED BY <1>1, <1>2 DEF Whole

LEMMA TopRuns ==
  ASSUME NEW s \in States, Whole(s)
  PROVE  ~WaitsIn(s, Top(s)) /\ Top(s) \in Frames(s)
<1>1. ASSUME NEW n \in Threads, NEW i \in 1..(Len(s.stacks[n]) - 1),
             s.stacks[n][i] = Top(s)
      PROVE  FALSE
  <2>1. Len(s.stacks[n]) \in Nat
    BY StacksAreSequences
  <2>2. i \in 1..Len(s.stacks[n])
    BY <2>1
  <2>3. n = s.thread /\ i = Depth(s)
    BY <2>2, <1>1, TopPlace
  <2> QED BY <2>1, <2>3, StackIsSequence
<1>2. ~WaitsIn(s, Top(s))
  BY <1>1, WaitsAtPlace
<1>3. Depth(s) \in 1..Len(s.stacks[s.thread]) /\ s.thread \in Threads
  BY StackIsSequence
<1>4. Top(s) \in Frames(s)
  BY <1>3, FrameAtPlace, StackIsSequence
<1> QED BY <1>2, <1>4

-----------------------------------------------------------------------------
(***************************************************************************)
(* What a change does to a frame: to wait or not, to be there or not, and  *)
(* the number that is reported of it.                                      *)
(***************************************************************************)
LEMMA NumberOfCall ==
  ASSUME NEW s \in States, Whole(s), NEW t \in States, Whole(t),
         NEW new, Called(s, t, new), NEW f
  PROVE  /\ Number(s, t, f) = IF Top(s) = f THEN -1 ELSE 0
         /\ Number(t, s, f) = IF Top(s) = f THEN -2 ELSE 0
BY StackIsSequence DEF Called, Number

LEMMA CallPlaces ==
  ASSUME NEW s \in States, Whole(s), NEW t \in States, Whole(t),
         NEW new, Called(s, t, new), NEW n \in Threads
  PROVE  /\ n # s.thread => t.stacks[n] = s.stacks[n]
         /\ n = s.thread =>
              /\ Len(t.stacks[n]) = Len(s.stacks[n]) + 1
              /\ \A i \in 1..Len(s.stacks[n]) :
                   t.stacks[n][i] = s.stacks[n][i]
              /\ t.stacks[n][Len(t.stacks[n])] = new
<1>1. /\ Stack(s) = s.stacks[s.thread] /\ Depth(s) = Len(s.stacks[s.thread])
      /\ Stack(t) = t.stacks[t.thread] /\ Depth(t) = Len(t.stacks[t.thread])
  BY StackIsSequence
<1>2. /\ t.thread = s.thread /\ Depth(t) = Depth(s) + 1
      /\ \A i \in 1..Depth(s) : Stack(t)[i] = Stack(s)[i]
      /\ Stack(t)[Depth(t)] = new
      /\ n # s.thread => t.stacks[n] = s.stacks[n]
  BY DEF Called
<1>3. CASE n = s.thread
  <2>1. n = t.thread
    BY <1>2, <1>3
  <2>2. Stack(s) = s.stacks[n] /\ Depth(s) = Len(s.stacks[n])
    BY <1>1, <1>3
  <2>3. Stack(t) = t.stacks[n] /\ Depth(t) = Len(t.stacks[n])
    BY <1>1, <2>1
  <2> QED BY <1>2, <1>3, <2>2, <2>3
<1>4. CASE n # s.thread
  BY <1>2, <1>4
<1> QED BY <1>3, <1>4

\* The same of each thread, for a frame at a place.
LEMMA CallPlace ==
  ASSUME NEW s \in States, Whole(s), NEW t \in States, Whole(t),
         NEW new, Called(s, t, new), NEW n \in Threads, NEW i
  PROVE  /\ Len(s.stacks[n]) \in Nat \ {0} /\ Len(t.stacks[n]) \in Nat \ {0}
         /\ i \in 1..Len(s.stacks[n]) =>
              /\ i \in 1..Len(t.stacks[n]) /\ t.stacks[n][i] = s.stacks[n][i]
              /\ n = s.thread => i # Len(t.stacks[n])
         /\ i \in 1..Len(t.stacks[n]) =>
              \/ i \in 1..Len(s.stacks[n]) /\ t.stacks[n][i] = s.stacks[n][i]
              \/ /\ n = s.thread /\ i = Len(t.stacks[n])
                 /\ i = Len(s.stacks[n]) + 1 /\ t.stacks[n][i] = new
<1>1. Len(s.stacks[n]) \in Nat \ {0} /\ Len(t.stacks[n]) \in Nat \ {0}
  BY StacksAreSequences
<1>2. CASE n = s.thread
  <2>a. /\ Len(t.stacks[n]) = Len(s.stacks[n]) + 1
        /\ \A j \in 1..Len(s.stacks[n]) : t.stacks[n][j] = s.stacks[n][j]
        /\ t.stacks[n][Len(t.stacks[n])] = new
    BY <1>2, CallPlaces
  <2>1. PICK q, r : q = s.stacks[n] /\ r = t.stacks[n]
    OBVIOUS
  <2>2. /\ Len(q) \in Nat \ {0} /\ Len(r) = Len(q) + 1
        /\ \A j \in 1..Len(q) : r[j] = q[j]
        /\ r[Len(r)] = new
    BY <1>1, <2>a, <2>1
  <2>3. i \in 1..Len(q) => i \in 1..Len(r) /\ r[i] = q[i] /\ i # Len(r)
    BY <2>2
  <2>4. i \in 1..Len(r) => i \in 1..Len(q) \/ i = Len(r)
    BY <2>2
  <2>5. i = Len(r) => i = Len(q) + 1 /\ r[i] = new
    BY <2>2
  <2> QED BY <1>1, <1>2, <2>1, <2>3, <2>4, <2>5
<1>3. CASE n # s.thread
  <2>1. t.stacks[n] = s.stacks[n]
    BY <1>3, CallPlaces
  <2> QED BY <1>1, <1>3, <2>1
<1> QED BY <1>2, <1>3

LEMMA CallWaits ==
  ASSUME NEW s \in States, Whole(s), NEW t \in States, Whole(t),
         NEW new, Called(s, t, new), NEW f
  PROVE  WaitsIn(t, f) <=> WaitsIn(s, f) \/ f = Top(s)
<1> DEFINE th == s.thread
<1>0. th \in Threads /\ Top(s) = s.stacks[th][Len(s.stacks[th])]
  BY StackIsSequence
<1>1. ASSUME NEW n \in Threads, NEW i \in 1..(Len(t.stacks[n]) - 1),
             t.stacks[n][i] = f, ~WaitsIn(s, f)
      PROVE  f = Top(s)
  <2>1. Len(s.stacks[n]) \in Nat \ {0}
    BY StacksAreSequences
  <2>2. ~\E j \in 1..(Len(s.stacks[n]) - 1) : s.stacks[n][j] = f
    BY <1>1, WaitsAtPlace
  <2>3. n = th
    BY <1>1, <2>2, CallPlaces
  <2>4. /\ Len(t.stacks[n]) = Len(s.stacks[n]) + 1
        /\ \A j \in 1..Len(s.stacks[n]) : t.stacks[n][j] = s.stacks[n][j]
    BY <2>3, CallPlaces
  <2>5. i \in 1..Len(s.stacks[n]) /\ s.stacks[n][i] = f
    BY <2>1, <2>4, <1>1
  <2> QED BY <2>1, <2>2, <2>3, <2>5, <1>0
<1>2. ASSUME WaitsIn(s, f) PROVE WaitsIn(t, f)
  <2>1. PICK n \in Threads : \E i \in 1..(Len(s.stacks[n]) - 1) :
               s.stacks[n][i] = f
    BY <1>2, WaitsAtPlace
  <2>2. PICK i \in 1..(Len(s.stacks[n]) - 1) : s.stacks[n][i] = f
    BY <2>1
  <2>3. Len(s.stacks[n]) \in Nat \ {0}
    BY StacksAreSequences
  <2>4. i \in 1..(Len(t.stacks[n]) - 1) /\ t.stacks[n][i] = f
    BY <2>2, <2>3, CallPlaces, SMTT(30)
  <2> QED BY <2>4, WaitsAtPlace
<1>3. WaitsIn(t, Top(s))
  <2>1. Len(s.stacks[th]) \in Nat \ {0}
    BY <1>0, StacksAreSequences
  <2>2. /\ Len(s.stacks[th]) \in 1..(Len(t.stacks[th]) - 1)
        /\ t.stacks[th][Len(s.stacks[th])] = Top(s)
    BY <2>1, <1>0, CallPlaces, SMTT(30)
  <2> QED BY <2>2, <1>0, WaitsAtPlace
<1>4. WaitsIn(t, f) => WaitsIn(s, f) \/ f = Top(s)
  BY <1>1, WaitsAtPlace
<1> QED BY <1>2, <1>3, <1>4

LEMMA CallFrames ==
  ASSUME NEW s \in States, Whole(s), NEW t \in States, Whole(t),
         NEW new, Called(s, t, new), NEW f
  PROVE  /\ f \in Frames(t) <=> f \in Frames(s) \/ f = new
         /\ new \notin Frames(s)
<1> DEFINE th == s.thread
<1>0. th \in Threads /\ Len(s.stacks[th]) \in Nat /\ Len(t.stacks[th]) \in Nat
  BY StackIsSequence, StacksAreSequences
<1>1. /\ Len(t.stacks[th]) = Len(s.stacks[th]) + 1
      /\ \A j \in 1..Len(s.stacks[th]) : t.stacks[th][j] = s.stacks[th][j]
      /\ t.stacks[th][Len(t.stacks[th])] = new
  BY <1>0, CallPlaces
<1>2. new \in Frames(t)
  BY <1>0, <1>1, FrameAtPlace, SMTT(30)
<1>3. ASSUME f \in Frames(s) PROVE f \in Frames(t) /\ f # new
  <2>1. PICK n \in Threads : \E i \in 1..Len(s.stacks[n]) : s.stacks[n][i] = f
    BY <1>3, FrameAtPlace
  <2>2. PICK i \in 1..Len(s.stacks[n]) : s.stacks[n][i] = f
    BY <2>1
  <2>3. /\ i \in 1..Len(t.stacks[n]) /\ t.stacks[n][i] = f
        /\ n = th => i # Len(t.stacks[n])
    BY <2>2, CallPlace
  <2>4. f \in Frames(t)
    BY <2>3, FrameAtPlace
  <2>5. f # new
    <3>1. Len(t.stacks[th]) \in 1..Len(t.stacks[th])
      BY <1>0, <1>1
    <3>2. f = new => t.stacks[n][i] = t.stacks[th][Len(t.stacks[th])]
      BY <2>3, <1>1
    <3>3. f = new => n = th /\ i = Len(t.stacks[th])
      BY <3>1, <3>2, <2>3, <1>0, OnePlace
    <3> QED BY <3>3, <2>3
  <2> QED BY <2>4, <2>5
<1>4. ASSUME f \in Frames(t), f # new PROVE f \in Frames(s)
  <2>1. PICK n \in Threads : \E i \in 1..Len(t.stacks[n]) : t.stacks[n][i] = f
    BY <1>4, FrameAtPlace
  <2>2. PICK i \in 1..Len(t.stacks[n]) : t.stacks[n][i] = f
    BY <2>1
  <2>3. i \in 1..Len(s.stacks[n]) /\ s.stacks[n][i] = f
    BY <2>2, <1>4, CallPlace
  <2> QED BY <2>3, FrameAtPlace
<1>5. new \notin Frames(s)
  <2>1. ASSUME NEW n \in Threads, NEW i \in 1..Len(s.stacks[n]),
               s.stacks[n][i] = new
        PROVE  FALSE
    <3>1. /\ i \in 1..Len(t.stacks[n]) /\ t.stacks[n][i] = new
          /\ n = th => i # Len(t.stacks[n])
      BY <2>1, CallPlace
    <3>2. Len(t.stacks[th]) \in 1..Len(t.stacks[th])
      BY <1>0, <1>1
    <3>3. t.stacks[n][i] = t.stacks[th][Len(t.stacks[th])]
      BY <3>1, <1>1
    <3>4. n = th /\ i = Len(t.stacks[th])
      BY <3>1, <3>2, <3>3, <1>0, OnePlace, SMTT(30)
    <3> QED BY <3>1, <3>4
  <2> QED BY <2>1, FrameAtPlace
<1> QED BY <1>2, <1>3, <1>4, <1>5

\* In state s, frame p called frame f and waits for it.
Above(s, f, p) ==
  \E n \in Threads : \E i \in 2..Len(s.stacks[n]) :
    s.stacks[n][i] = f /\ s.stacks[n][i - 1] = p

LEMMA AboveTop ==
  ASSUME NEW s \in States, Whole(s), NEW f, NEW p, Above(s, f, p)
  PROVE  f \in Frames(s) /\ Top(s) # p /\ WaitsIn(s, p)
<1>1. PICK n \in Threads : \E i \in 2..Len(s.stacks[n]) :
             s.stacks[n][i] = f /\ s.stacks[n][i - 1] = p
  BY DEF Above
<1>2. PICK i \in 2..Len(s.stacks[n]) :
             s.stacks[n][i] = f /\ s.stacks[n][i - 1] = p
  BY <1>1
<1>3. Len(s.stacks[n]) \in Nat
  BY StacksAreSequences
<1>4. i \in 1..Len(s.stacks[n]) /\ i - 1 \in 1..(Len(s.stacks[n]) - 1)
  BY <1>2, <1>3
<1>5. f \in Frames(s)
  BY <1>2, <1>4, FrameAtPlace
<1>6. WaitsIn(s, p)
  BY <1>2, <1>4, WaitsAtPlace
<1> QED BY <1>5, <1>6, TopRuns

LEMMA CallAbove ==
  ASSUME NEW s \in States, Whole(s), NEW t \in States, Whole(t),
         NEW new, Called(s, t, new), NEW f, NEW p
  PROVE  /\ Above(s, f, p) => Above(t, f, p)
         /\ Above(t, f, p) => \/ Above(s, f, p) /\ Top(s) # p
                              \/ f = new /\ Top(s) = p
<1> DEFINE th == s.thread
<1>0. /\ th \in Threads /\ Len(s.stacks[th]) \in Nat \ {0}
      /\ Len(t.stacks[th]) \in Nat
      /\ Top(s) = s.stacks[th][Len(s.stacks[th])]
  BY StackIsSequence, StacksAreSequences
<1>1. /\ Len(t.stacks[th]) = Len(s.stacks[th]) + 1
      /\ \A j \in 1..Len(s.stacks[th]) : t.stacks[th][j] = s.stacks[th][j]
      /\ t.stacks[th][Len(t.stacks[th])] = new
  BY <1>0, CallPlaces, SMTT(30)
<1>2. ASSUME NEW n \in Threads, NEW i \in 2..Len(s.stacks[n]),
             s.stacks[n][i] = f, s.stacks[n][i - 1] = p
      PROVE  Above(t, f, p)
  <2>1. i \in 1..Len(s.stacks[n]) /\ i - 1 \in 1..Len(s.stacks[n])
    BY StacksAreSequences
  <2>2. i \in 1..Len(t.stacks[n]) /\ t.stacks[n][i] = f
    BY <2>1, <1>2, CallPlace
  <2>3. t.stacks[n][i - 1] = p
    BY <2>1, <1>2, CallPlace, SMTT(30)
  <2>4. i \in 2..Len(t.stacks[n])
    BY <2>2, StacksAreSequences
  <2> QED BY <2>2, <2>3, <2>4 DEF Above
<1>3. ASSUME NEW n \in Threads, NEW i \in 2..Len(t.stacks[n]),
             t.stacks[n][i] = f, t.stacks[n][i - 1] = p
      PROVE  Above(s, f, p) \/ (f = new /\ Top(s) = p)
  <2>0. /\ Len(s.stacks[n]) \in Nat /\ Len(t.stacks[n]) \in Nat
        /\ i \in 1..Len(t.stacks[n]) /\ i - 1 \in 1..Len(t.stacks[n])
    BY StacksAreSequences
  <2>1. CASE i \in 1..Len(s.stacks[n])
    <3>1. i - 1 \in 1..Len(s.stacks[n])
      BY <2>0, <2>1
    <3>2. s.stacks[n][i - 1] = p
      BY <3>1, <1>3, CallPlace, SMTT(30)
    <3>3. s.stacks[n][i] = f
      BY <2>1, <1>3, CallPlace
    <3>4. i \in 2..Len(s.stacks[n])
      BY <2>0, <2>1
    <3> QED BY <3>2, <3>3, <3>4 DEF Above
  <2>2. CASE i \notin 1..Len(s.stacks[n])
    <3>1. n = th /\ i = Len(s.stacks[n]) + 1 /\ f = new
      BY <2>0, <2>2, <1>3, CallPlace
    <3>2. i - 1 \in 1..Len(s.stacks[n])
      BY <2>0, <3>1
    <3>3. s.stacks[n][i - 1] = p
      BY <3>2, <1>3, CallPlace, SMTT(30)
    <3> QED BY <3>1, <3>3, <1>0
  <2> QED BY <2>1, <2>2
<1>4. Above(s, f, p) => Top(s) # p
  BY AboveTop
<1> QED BY <1>2, <1>3, <1>4 DEF Above

-----------------------------------------------------------------------------
(***************************************************************************)
(* One change of the recording.                                            *)
(***************************************************************************)
Changed(s, t, new) ==
  /\ s \in States /\ Whole(s) /\ t \in States /\ Whole(t)
  /\ \/ Called(s, t, new)
     \/ Called(t, s, Top(s))
     \/ Switched(s, t)

LEMMA SwitchSame ==
  ASSUME NEW s, NEW t, Switched(s, t), NEW f, NEW p
  PROVE  /\ Number(s, t, f) = 0
         /\ WaitsIn(s, f) <=> WaitsIn(t, f)
         /\ Frames(s) = Frames(t)
         /\ Above(s, f, p) <=> Above(t, f, p)
BY DEF Switched, Number, WaitsIn, Frames, Above

(***************************************************************************)
(* The number that is reported of a frame tells whether it waits, and      *)
(* nothing else lets it wait or go on.                                     *)
(***************************************************************************)
LEMMA NumberWaits ==
  ASSUME NEW s, NEW t, NEW new, Changed(s, t, new), NEW f
  PROVE  /\ Number(s, t, f) \in {0, -1, -2}
         /\ Number(s, t, f) = -1 => ~WaitsIn(s, f) /\ WaitsIn(t, f)
         /\ Number(s, t, f) = -2 => WaitsIn(s, f) /\ ~WaitsIn(t, f)
         /\ Number(s, t, f) = 0 => (WaitsIn(s, f) <=> WaitsIn(t, f))
<1>0. s \in States /\ Whole(s) /\ t \in States /\ Whole(t)
  BY DEF Changed
<1>1. CASE Called(s, t, new)
  <2>1. Number(s, t, f) = IF Top(s) = f THEN -1 ELSE 0
    BY <1>0, <1>1, NumberOfCall
  <2>2. WaitsIn(t, f) <=> WaitsIn(s, f) \/ f = Top(s)
    BY <1>0, <1>1, CallWaits
  <2>3. ~WaitsIn(s, Top(s))
    BY <1>0, TopRuns
  <2> QED BY <2>1, <2>2, <2>3
<1>2. CASE Called(t, s, Top(s))
  <2>1. Number(s, t, f) = IF Top(t) = f THEN -2 ELSE 0
    BY <1>0, <1>2, NumberOfCall
  <2>2. WaitsIn(s, f) <=> WaitsIn(t, f) \/ f = Top(t)
    BY <1>0, <1>2, CallWaits
  <2>3. ~WaitsIn(t, Top(t))
    BY <1>0, TopRuns
  <2> QED BY <2>1, <2>2, <2>3
<1>3. CASE Switched(s, t)
  BY <1>3, SwitchSame
<1> QED BY <1>1, <1>2, <1>3 DEF Changed

(***************************************************************************)
(* As long as frame f is above its caller p, the only number of p is that  *)
(* of the return from f; before f came, the only one is that of its call.  *)
(***************************************************************************)
LEMMA NumberAbove ==
  ASSUME NEW s, NEW t, NEW new, Changed(s, t, new), NEW f, NEW p
  PROVE  /\ Above(s, f, p) =>
              \/ Number(s, t, p) = 0 /\ Above(t, f, p)
              \/ Number(s, t, p) # 0 /\ f \notin Frames(t)
         /\ Above(t, f, p) =>
              \/ Number(s, t, p) = 0 /\ Above(s, f, p)
              \/ Number(s, t, p) # 0 /\ f \notin Frames(s)
<1>0. s \in States /\ Whole(s) /\ t \in States /\ Whole(t)
  BY DEF Changed
<1>1. CASE Called(s, t, new)
  <2>1. Number(s, t, p) = IF Top(s) = p THEN -1 ELSE 0
    BY <1>0, <1>1, NumberOfCall
  <2>2. /\ Above(s, f, p) => Above(t, f, p)
        /\ Above(t, f, p) => \/ Above(s, f, p) /\ Top(s) # p
                             \/ f = new /\ Top(s) = p
    BY <1>0, <1>1, CallAbove
  <2>3. new \notin Frames(s)
    BY <1>0, <1>1, CallFrames
  <2>4. Above(s, f, p) => Top(s) # p
    BY <1>0, AboveTop
  <2> QED BY <2>1, <2>2, <2>3, <2>4
<1>2. CASE Called(t, s, Top(s))
  <2>1. Number(s, t, p) = IF Top(t) = p THEN -2 ELSE 0
    BY <1>0, <1>2, NumberOfCall
  <2>2. /\ Above(t, f, p) => Above(s, f, p)
        /\ Above(s, f, p) => \/ Above(t, f, p) /\ Top(t) # p
                             \/ f = Top(s) /\ Top(t) = p
    BY <1>0, <1>2, CallAbove
  <2>3. Top(s) \notin Frames(t)
    BY <1>0, <1>2, CallFrames
  <2>4. Above(t, f, p) => Top(t) # p
    BY <1>0, AboveTop
  <2> QED BY <2>1, <2>2, <2>3, <2>4
<1>3. CASE Switched(s, t)
  BY <1>3, SwitchSame
<1> QED BY <1>1, <1>2, <1>3 DEF Changed

\* Only a call brings a frame, the one that it makes.
LEMMA FramesNew ==
  ASSUME NEW s, NEW t, NEW new, Changed(s, t, new), NEW f,
         f \in Frames(t), f # new
  PROVE  f \in Frames(s)
<1>0. s \in States /\ Whole(s) /\ t \in States /\ Whole(t)
  BY DEF Changed
<1>1. CASE Called(s, t, new)
  BY <1>0, <1>1, CallFrames
<1>2. CASE Called(t, s, Top(s))
  BY <1>0, <1>2, CallFrames
<1>3. CASE Switched(s, t)
  BY <1>3, SwitchSame
<1> QED BY <1>1, <1>2, <1>3 DEF Changed

-----------------------------------------------------------------------------
(***************************************************************************)
(* The changes that the recording is made of are of these kinds.           *)
(***************************************************************************)
LEMMA OnStackIs ==
  ASSUME NEW s \in States, NEW q \in Seq(Nat \ {0})
  PROVE  /\ OnStack(s, q) \in States
         /\ OnStack(s, q).thread = s.thread
         /\ OnStack(s, q).stacks = [s.stacks EXCEPT ![s.thread] = q]
         /\ Stack(OnStack(s, q)) = q /\ Depth(OnStack(s, q)) = Len(q)
         /\ \A n \in Threads \ {s.thread} :
              OnStack(s, q).stacks[n] = s.stacks[n]
<1>1. s.thread \in Threads /\ s.stacks \in [Threads -> Seq(Nat \ {0})]
  BY DEF States
<1>2. OnStack(s, q) = [thread |-> s.thread,
                       stacks |-> [s.stacks EXCEPT ![s.thread] = q]]
  BY DEF OnStack
<1>3. [s.stacks EXCEPT ![s.thread] = q] \in [Threads -> Seq(Nat \ {0})]
  BY <1>1
<1> QED BY <1>1, <1>2, <1>3 DEF States, Stack, Depth

LEMMA CallChange ==
  ASSUME NEW s \in States, Whole(s), NEW new \in Nat \ {0},
         new \notin Frames(s)
  PROVE  LET t == OnStack(s, Append(Stack(s), new))
         IN  Changed(s, t, new) /\ Called(s, t, new)
<1> DEFINE q == Append(Stack(s), new)
           t == OnStack(s, q)
<1>1. /\ q \in Seq(Nat \ {0}) /\ Len(q) = Depth(s) + 1 /\ q # <<>>
      /\ \A i \in 1..Depth(s) : q[i] = Stack(s)[i]
      /\ q[Depth(s) + 1] = new
  BY StackIsSequence, AppendProperties DEF Depth
<1>2. /\ t \in States /\ t.thread = s.thread
      /\ Stack(t) = q /\ Depth(t) = Len(q)
      /\ \A n \in Threads \ {s.thread} : t.stacks[n] = s.stacks[n]
  <2> HIDE DEF q
  <2> QED BY <1>1, OnStackIs
<1>3. Called(s, t, new)
  <2> HIDE DEF q, t
  <2> QED BY <1>1, <1>2 DEF Called
<1>4. Whole(t)
  <2> HIDE DEF q, t
  <2>1. t.stacks[s.thread] = q /\ s.thread \in Threads
    BY <1>2, StackIsSequence DEF Stack
  <2>2. ASSUME NEW n \in Threads PROVE t.stacks[n] # <<>>
    BY <2>1, <1>1, <1>2 DEF Whole
  <2>3. ASSUME NEW n \in Threads, NEW i \in 1..Len(t.stacks[n])
        PROVE  \/ /\ i \in 1..Len(s.stacks[n])
                  /\ t.stacks[n][i] = s.stacks[n][i]
               \/ /\ n = s.thread /\ i = Depth(s) + 1
                  /\ t.stacks[n][i] = new
    <3>1. CASE n = s.thread
      BY <3>1, <1>1, <2>1, StackIsSequence, SMTT(30)
    <3>2. CASE n # s.thread
      BY <3>2, <1>2
    <3> QED BY <3>1, <3>2
  <2>4. ASSUME NEW n \in Threads, NEW i \in 1..Len(s.stacks[n])
        PROVE  s.stacks[n][i] # new
    BY FrameAtPlace
  <2>5. ASSUME NEW n \in Threads, NEW m \in Threads,
               NEW i \in 1..Len(t.stacks[n]), NEW j \in 1..Len(t.stacks[m]),
               t.stacks[n][i] = t.stacks[m][j]
        PROVE  n = m /\ i = j
    <3>1. CASE t.stacks[n][i] = new
      BY <3>1, <2>5, <2>3, <2>4
    <3>2. CASE t.stacks[n][i] # new
      <4>1. /\ i \in 1..Len(s.stacks[n]) /\ j \in 1..Len(s.stacks[m])
            /\ s.stacks[n][i] = s.stacks[m][j]
        BY <3>2, <2>5, <2>3
      <4> QED BY <4>1, OnePlace
    <3> QED BY <3>1, <3>2
  <2> QED BY <2>2, <2>5 DEF Whole
<1> QED BY <1>2, <1>3, <1>4 DEF Changed

LEMMA ReturnChange ==
  ASSUME NEW s \in States, Whole(s), NEW new, Front(Stack(s)) # <<>>
  PROVE  LET t == OnStack(s, Front(Stack(s)))
         IN  Changed(s, t, new) /\ Called(t, s, Top(s))
<1> DEFINE q == Front(Stack(s))
           t == OnStack(s, q)
<1>0. Stack(s) # <<>>
  BY StackIsSequence DEF Depth
<1>1. /\ q \in Seq(Nat \ {0}) /\ Len(q) = Depth(s) - 1
      /\ \A i \in 1..(Depth(s) - 1) : q[i] = Stack(s)[i]
  BY <1>0, StackIsSequence, FrontOfSequence DEF Depth
<1>2. /\ t \in States /\ t.thread = s.thread
      /\ Stack(t) = q /\ Depth(t) = Len(q)
      /\ \A n \in Threads \ {s.thread} : t.stacks[n] = s.stacks[n]
  <2> HIDE DEF q
  <2> QED BY <1>1, OnStackIs
<1>3. Called(t, s, Top(s))
  <2> HIDE DEF q, t
  <2> QED BY <1>1, <1>2, StackIsSequence DEF Called
<1>4. Whole(t)
  <2>0. q # <<>>
    OBVIOUS
  <2> HIDE DEF q, t
  <2>1. t.stacks[s.thread] = q /\ s.thread \in Threads
    BY <1>2, StackIsSequence DEF Stack
  <2>2. ASSUME NEW n \in Threads PROVE t.stacks[n] # <<>>
    BY <2>0, <2>1, <1>2 DEF Whole
  <2>3. ASSUME NEW n \in Threads, NEW i \in 1..Len(t.stacks[n])
        PROVE  /\ i \in 1..Len(s.stacks[n])
               /\ t.stacks[n][i] = s.stacks[n][i]
    <3>1. CASE n = s.thread
      BY <3>1, <1>1, <2>1, StackIsSequence, SMTT(30)
    <3>2. CASE n # s.thread
      BY <3>2, <1>2
    <3> QED BY <3>1, <3>2
  <2>5. ASSUME NEW n \in Threads, NEW m \in Threads,
               NEW i \in 1..Len(t.stacks[n]), NEW j \in 1..Len(t.stacks[m]),
               t.stacks[n][i] = t.stacks[m][j]
        PROVE  n = m /\ i = j
    <3>1. /\ i \in 1..Len(s.stacks[n]) /\ j \in 1..Len(s.stacks[m])
          /\ s.stacks[n][i] = s.stacks[m][j]
      BY <2>5, <2>3
    <3> QED BY <3>1, OnePlace
  <2> QED BY <2>2, <2>5 DEF Whole
<1> QED BY <1>2, <1>3, <1>4 DEF Changed

LEMMA SwitchChange ==
  ASSUME NEW s \in States, Whole(s), NEW new, NEW n \in Threads \ {s.thread}
  PROVE  LET t == [thread |-> n, stacks |-> s.stacks]
         IN  Changed(s, t, new) /\ Switched(s, t)
<1> DEFINE t == [thread |-> n, stacks |-> s.stacks]
<1>1. t \in States /\ t.thread = n /\ t.stacks = s.stacks
  BY DEF States
<1> QED BY <1>1 DEF Changed, Switched, Whole

LEMMA ChangeIs ==
  ASSUME NEW s \in States, Whole(s), NEW new \in Nat \ {0},
         new \notin Frames(s), NEW kind \in Kinds,
         NEW t \in Change(s, kind, new)
  PROVE  Changed(s, t, new) /\ (kind # "switch" => t.thread = s.thread)
<1>1. CASE kind = "call"
  <2>1. t = OnStack(s, Append(Stack(s), new))
    BY <1>1 DEF Change
  <2> QED BY <1>1, <2>1, CallChange DEF Called
<1>2. CASE kind = "return"
  <2>1. t = OnStack(s, Front(Stack(s))) /\ Front(Stack(s)) # <<>>
    BY <1>2 DEF Change
  <2> QED BY <1>2, <2>1, ReturnChange DEF Called
<1>3. CASE kind = "switch"
  <2>1. PICK n \in Threads \ {s.thread} : t = [thread |-> n, stacks |-> s.stacks]
    BY <1>3 DEF Change
  <2> QED BY <1>3, <2>1, SwitchChange
<1> QED BY <1>1, <1>2, <1>3 DEF Kinds

-----------------------------------------------------------------------------
(***************************************************************************)
(* The invariant: a recording of such changes, cut into gaps, and where a  *)
(* command is.                                                             *)
(***************************************************************************)
Older(s, new) == \A f \in Frames(s) : f < new

TraceInv ==
  /\ trace \in Seq(States) /\ trace # <<>>
  /\ kinds \in Seq(Kinds) /\ Len(kinds) = Len(trace) - 1
  /\ \A i \in 1..Len(trace) :
       Whole(trace[i]) /\ Older(trace[i], FirstNew + i)
  /\ \A i \in 1..Len(kinds) :
       /\ Changed(trace[i], trace[i + 1], FirstNew + i)
       /\ kinds[i] # "switch" => trace[i + 1].thread = trace[i].thread

CutsInv ==
  /\ at \in Seq(Nat) /\ Len(at) \in Times /\ at[1] = 1
  /\ \A t \in 1..Len(at) : at[t] \in 1..Len(trace)
  /\ \A t, u \in 1..Len(at) : t <= u => at[t] <= at[u]
  /\ hidden \subseteq Times \ {1} /\ stops \subseteq Gaps

CommandInv ==
  /\ now \in Times /\ frame \in Nat
  /\ request.start \in Times
  /\ request.thread \in Threads \cup {NoThread}
  /\ phase # "record" => Len(at) = Total
  /\ \/ phase \in {"record", "prompt"} /\ request = NoRequest
     \/ phase \in {"next", "over"} /\ request.op = "next"
     \/ phase \in {"bnext", "bover"} /\ request.op = "bnext"
     \/ /\ phase \in {"finish", "bfinish", "nthread", "bthread"}
        /\ request.op = phase /\ now = request.start

Inv == TraceInv /\ CutsInv /\ CommandInv

LEMMA SmallSequences ==
  ASSUME NEW S, NEW x \in S
  PROVE  <<x>> \in Seq(S) /\ Len(<<x>>) = 1 /\ <<x>>[1] = x /\ <<x>> # <<>>
OBVIOUS

LEMMA InitInv == Init => Inv
<1> SUFFICES ASSUME Init PROVE Inv
  OBVIOUS
<1>1. PICK s \in Beginnings : trace = <<s>>
  BY DEF Init
<1>2. s \in States /\ Whole(s) /\ \A f \in Frames(s) : f < FirstNew
  BY <1>1, SteppingAssumption
<1>3. trace \in Seq(States) /\ Len(trace) = 1 /\ trace[1] = s /\ trace # <<>>
  BY <1>1, <1>2, SmallSequences
<1>4. kinds \in Seq(Kinds) /\ Len(kinds) = 0
  BY EmptySeq DEF Init
<1>5. Older(s, FirstNew + 1)
  <2> SUFFICES ASSUME NEW f \in Frames(s) PROVE f < FirstNew + 1
    BY DEF Older
  <2>1. PICK n \in Threads : \E i \in 1..Len(s.stacks[n]) : s.stacks[n][i] = f
    BY <1>2, FrameAtPlace
  <2>2. f \in Nat
    BY <1>2, <2>1, StacksAreSequences
  <2> QED BY <1>2, <2>2, SteppingAssumption
<1>6. TraceInv
  BY <1>2, <1>3, <1>4, <1>5 DEF TraceInv
<1>7. at \in Seq(Nat) /\ Len(at) = 1 /\ at[1] = 1
  BY SmallSequences DEF Init
<1>8. CutsInv
  BY <1>3, <1>7, SteppingAssumption DEF CutsInv, Init, Times
<1>9. CommandInv
  BY SteppingAssumption DEF CommandInv, Init, NoRequest, Times
<1> QED BY <1>6, <1>8, <1>9 DEF Inv

\* What an appended element leaves as it was.
LEMMA Appended ==
  ASSUME NEW S, NEW q \in Seq(S), NEW x \in S, NEW r, r = Append(q, x)
  PROVE  /\ r \in Seq(S) /\ r # <<>> /\ Len(r) = Len(q) + 1
         /\ \A i \in 1..Len(q) : r[i] = q[i]
         /\ r[Len(q) + 1] = x /\ Last(r) = x
BY AppendProperties DEF Last

LEMMA HappenTrace ==
  ASSUME TraceInv, NEW kind \in Kinds, Happen(kind)
  PROVE  TraceInv'
<1> DEFINE n == Len(trace)
<1>0. n \in Nat \ {0} /\ Len(kinds) = n - 1 /\ Last(trace) = trace[n]
  BY DEF TraceInv, Last
<1>1. PICK s \in Change(Last(trace), kind, FirstNew + n) :
             trace' = Append(trace, s)
  BY DEF Happen
<1>2. trace[n] \in States /\ Whole(trace[n]) /\ Older(trace[n], FirstNew + n)
  BY <1>0 DEF TraceInv
<1>3. FirstNew + n \in Nat \ {0} /\ FirstNew + n \notin Frames(trace[n])
  BY <1>0, <1>2, SteppingAssumption DEF Older
<1>4. /\ Changed(trace[n], s, FirstNew + n)
      /\ kind # "switch" => s.thread = trace[n].thread
  BY <1>0, <1>1, <1>2, <1>3, ChangeIs
<1>5. s \in States /\ Whole(s)
  BY <1>4 DEF Changed
<1>6. /\ trace' \in Seq(States) /\ trace' # <<>> /\ Len(trace') = n + 1
      /\ \A i \in 1..n : trace'[i] = trace[i]
      /\ trace'[n + 1] = s
  BY <1>1, <1>5, Appended DEF TraceInv
<1>7. /\ kinds' \in Seq(Kinds) /\ Len(kinds') = n
      /\ \A i \in 1..(n - 1) : kinds'[i] = kinds[i]
      /\ kinds'[n] = kind
  <2>1. kinds' = Append(kinds, kind) /\ kinds \in Seq(Kinds)
    BY DEF Happen, TraceInv
  <2> QED BY <2>1, <1>0, Appended
<1>8. Older(s, FirstNew + (n + 1))
  <2> SUFFICES ASSUME NEW f \in Frames(s) PROVE f < FirstNew + (n + 1)
    BY DEF Older
  <2>1. PICK m \in Threads : \E i \in 1..Len(s.stacks[m]) : s.stacks[m][i] = f
    BY <1>5, FrameAtPlace
  <2>2. f \in Nat
    BY <1>5, <2>1, StacksAreSequences
  <2>3. f # FirstNew + n => f \in Frames(trace[n])
    BY <1>4, FramesNew
  <2> QED BY <1>0, <1>2, <2>2, <2>3, SteppingAssumption DEF Older
<1>9. \A i \in 1..Len(trace') : Whole(trace'[i]) /\ Older(trace'[i], FirstNew + i)
  BY <1>0, <1>5, <1>6, <1>8 DEF TraceInv
<1>10. ASSUME NEW i \in 1..Len(kinds')
       PROVE  /\ Changed(trace'[i], trace'[i + 1], FirstNew + i)
              /\ kinds'[i] # "switch" => trace'[i + 1].thread = trace'[i].thread
  <2>1. CASE i = n
    BY <2>1, <1>0, <1>4, <1>6, <1>7
  <2>2. CASE i # n
    <3>1. /\ i \in 1..Len(kinds) /\ i \in 1..n /\ i + 1 \in 1..n
          /\ i \in 1..(n - 1)
      BY <2>2, <1>0, <1>7
    <3>2. /\ Changed(trace[i], trace[i + 1], FirstNew + i)
          /\ kinds[i] # "switch" => trace[i + 1].thread = trace[i].thread
      BY <3>1 DEF TraceInv
    <3> QED BY <3>1, <3>2, <1>6, <1>7
  <2> QED BY <2>1, <2>2
<1> QED BY <1>0, <1>6, <1>7, <1>9, <1>10 DEF TraceInv

LEMMA HappenCuts ==
  ASSUME TraceInv, CutsInv, NEW kind \in Kinds, Happen(kind)
  PROVE  CutsInv'
<1>1. PICK s : trace' = Append(trace, s)
  BY DEF Happen
<1>2. Len(trace') = Len(trace) + 1 /\ Len(trace) \in Nat
  BY <1>1 DEF TraceInv
<1>3. UNCHANGED <<at, hidden, stops>>
  BY DEF Happen
<1> QED BY <1>2, <1>3 DEF CutsInv

LEMMA StopPointCuts ==
  ASSUME TraceInv, CutsInv, StopPoint
  PROVE  CutsInv'
<1> DEFINE n == Len(at)
<1>1. n \in Nat \ {0} /\ n < Total /\ n + 1 \in Times /\ n \in Gaps
  BY SteppingAssumption DEF StopPoint, CutsInv, Times, Gaps
<1>2. Len(trace) \in Nat \ {0} /\ Len(trace') = Len(trace)
  BY DEF TraceInv, StopPoint
<1>3. /\ at' \in Seq(Nat) /\ Len(at') = n + 1
      /\ \A t \in 1..n : at'[t] = at[t]
      /\ at'[n + 1] = Len(trace)
  <2>1. at' = Append(at, Len(trace)) /\ at \in Seq(Nat) /\ Len(trace) \in Nat
    BY <1>2 DEF StopPoint, CutsInv
  <2> QED BY <2>1, Appended
<1>4. \A t \in 1..n : at[t] \in 1..Len(trace)
  BY DEF CutsInv
<1>5. \A t \in 1..Len(at') : at'[t] \in 1..Len(trace')
  BY <1>1, <1>2, <1>3, <1>4
<1>6. ASSUME NEW t \in 1..Len(at'), NEW u \in 1..Len(at'), t <= u
      PROVE  at'[t] <= at'[u]
  <2>1. CASE u = n + 1
    BY <2>1, <1>1, <1>2, <1>3, <1>5
  <2>2. CASE u # n + 1
    <3>1. t \in 1..n /\ u \in 1..n
      BY <2>2, <1>1, <1>3, <1>6
    <3>2. at[t] <= at[u]
      BY <3>1, <1>6 DEF CutsInv
    <3> QED BY <3>1, <3>2, <1>3
  <2> QED BY <2>1, <2>2
<1>7. hidden' \subseteq Times \ {1} /\ stops' \subseteq Gaps
  <2>1. PICK h \in {{}, {n + 1}}, b \in {{}, {n}} :
               hidden' = hidden \cup h /\ stops' = stops \cup b
    BY DEF StopPoint
  <2> QED BY <2>1, <1>1 DEF CutsInv
<1>8. at'[1] = 1
  BY <1>1, <1>3 DEF CutsInv
<1>9. at' \in Seq(Nat) /\ Len(at') \in Times
  BY <1>1, <1>3
<1> QED BY <1>5, <1>6, <1>7, <1>8, <1>9 DEF CutsInv

-----------------------------------------------------------------------------
(***************************************************************************)
(* Where a move ends, for any set of gaps with hits.                       *)
(***************************************************************************)
LEMMA ForwardAll ==
  ASSUME now \in Times, NEW hits \in SUBSET Gaps, NEW b,
         b = Forward(Total - now, hits)
  PROVE  /\ b.time \in Times /\ b.gap \in 0..Total
         /\ \/ b.gap = 0 /\ b.time = Total /\ \A h \in hits : h < now
            \/ /\ b.gap \in hits /\ now <= b.gap /\ b.time = b.gap + 1
               /\ \A h \in hits : now <= h => b.gap <= h
<1> DEFINE entered == {g \in hits : now <= g /\ g < now + (Total - now)}
<1>0. Total \in Nat \ {0} /\ now \in 1..Total
  BY SteppingAssumption DEF Times
<1>a. \A h \in hits : h \in 1..(Total - 1)
  BY DEF Gaps
<1>1. entered = {g \in hits : now <= g}
  BY <1>0, <1>a
<1>2. CASE entered = {}
  <2>1. b = [time |-> Total, gap |-> 0]
    BY <1>0, <1>2 DEF Forward
  <2> QED BY <1>0, <1>1, <1>2, <2>1 DEF Times, Gaps
<1>3. CASE entered # {}
  <2>1. b = [time |-> Min(entered) + 1, gap |-> Min(entered)]
    BY <1>3 DEF Forward
  <2>2. entered \in SUBSET Nat
    BY <1>0, <1>a
  <2>3. Min(entered) \in entered /\ \A m \in entered : Min(entered) <= m
    <3> HIDE DEF entered
    <3> QED BY <1>3, <2>2, MinOfNumbers
  <2>4. PICK e : e = Min(entered)
    OBVIOUS
  <2>5. e \in hits /\ now <= e /\ \A h \in hits : now <= h => e <= h
    BY <1>1, <2>3, <2>4
  <2>6. b.time = e + 1 /\ b.gap = e
    BY <2>1, <2>4
  <2> QED BY <1>0, <2>5, <2>6 DEF Times, Gaps
<1> QED BY <1>2, <1>3

LEMMA ForwardOne ==
  ASSUME now \in Times, NEW hits \in SUBSET Gaps, NEW b,
         b = Forward(1, hits)
  PROVE  /\ b.time \in Times /\ b.gap \in 0..Total
         /\ \/ now \in hits /\ b.gap = now /\ b.time = now + 1
            \/ /\ now \notin hits /\ b.gap = 0
               /\ b.time = IF now < Total THEN now + 1 ELSE Total
<1> DEFINE entered == {g \in hits : now <= g /\ g < now + 1}
<1>0. Total \in Nat \ {0} /\ now \in 1..Total
  BY SteppingAssumption DEF Times
<1>a. \A h \in hits : h \in 1..(Total - 1)
  BY DEF Gaps
<1>1. entered = IF now \in hits THEN {now} ELSE {}
  BY <1>0, <1>a
<1>2. CASE now \notin hits
  <2>1. b = [time |-> IF now + 1 > Total THEN Total ELSE now + 1, gap |-> 0]
    BY <1>1, <1>2 DEF Forward
  <2> QED BY <1>0, <1>2, <2>1 DEF Times
<1>3. CASE now \in hits
  <2>1. b = [time |-> Min({now}) + 1, gap |-> Min({now})]
    BY <1>1, <1>3 DEF Forward
  <2>2. Min({now}) = now
    BY <1>0, MinOfNumbers
  <2> QED BY <1>0, <1>3, <2>1, <2>2 DEF Times, Gaps
<1> QED BY <1>2, <1>3

LEMMA BackwardAll ==
  ASSUME now \in Times, NEW hits \in SUBSET Gaps, NEW b,
         b = Backward(now - 1, hits)
  PROVE  /\ b.time \in Times /\ b.gap \in 0..Total
         /\ \/ b.gap = 0 /\ b.time = 1 /\ \A h \in hits : h >= now
            \/ /\ b.gap \in hits /\ b.gap < now /\ b.time = b.gap
               /\ \A h \in hits : h < now => h <= b.gap
<1> DEFINE passed == {g \in hits : now - (now - 1) <= g /\ g < now}
<1>0. Total \in Nat \ {0} /\ now \in 1..Total
  BY SteppingAssumption DEF Times
<1>a. \A h \in hits : h \in 1..(Total - 1)
  BY DEF Gaps
<1>1. passed = {g \in hits : g < now}
  BY <1>0, <1>a
<1>2. CASE passed = {}
  <2>1. b = [time |-> 1, gap |-> 0]
    BY <1>0, <1>2 DEF Backward
  <2> QED BY <1>0, <1>1, <1>2, <2>1 DEF Times, Gaps
<1>3. CASE passed # {}
  <2>1. b = [time |-> Max(passed), gap |-> Max(passed)]
    BY <1>3 DEF Backward
  <2>2. passed \in SUBSET (0..Total)
    BY <1>0, <1>a
  <2>3. Max(passed) \in passed /\ \A m \in passed : m <= Max(passed)
    <3> HIDE DEF passed
    <3> QED BY <1>0, <1>3, <2>2, MaxOfNumbers
  <2>4. PICK e : e = Max(passed)
    OBVIOUS
  <2>5. e \in hits /\ e < now /\ \A h \in hits : h < now => h <= e
    BY <1>1, <2>3, <2>4
  <2>6. b.time = e /\ b.gap = e
    BY <2>1, <2>4
  <2> QED BY <1>0, <2>5, <2>6 DEF Times, Gaps
<1> QED BY <1>2, <1>3

LEMMA BackwardOne ==
  ASSUME now \in Times, NEW hits \in SUBSET Gaps, NEW b,
         b = Backward(1, hits)
  PROVE  /\ b.time \in Times /\ b.gap \in 0..Total
         /\ \/ now - 1 \in hits /\ b.gap = now - 1 /\ b.time = now - 1
            \/ /\ now - 1 \notin hits /\ b.gap = 0
               /\ b.time = IF now > 1 THEN now - 1 ELSE 1
<1> DEFINE passed == {g \in hits : now - 1 <= g /\ g < now}
<1>0. Total \in Nat \ {0} /\ now \in 1..Total
  BY SteppingAssumption DEF Times
<1>a. \A h \in hits : h \in 1..(Total - 1)
  BY DEF Gaps
<1>1. passed = IF now - 1 \in hits THEN {now - 1} ELSE {}
  BY <1>0, <1>a
<1>2. CASE now - 1 \notin hits
  <2>1. b = [time |-> IF now - 1 < 1 THEN 1 ELSE now - 1, gap |-> 0]
    BY <1>1, <1>2 DEF Backward
  <2> QED BY <1>0, <1>2, <2>1 DEF Times
<1>3. CASE now - 1 \in hits
  <2>1. b = [time |-> Max({now - 1}), gap |-> Max({now - 1})]
    BY <1>1, <1>3 DEF Backward
  <2>2. Max({now - 1}) = now - 1
    BY <1>0, MaxOfNumbers
  <2>3. now - 1 \in Gaps
    BY <1>3
  <2> QED BY <1>0, <1>3, <2>1, <2>2, <2>3 DEF Times, Gaps
<1> QED BY <1>2, <1>3

LEMMA HitsAreGaps ==
  ASSUME NEW f, NEW n
  PROVE  Hits(f, n) \in SUBSET Gaps
BY DEF Hits

-----------------------------------------------------------------------------
(***************************************************************************)
(* The invariant is inductive.                                             *)
(***************************************************************************)
Recorded == TraceInv /\ CutsInv /\ Len(at) = Total

LEMMA StateIs ==
  ASSUME TraceInv, CutsInv, NEW t \in 1..Len(at)
  PROVE  /\ at[t] \in 1..Len(trace) /\ State(t) = trace[at[t]]
         /\ State(t) \in States /\ Whole(State(t))
         /\ Top(State(t)) \in Nat \ {0}
<1>1. at[t] \in 1..Len(trace)
  BY DEF CutsInv
<1>2. State(t) \in States /\ Whole(State(t))
  BY <1>1 DEF TraceInv, State
<1> QED BY <1>1, <1>2, StackIsSequence DEF State

\* A step of a command: on to the next loop, or to the prompt.
LEMMA ToCommand ==
  ASSUME CommandInv, NEW time \in Times, NEW place, NEW f \in Nat,
         To(time, place, f), phase # "record",
         \/ place = "prompt"
         \/ place \in {"next", "over"} /\ request.op = "next"
         \/ place \in {"bnext", "bover"} /\ request.op = "bnext"
  PROVE  CommandInv'
<1>1. now' = time /\ phase' = place /\ UNCHANGED log
  BY DEF To
<1>2. CASE place = "prompt"
  <2>1. request' = NoRequest /\ frame' = 0
    BY <1>1, <1>2 DEF To
  <2>2. /\ NoRequest.start \in Times
        /\ NoRequest.thread \in Threads \cup {NoThread}
    BY SteppingAssumption DEF NoRequest, Times
  <2> QED BY <1>1, <1>2, <2>1, <2>2 DEF CommandInv, log
<1>3. CASE place # "prompt"
  <2>1. request' = request /\ frame' = f
    BY <1>1, <1>3 DEF To
  <2> QED BY <1>1, <1>3, <2>1 DEF CommandInv, log
<1> QED BY <1>2, <1>3

LEMMA AskCommand ==
  ASSUME CommandInv, NEW op \in Commands, Ask(op)
  PROVE  CommandInv' /\ UNCHANGED <<log, now>> /\ phase' = op
         /\ request'.start = now /\ request'.op = op
<1>1. PICK n \in Threads \cup {NoThread} :
        request' = [op |-> op, start |-> now, thread |-> n]
  BY DEF Ask
<1>2. /\ request'.op = op /\ request'.start = now /\ request'.thread = n
  BY <1>1
<1>3. UNCHANGED <<log, now, frame>> /\ phase = "prompt" /\ phase' = op
  BY DEF Ask
<1>4. \/ op \in {"finish", "bfinish", "nthread", "bthread"}
      \/ op \in {"next", "bnext"}
  BY DEF Commands
<1> QED BY <1>2, <1>3, <1>4 DEF CommandInv, log

LEMMA NextPlaces ==
  ASSUME NEW b, NEW f
  PROVE  /\ AfterNext(b, f) \in {"prompt", "over", "next"}
         /\ AfterBack(b, f) \in {"prompt", "bover", "bnext"}
BY DEF AfterNext, AfterBack

LEMMA WorkCommand ==
  ASSUME Inv, Work
  PROVE  CommandInv' /\ phase # "record" /\ UNCHANGED log
<1>0. CommandInv /\ now \in Times /\ frame \in Nat
  BY DEF Inv, CommandInv
<1>a. phase # "record"
  BY DEF Work, NextStep, NextOver, BackStep, BackOver, Finish, BackFinish,
         NextThread, BackThread
<1>b. Top(State(now)) \in Nat
  BY <1>a, StateIs DEF Inv, CommandInv, Times
<1>1. CASE NextStep
  <2>1. PICK f, b : /\ f = Top(State(now)) /\ b = Forward(1, Hits(f, NoThread))
                    /\ To(b.time, AfterNext(b, f), f)
    BY <1>1 DEF NextStep
  <2>2. b.time \in Times
    BY <1>0, <2>1, HitsAreGaps, ForwardOne
  <2>3. request.op = "next"
    BY <1>0, <1>1 DEF CommandInv, NextStep
  <2> QED BY <1>0, <1>a, <1>b, <2>1, <2>2, <2>3, NextPlaces, ToCommand DEF To
<1>2. CASE NextOver
  <2>1. PICK b : /\ b = Forward(Total - now, Hits(frame, NoThread))
                 /\ To(b.time, AfterNext(b, frame), frame)
    BY <1>2 DEF NextOver
  <2>2. b.time \in Times
    BY <1>0, <2>1, HitsAreGaps, ForwardAll
  <2>3. request.op = "next"
    BY <1>0, <1>2 DEF CommandInv, NextOver
  <2> QED BY <1>0, <1>a, <2>1, <2>2, <2>3, NextPlaces, ToCommand DEF To
<1>3. CASE BackStep
  <2>1. PICK f, b : /\ f = Top(State(now)) /\ b = Backward(1, Hits(f, NoThread))
                    /\ To(b.time, AfterBack(b, f), f)
    BY <1>3 DEF BackStep
  <2>2. b.time \in Times
    BY <1>0, <2>1, HitsAreGaps, BackwardOne
  <2>3. request.op = "bnext"
    BY <1>0, <1>3 DEF CommandInv, BackStep
  <2> QED BY <1>0, <1>a, <1>b, <2>1, <2>2, <2>3, NextPlaces, ToCommand DEF To
<1>4. CASE BackOver
  <2>1. PICK b : /\ b = Backward(now - 1, Hits(frame, NoThread))
                 /\ To(b.time, AfterBack(b, frame), frame)
    BY <1>4 DEF BackOver
  <2>2. b.time \in Times
    BY <1>0, <2>1, HitsAreGaps, BackwardAll
  <2>3. request.op = "bnext"
    BY <1>0, <1>4 DEF CommandInv, BackOver
  <2> QED BY <1>0, <1>a, <2>1, <2>2, <2>3, NextPlaces, ToCommand DEF To
<1>5. CASE Finish \/ BackFinish \/ NextThread \/ BackThread
  <2>1. PICK time : time \in Times /\ To(time, "prompt", 0)
    <3>1. \A f, n : Forward(Total - now, Hits(f, n)).time \in Times
      BY <1>0, HitsAreGaps, ForwardAll
    <3>2. \A f, n : Backward(now - 1, Hits(f, n)).time \in Times
      BY <1>0, HitsAreGaps, BackwardAll
    <3> QED BY <1>0, <1>5, <3>1, <3>2
            DEF Finish, BackFinish, NextThread, BackThread
  <2> QED BY <1>0, <1>a, <2>1, ToCommand DEF To
<1> QED BY <1>1, <1>2, <1>3, <1>4, <1>5 DEF Work

LEMMA InvStep ==
  ASSUME Inv, [Next]_vars
  PROVE  Inv'
<1>0. TraceInv /\ CutsInv /\ CommandInv
  BY DEF Inv
<1>1. CASE Record
  <2>1. UNCHANGED <<now, phase, request, frame>> /\ phase = "record"
    BY <1>1 DEF Record, StopPoint, Happen
  <2>2. CommandInv'
    BY <1>0, <2>1 DEF CommandInv
  <2>3. CASE StopPoint
    <3>1. TraceInv'
      BY <1>0, <2>3 DEF StopPoint, TraceInv
    <3> QED BY <1>0, <2>2, <2>3, <3>1, StopPointCuts DEF Inv
  <2>4. ASSUME NEW kind \in Kinds, Happen(kind) PROVE Inv'
    BY <1>0, <2>2, <2>4, HappenTrace, HappenCuts DEF Inv
  <2> QED BY <1>1, <2>3, <2>4 DEF Record
<1>2. CASE Start
  <2>1. TraceInv' /\ CutsInv'
    BY <1>0, <1>2 DEF Start, log, TraceInv, CutsInv
  <2>2. CommandInv'
    BY <1>0, <1>2 DEF Start, log, CommandInv
  <2> QED BY <2>1, <2>2 DEF Inv
<1>3. CASE Command
  <2>1. PICK op \in Commands : Ask(op)
    BY <1>3 DEF Command
  <2>2. CommandInv' /\ UNCHANGED log
    BY <1>0, <2>1, AskCommand
  <2> QED BY <1>0, <2>2 DEF log, TraceInv, CutsInv, Inv
<1>4. CASE Work
  <2>1. CommandInv' /\ UNCHANGED log
    BY <1>4, WorkCommand
  <2> QED BY <1>0, <2>1 DEF log, TraceInv, CutsInv, Inv
<1>5. CASE UNCHANGED vars
  BY <1>0, <1>5 DEF vars, log, TraceInv, CutsInv, CommandInv, Inv
<1> QED BY <1>1, <1>2, <1>3, <1>4, <1>5 DEF Next

(***************************************************************************)
(* The recording is one of calls, returns and switches cut into gaps, and  *)
(* a command is in a loop of its own, with the request that it began with: *)
(* Ask() sets it and To() clears it, whatever the moves in between find.   *)
(***************************************************************************)
THEOREM InvariantHolds == Spec => []Inv
<1>1. Init => Inv
  BY InitInv
<1>2. Inv /\ [Next]_vars => Inv'
  BY InvStep
<1> QED BY <1>1, <1>2, PTL DEF Spec

(***************************************************************************)
(* What holds of the type of every variable: no command leaves the         *)
(* recording, forward or backward, nor stops outside its own loops.        *)
(***************************************************************************)
THEOREM TypeCorrect == Spec => []TypeOK
<1>1. Inv => TypeOK
  BY DEF Inv, CutsInv, CommandInv, TypeOK, Times
<1> QED BY <1>1, InvariantHolds, PTL

-----------------------------------------------------------------------------
(***************************************************************************)
(* What the numbers of a gap say of the stop points at its ends.           *)
(***************************************************************************)
LEMMA GapIs ==
  ASSUME Recorded, NEW g \in Gaps
  PROVE  /\ g \in Times /\ g + 1 \in Times
         /\ at[g] \in 1..Len(trace) /\ at[g + 1] \in 1..Len(trace)
         /\ Len(trace) \in Nat /\ at[g] <= at[g + 1]
         /\ \A i \in Changes(g) :
              /\ i \in Int /\ at[g] <= i /\ i < at[g + 1]
              /\ i \in 1..Len(kinds)
              /\ Changed(trace[i], trace[i + 1], FirstNew + i)
<1>0. Total \in Nat \ {0} /\ Len(trace) \in Nat \ {0}
      /\ Len(kinds) = Len(trace) - 1
  BY SteppingAssumption DEF Recorded, TraceInv
<1>1. g \in Int /\ g \in 1..Len(at) /\ g + 1 \in 1..Len(at) /\ g <= g + 1
  BY <1>0 DEF Gaps, Recorded
<1>2. g \in Times /\ g + 1 \in Times
  BY <1>1 DEF Times, Recorded
<1>3. /\ at[g] \in 1..Len(trace) /\ at[g + 1] \in 1..Len(trace)
      /\ at[g] <= at[g + 1]
  BY <1>1 DEF Recorded, CutsInv
<1>4. ASSUME NEW i \in Changes(g)
      PROVE  /\ i \in Int /\ at[g] <= i /\ i < at[g + 1]
             /\ i \in 1..Len(kinds)
    BY <1>0, <1>3 DEF Changes
<1>5. ASSUME NEW i \in Changes(g)
      PROVE  Changed(trace[i], trace[i + 1], FirstNew + i)
    BY <1>4 DEF Recorded, TraceInv
<1> QED BY <1>0, <1>2, <1>3, <1>4, <1>5

\* The stretch of a gap after, or before, one of its changes.
LEMMA StretchWaits ==
  ASSUME Recorded, NEW g \in Gaps, NEW f,
         NEW i \in Int, NEW j \in Int, at[g] <= i, i <= j, j <= at[g + 1],
         \A k \in i..(j - 1) : k \notin Nums(g, f)
  PROVE  WaitsIn(trace[i], f) <=> WaitsIn(trace[j], f)
<1> DEFINE X == {k \in i..j : WaitsIn(trace[k], f)}
<1>1. ASSUME NEW k \in i..(j - 1) PROVE k \in X <=> k + 1 \in X
  <2>1. k \in Changes(g)
    BY GapIs DEF Changes
  <2>2. Num(k, f) = 0
    BY <2>1 DEF Nums
  <2>3. WaitsIn(trace[k], f) <=> WaitsIn(trace[k + 1], f)
    BY <2>1, <2>2, GapIs, NumberWaits DEF Num
  <2> QED BY <2>3
<1>2. i \in X <=> j \in X
  <2> HIDE DEF X
  <2> QED BY <1>1, Constant
<1> QED BY <1>2

LEMMA WaitsIs ==
  ASSUME NEW f, NEW t
  PROVE  Waits(f, t) <=> WaitsIn(trace[at[t]], f)
BY DEF Waits, WaitsIn, State

\* Without a number, the frame waits after the gap as it did before.
LEMMA NoNumbers ==
  ASSUME Recorded, NEW g \in Gaps, NEW f, Nums(g, f) = {}
  PROVE  Waits(f, g) <=> Waits(f, g + 1)
<1>1. /\ at[g] \in Int /\ at[g + 1] \in Int /\ at[g] <= at[g + 1]
      /\ at[g] <= at[g] /\ at[g + 1] <= at[g + 1]
  BY GapIs
<1>2. WaitsIn(trace[at[g]], f) <=> WaitsIn(trace[at[g + 1]], f)
  BY <1>1, StretchWaits
<1> QED BY <1>2, WaitsIs

LEMMA NumbersAre ==
  ASSUME Recorded, NEW g \in Gaps, NEW f, Nums(g, f) # {}
  PROVE  /\ Max(Nums(g, f)) \in Nums(g, f) /\ Min(Nums(g, f)) \in Nums(g, f)
         /\ \A i \in Nums(g, f) : Min(Nums(g, f)) <= i /\ i <= Max(Nums(g, f))
<1>1. Nums(g, f) \subseteq 0..Len(trace) /\ Len(trace) \in Nat
  BY GapIs DEF Nums, Changes
<1>2. PICK S : S = Nums(g, f)
  OBVIOUS
<1>3. S \in SUBSET Nat /\ S \in SUBSET (0..Len(trace)) /\ S # {}
  BY <1>1, <1>2
<1>4. Max(S) \in S /\ \A m \in S : m <= Max(S)
  BY <1>1, <1>3, MaxOfNumbers
<1>5. Min(S) \in S /\ \A m \in S : Min(S) <= m
  BY <1>3, MinOfNumbers
<1> QED BY <1>2, <1>4, <1>5

(***************************************************************************)
(* The last number says whether the frame waits after the gap, the first   *)
(* one whether it did before.                                              *)
(***************************************************************************)
LEMMA LastNumber ==
  ASSUME Recorded, NEW g \in Gaps, NEW f, Nums(g, f) # {}
  PROVE  Num(Max(Nums(g, f)), f) = -2 <=> ~Waits(f, g + 1)
<1>1. PICK i : i = Max(Nums(g, f))
  OBVIOUS
<1>2. i \in Nums(g, f) /\ \A k \in Nums(g, f) : k <= i
  BY <1>1, NumbersAre
<1>3. /\ i \in Changes(g) /\ Num(i, f) # 0
      /\ i \in Int /\ at[g] <= i /\ i < at[g + 1] /\ at[g + 1] \in Int
      /\ Changed(trace[i], trace[i + 1], FirstNew + i)
  BY <1>2, GapIs DEF Nums
<1>4. Num(i, f) = -2 <=> ~WaitsIn(trace[i + 1], f)
  BY <1>3, NumberWaits DEF Num
<1>5. /\ i + 1 \in Int /\ at[g] <= i + 1 /\ i + 1 <= at[g + 1]
      /\ \A k \in (i + 1)..(at[g + 1] - 1) : k \notin Nums(g, f)
  BY <1>2, <1>3, GapIs
<1>6. WaitsIn(trace[i + 1], f) <=> WaitsIn(trace[at[g + 1]], f)
  BY <1>3, <1>5, StretchWaits
<1> QED BY <1>1, <1>4, <1>6, WaitsIs

LEMMA FirstNumber ==
  ASSUME Recorded, NEW g \in Gaps, NEW f, Nums(g, f) # {}
  PROVE  Num(Min(Nums(g, f)), f) = -1 <=> ~Waits(f, g)
<1>1. PICK i : i = Min(Nums(g, f))
  OBVIOUS
<1>2. i \in Nums(g, f) /\ \A k \in Nums(g, f) : i <= k
  BY <1>1, NumbersAre
<1>3. /\ i \in Changes(g) /\ Num(i, f) # 0
      /\ i \in Int /\ at[g] <= i /\ i < at[g + 1] /\ at[g] \in Int
      /\ Changed(trace[i], trace[i + 1], FirstNew + i)
  BY <1>2, GapIs DEF Nums
<1>4. Num(i, f) = -1 <=> ~WaitsIn(trace[i], f)
  BY <1>3, NumberWaits DEF Num
<1>5. \A k \in at[g]..(i - 1) : k \notin Nums(g, f)
  BY <1>2, <1>3
<1>6. WaitsIn(trace[at[g]], f) <=> WaitsIn(trace[i], f)
  BY <1>3, <1>5, GapIs, StretchWaits, SMTT(30)
<1> QED BY <1>1, <1>4, <1>6, WaitsIs

\* The same over several gaps.
LEMMA SilentGaps ==
  ASSUME Recorded, NEW f, NEW t \in Times, NEW u \in Times, t <= u,
         \A g \in t..(u - 1) : Nums(g, f) = {}
  PROVE  Waits(f, t) <=> Waits(f, u)
<1> DEFINE X == {v \in Times : Waits(f, v)}
<1>0. t \in Int /\ u \in Int /\ Total \in Nat
  BY SteppingAssumption DEF Times
<1>1. ASSUME NEW g \in t..(u - 1) PROVE g \in X <=> g + 1 \in X
  <2>1. g \in Gaps /\ g \in Times /\ g + 1 \in Times
    BY <1>0 DEF Gaps, Times
  <2> QED BY <2>1, NoNumbers
<1>2. t \in X <=> u \in X
  <2> HIDE DEF X
  <2> QED BY <1>0, <1>1, Constant
<1> QED BY <1>2

\* The temporary breakpoint of a frame is hit by its calls and returns only.
LEMMA FrameHits ==
  ASSUME Recorded, NEW f, NEW g
  PROVE  g \in Hits(f, NoThread) <=>
           g \in Gaps /\ (g \in stops \/ Nums(g, f) # {})
<1>1. ASSUME NEW h \in Gaps PROVE ~Switches(h, NoThread)
  <2>1. ASSUME NEW i \in Changes(h)
        PROVE  trace[i].thread \in Nat /\ trace[i + 1].thread \in Nat
    <3>1. trace[i] \in States /\ trace[i + 1] \in States
      BY GapIs DEF Changed
    <3> QED BY <3>1, SteppingAssumption DEF States
  <2> QED BY <2>1 DEF Switches, NoThread
<1> QED BY <1>1 DEF Hits

-----------------------------------------------------------------------------
(***************************************************************************)
(* Where the commands should end, in terms of the first or last stop point *)
(* on the way.                                                             *)
(***************************************************************************)
LEMMA MinOrIs ==
  ASSUME NEW S \in SUBSET Nat, NEW d
  PROVE  /\ S = {} => MinOr(S, d) = d
         /\ S # {} => MinOr(S, d) \in S /\ \A m \in S : MinOr(S, d) <= m
BY MinOfNumbers DEF MinOr

LEMMA MaxOrIs ==
  ASSUME NEW N \in Nat, NEW S \in SUBSET (0..N), NEW d
  PROVE  /\ S = {} => MaxOr(S, d) = d
         /\ S # {} => MaxOr(S, d) \in S /\ \A m \in S : m <= MaxOr(S, d)
BY MaxOfNumbers DEF MaxOr

LEMMA ForthIs ==
  ASSUME CutsInv, NEW t \in Times, NEW u \in Times
  PROVE  /\ (\A g \in stops : ~(t <= g /\ g < u)) => Forth(t, u) = u
         /\ \A g \in stops :
              /\ t <= g /\ g < u
              /\ \A h \in stops : t <= h => g <= h
              => Forth(t, u) = g + 1
<1>0. stops \subseteq Gaps /\ Gaps \subseteq Nat
  BY DEF CutsInv, Gaps
<1>1. PICK W : W = {g \in stops : t <= g /\ g < u}
  OBVIOUS
<1>2. PICK S : S = {g + 1 : g \in W}
  OBVIOUS
<1>3. Forth(t, u) = MinOr(S, u)
  BY <1>1, <1>2 DEF Forth
<1>4. \A g \in W : g \in Nat /\ g + 1 \in S
  BY <1>0, <1>1, <1>2
<1>5. S \in SUBSET Nat
  BY <1>2, <1>4
<1>6. S # {} => MinOr(S, u) \in S /\ \A m \in S : MinOr(S, u) <= m
  BY <1>5, MinOrIs
<1>7. ASSUME \A g \in stops : ~(t <= g /\ g < u) PROVE Forth(t, u) = u
  <2>1. S = {}
    BY <1>1, <1>2, <1>7
  <2> QED BY <2>1, <1>3, <1>5, MinOrIs
<1>8. ASSUME NEW g \in stops, t <= g, g < u,
             \A h \in stops : t <= h => g <= h
      PROVE  Forth(t, u) = g + 1
  <2>1. g \in W
    BY <1>1, <1>8
  <2>2. PICK e \in W : MinOr(S, u) = e + 1
    BY <2>1, <1>2, <1>4, <1>6
  <2>3. e + 1 <= g + 1 /\ g <= e
    BY <2>1, <2>2, <1>1, <1>4, <1>6, <1>8
  <2> QED BY <2>1, <2>2, <2>3, <1>3, <1>4
<1> QED BY <1>7, <1>8

LEMMA BackIs ==
  ASSUME CutsInv, NEW t \in Times, NEW u \in Times
  PROVE  /\ (\A g \in stops : ~(u <= g /\ g < t)) => Back(t, u) = u
         /\ \A g \in stops :
              /\ u <= g /\ g < t
              /\ \A h \in stops : h < t => h <= g
              => Back(t, u) = g
<1>0. stops \subseteq Gaps /\ Gaps \subseteq 0..Total /\ Total \in Nat
  BY SteppingAssumption DEF CutsInv, Gaps
<1>1. PICK W : W = {g \in stops : u <= g /\ g < t}
  OBVIOUS
<1>2. Back(t, u) = MaxOr(W, u)
  BY <1>1 DEF Back
<1>3. W \in SUBSET (0..Total)
  BY <1>0, <1>1
<1>4. /\ W = {} => MaxOr(W, u) = u
      /\ W # {} => MaxOr(W, u) \in W /\ \A m \in W : m <= MaxOr(W, u)
  BY <1>0, <1>3, MaxOrIs
<1>5. ASSUME \A g \in stops : ~(u <= g /\ g < t) PROVE Back(t, u) = u
  <2>1. W = {}
    BY <1>1, <1>5
  <2> QED BY <2>1, <1>2, <1>4
<1>6. ASSUME NEW g \in stops, u <= g, g < t,
             \A h \in stops : h < t => h <= g
      PROVE  Back(t, u) = g
  <2>1. g \in W
    BY <1>1, <1>6
  <2>2. PICK e \in W : MaxOr(W, u) = e
    BY <2>1, <1>4
  <2>3. g <= e /\ e <= g /\ e \in Int /\ g \in Int
    BY <2>1, <2>2, <1>1, <1>3, <1>4, <1>6
  <2> QED BY <2>2, <2>3, <1>2
<1> QED BY <1>5, <1>6

LEMMA FreeIs ==
  ASSUME NEW t \in Times
  PROVE  /\ Free(t) \subseteq Times /\ NextFree(t) \in Times
         /\ \A v \in Free(t) : t < v
         /\ Free(t) = {} => NextFree(t) = Total
         /\ Free(t) # {} =>
              NextFree(t) \in Free(t) /\ \A v \in Free(t) : NextFree(t) <= v
<1>1. Free(t) \subseteq Times /\ \A v \in Free(t) : t < v
  BY DEF Free
<1>2. Times \subseteq Nat /\ Total \in Times
  BY SteppingAssumption DEF Times
<1>3. PICK S : S = Free(t)
  OBVIOUS
<1>4. S \in SUBSET Nat
  BY <1>1, <1>2, <1>3
<1>5. /\ S = {} => MinOr(S, Total) = Total
      /\ S # {} => /\ MinOr(S, Total) \in S
                   /\ \A m \in S : MinOr(S, Total) <= m
  BY <1>4, MinOrIs
<1> QED BY <1>1, <1>2, <1>3, <1>5 DEF NextFree

LEMMA LastFreeIs ==
  ASSUME NEW t \in Times
  PROVE  LET S == {v \in Times : v < t /\ ~Waits(Top(State(t)), v)}
         IN  /\ LastFree(t) \in Times
             /\ S = {} => LastFree(t) = 1
             /\ S # {} =>
                  LastFree(t) \in S /\ \A v \in S : v <= LastFree(t)
<1>1. PICK S : S = {v \in Times : v < t /\ ~Waits(Top(State(t)), v)}
  OBVIOUS
<1>2. Times \subseteq 0..Total /\ Total \in Nat /\ 1 \in Times
  BY SteppingAssumption DEF Times
<1>3. S \in SUBSET (0..Total) /\ S \subseteq Times
  BY <1>1, <1>2
<1>4. /\ S = {} => MaxOr(S, 1) = 1
      /\ S # {} => MaxOr(S, 1) \in S /\ \A m \in S : m <= MaxOr(S, 1)
  BY <1>2, <1>3, MaxOrIs
<1> QED BY <1>1, <1>2, <1>3, <1>4 DEF LastFree

-----------------------------------------------------------------------------
(***************************************************************************)
(* The functions that NextStop and BackStop choose exist.                  *)
(***************************************************************************)
IsNextStop(h) ==
  \A t \in Times :
    h[t] = IF NextAgain(t) THEN h[NextFree(t)] ELSE Forth(t, NextFree(t))

IsBackStop(h) ==
  \A t \in Times :
    h[t] = IF BackAgain(t) THEN h[LastFree(t)] ELSE Back(t, LastFree(t))

LEMMA ForthRange ==
  ASSUME CutsInv, NEW t \in Times, NEW u \in Times, t <= u
  PROVE  Forth(t, u) \in Times
<1>0. Total \in Nat \ {0} /\ stops \subseteq 1..(Total - 1)
  BY SteppingAssumption DEF CutsInv, Gaps
<1>1. PICK W : W = {g \in stops : t <= g /\ g < u}
  OBVIOUS
<1>2. CASE W = {}
  BY <1>1, <1>2, ForthIs
<1>3. CASE W # {}
  <2>1. W \in SUBSET Nat /\ W \subseteq stops
    <3>1. \A g \in stops : g \in Nat
      BY <1>0
    <3> QED BY <3>1, <1>1
  <2>2. PICK g \in W : \A h \in W : g <= h
    BY <1>3, <2>1, LeastExists
  <2>3. g \in stops /\ t <= g /\ g < u
    BY <1>1
  <2>4. \A h \in stops : t <= h => g <= h
    BY <1>0, <1>1, <2>2, <2>3 DEF Times
  <2>5. Forth(t, u) = g + 1
    BY <2>3, <2>4, ForthIs
  <2> QED BY <1>0, <2>3, <2>5 DEF Times
<1> QED BY <1>2, <1>3

LEMMA BackRange ==
  ASSUME CutsInv, NEW t \in Times, NEW u \in Times
  PROVE  Back(t, u) \in Times
<1>0. Total \in Nat \ {0} /\ stops \subseteq 1..(Total - 1)
  BY SteppingAssumption DEF CutsInv, Gaps
<1>1. PICK W : W = {g \in stops : u <= g /\ g < t}
  OBVIOUS
<1>2. W \in SUBSET (0..Total) /\ W \subseteq Times
  <2>1. \A g \in stops : g \in 0..Total /\ g \in Times
    BY <1>0 DEF Times
  <2> QED BY <2>1, <1>1
<1>3. Back(t, u) = MaxOr(W, u)
  BY <1>1 DEF Back
<1>4. CASE W = {}
  BY <1>0, <1>2, <1>3, <1>4, MaxOrIs
<1>5. CASE W # {}
  <2>1. MaxOr(W, u) \in W
    BY <1>0, <1>2, <1>5, MaxOrIs
  <2> QED BY <2>1, <1>2, <1>3
<1> QED BY <1>4, <1>5

LEMMA NextStopExists ==
  ASSUME CutsInv
  PROVE  IsNextStop(NextStop)
<1>0. Total \in Nat /\ Times = 1..Total
  BY SteppingAssumption DEF Times
<1>1. PICK a, s, e :
        /\ a = {t \in Times : NextAgain(t)}
        /\ s = [t \in Times |-> NextFree(t)]
        /\ e = [t \in Times |-> Forth(t, NextFree(t))]
  OBVIOUS
<1>2. ASSUME NEW t \in Times
      PROVE  NextFree(t) \in Times /\ t <= NextFree(t)
             /\ (NextAgain(t) => NextFree(t) > t)
  <2>1. CASE Free(t) = {}
    BY <1>0, <2>1, FreeIs, SMTT(30) DEF NextAgain
  <2>2. CASE Free(t) # {}
    BY <1>0, <2>2, FreeIs, SMTT(30)
  <2> QED BY <2>1, <2>2
<1>3. /\ a \in SUBSET (1..Total)
      /\ s \in [1..Total -> 1..Total] /\ e \in [1..Total -> 1..Total]
      /\ \A t \in 1..Total : t \in a => s[t] > t
  BY <1>0, <1>1, <1>2, ForthRange
<1>4. PICK h \in [1..Total -> 1..Total] : Unwound(h, Total, a, s, e)
  BY <1>0, <1>3, UnwindsUp DEF Unwinds
<1>5. IsNextStop(h)
  BY <1>0, <1>1, <1>4 DEF Unwound, IsNextStop
<1>6. h = [t \in Times |->
             IF NextAgain(t) THEN h[NextFree(t)] ELSE Forth(t, NextFree(t))]
  BY <1>0, <1>5 DEF IsNextStop
<1>7. NextStop = [t \in Times |->
        IF NextAgain(t) THEN NextStop[NextFree(t)]
        ELSE Forth(t, NextFree(t))]
  BY <1>6 DEF NextStop
<1> QED BY <1>7 DEF IsNextStop

LEMMA BackStopExists ==
  ASSUME CutsInv
  PROVE  IsBackStop(BackStop)
<1>0. Total \in Nat /\ Times = 1..Total
  BY SteppingAssumption DEF Times
<1>1. PICK a, s, e :
        /\ a = {t \in Times : BackAgain(t)}
        /\ s = [t \in Times |-> LastFree(t)]
        /\ e = [t \in Times |-> Back(t, LastFree(t))]
  OBVIOUS
<1>2. ASSUME NEW t \in Times
      PROVE  LastFree(t) \in Times /\ (BackAgain(t) => LastFree(t) < t)
  <2>1. PICK S : S = {v \in Times : v < t /\ ~Waits(Top(State(t)), v)}
    OBVIOUS
  <2>2. CASE S = {}
    <3>1. LastFree(t) = 1 /\ LastFree(t) \in Times
      BY <2>1, <2>2, LastFreeIs
    <3> QED BY <3>1 DEF BackAgain, CutsInv
  <2>3. CASE S # {}
    BY <2>1, <2>3, LastFreeIs
  <2> QED BY <2>2, <2>3
<1>3. /\ a \in SUBSET (1..Total)
      /\ s \in [1..Total -> 1..Total] /\ e \in [1..Total -> 1..Total]
      /\ \A t \in 1..Total : t \in a => s[t] < t
  BY <1>0, <1>1, <1>2, BackRange
<1>4. PICK h \in [1..Total -> 1..Total] : Unwound(h, Total, a, s, e)
  BY <1>0, <1>3, UnwindsDown DEF Unwinds
<1>5. IsBackStop(h)
  BY <1>0, <1>1, <1>4 DEF Unwound, IsBackStop
<1>6. h = [t \in Times |->
             IF BackAgain(t) THEN h[LastFree(t)] ELSE Back(t, LastFree(t))]
  BY <1>0, <1>5 DEF IsBackStop
<1>7. BackStop = [t \in Times |->
        IF BackAgain(t) THEN BackStop[LastFree(t)]
        ELSE Back(t, LastFree(t))]
  BY <1>6 DEF BackStop
<1> QED BY <1>7 DEF IsBackStop

-----------------------------------------------------------------------------
(***************************************************************************)
(* next: from stop point t, at which frame f runs, to the first one where  *)
(* it does not wait.                                                       *)
(***************************************************************************)
LandsAt(t, v) == \A h : IsNextStop(h) => h[t] = v

LandsLike(t, u) == \A h : IsNextStop(h) => h[t] = h[u]

\* Frame f, which ran at stop point t, has waited at each one after it, up
\* to w, and no breakpoint of the user fired on the way.
Waited(f, t, w) ==
  /\ t \in Times /\ w \in Times /\ t <= w /\ f = Top(State(t))
  /\ \A v \in (t + 1)..w : Waits(f, v)
  /\ \A g \in t..(w - 1) : g \notin stops

\* A breakpoint of the user fires next.
LEMMA LandsAtStop ==
  ASSUME CutsInv, NEW f, NEW t, NEW g \in stops, Waited(f, t, g)
  PROVE  LandsAt(t, g + 1)
<1>0. /\ t \in Times /\ g \in Gaps /\ t <= g /\ f = Top(State(t))
      /\ stops \subseteq Gaps /\ Total \in Nat
  BY SteppingAssumption DEF Waited, CutsInv
<1>1. PICK u : u = NextFree(t)
  OBVIOUS
<1>2. u \in Times /\ g < u
  <2>1. CASE Free(t) = {}
    BY <1>0, <1>1, <2>1, FreeIs DEF Gaps, Times
  <2>2. CASE Free(t) # {}
    <3>1. u \in Free(t)
      BY <1>0, <1>1, <2>2, FreeIs
    <3>2. u \in Times /\ t < u /\ ~Waits(f, u)
      BY <1>0, <3>1 DEF Free
    <3> QED BY <1>0, <3>2 DEF Waited, Gaps, Times
  <2> QED BY <2>1, <2>2
<1>3. ~NextAgain(t)
  BY <1>0, <1>1, <1>2 DEF NextAgain
<1>4. \A h \in stops : t <= h => g <= h
  BY <1>0 DEF Waited, Gaps, Times
<1>5. Forth(t, u) = g + 1
  BY <1>0, <1>2, <1>4, ForthIs
<1> QED BY <1>0, <1>1, <1>3, <1>5 DEF LandsAt, IsNextStop

\* The frame does not wait any more at the end of the next gap.
LEMMA LandsFree ==
  ASSUME CutsInv, NEW f, NEW t, NEW g \in Gaps \ stops, Waited(f, t, g),
         ~Waits(f, g + 1)
  PROVE  IF g + 1 \in hidden /\ Nums(t, f) # {} THEN LandsLike(t, g + 1)
         ELSE LandsAt(t, g + 1)
<1>0. /\ t \in Times /\ g \in Gaps /\ t <= g /\ f = Top(State(t))
      /\ stops \subseteq Gaps /\ Total \in Nat
  BY SteppingAssumption DEF Waited, CutsInv
<1>1. g + 1 \in Times /\ g + 1 \in Free(t)
  BY <1>0 DEF Free, Gaps, Times
<1>2. NextFree(t) = g + 1
  <2>1. PICK u : u = NextFree(t)
    OBVIOUS
  <2>2. u \in Free(t) /\ u <= g + 1
    BY <1>0, <1>1, <2>1, FreeIs
  <2>3. u \in Times /\ t < u /\ ~Waits(f, u)
    BY <1>0, <2>2 DEF Free
  <2>4. u \notin (t + 1)..g
    BY <2>3 DEF Waited
  <2> QED BY <1>0, <2>1, <2>2, <2>3, <2>4 DEF Times, Gaps
<1>3. \A h \in stops : ~(t <= h /\ h < g + 1)
  BY <1>0 DEF Waited, Gaps, Times
<1>4. Forth(t, g + 1) = g + 1
  BY <1>0, <1>1, <1>3, ForthIs
<1>5. NextAgain(t) <=> g + 1 \in hidden /\ Nums(t, f) # {}
  BY <1>0, <1>1, <1>2, <1>3 DEF NextAgain
<1> QED BY <1>0, <1>2, <1>4, <1>5 DEF LandsAt, LandsLike, IsNextStop

\* The frame waits to the end of the recording.
LEMMA LandsLast ==
  ASSUME CutsInv, NEW f, NEW t, Waited(f, t, Total)
  PROVE  LandsAt(t, Total)
<1>0. /\ t \in Times /\ f = Top(State(t)) /\ stops \subseteq Gaps
      /\ Total \in Nat /\ Total \in Times
  BY SteppingAssumption DEF Waited, CutsInv, Times
<1>1. Free(t) = {}
  BY <1>0 DEF Free, Waited, Times
<1>2. NextFree(t) = Total /\ ~NextAgain(t)
  BY <1>0, <1>1, FreeIs DEF NextAgain
<1>3. \A g \in stops : ~(t <= g /\ g < Total)
  BY <1>0 DEF Waited, Gaps, Times
<1>4. Forth(t, Total) = Total
  BY <1>0, <1>3, ForthIs
<1> QED BY <1>0, <1>2, <1>4 DEF LandsAt, IsNextStop

\* The frame waits on over gaps without a number.
LEMMA WaitedOn ==
  ASSUME Recorded, NEW f, NEW t, NEW w, NEW u \in Times, w <= u,
         Waited(f, t, w), t < w,
         \A g \in w..(u - 1) : g \notin Hits(f, NoThread)
  PROVE  Waited(f, t, u)
<1>0. t \in Times /\ w \in Times /\ t <= w /\ Total \in Nat
  BY SteppingAssumption DEF Waited
<1>1. ASSUME NEW g \in w..(u - 1)
      PROVE  g \notin stops /\ Nums(g, f) = {}
  BY <1>0, <1>1, FrameHits DEF Gaps, Times
<1>2. ASSUME NEW v \in w..u PROVE Waits(f, v)
  <2>1. v \in Times /\ w <= v
    BY <1>0 DEF Times
  <2>2. \A g \in w..(v - 1) : Nums(g, f) = {}
    BY <1>0, <1>1, <2>1 DEF Times
  <2>3. Waits(f, w) <=> Waits(f, v)
    BY <1>0, <2>1, <2>2, SilentGaps
  <2>4. w \in (t + 1)..w
    BY <1>0 DEF Times
  <2> QED BY <2>3, <2>4 DEF Waited
<1>3. \A v \in (t + 1)..u : v \in (t + 1)..w \/ v \in w..u
  BY <1>0 DEF Times
<1>4. \A g \in t..(u - 1) : g \in t..(w - 1) \/ g \in w..(u - 1)
  BY <1>0 DEF Times
<1> QED BY <1>0, <1>1, <1>2, <1>3, <1>4 DEF Waited, Times

(***************************************************************************)
(* A step of a command leaves the recording as it is, and what is said of  *)
(* it.                                                                     *)
(***************************************************************************)
LEMMA SameState ==
  ASSUME UNCHANGED log
  PROVE  /\ trace' = trace /\ at' = at /\ hidden' = hidden /\ stops' = stops
         /\ kinds' = kinds
         /\ \A t : State(t)' = State(t)
         /\ \A f, t : Waits(f, t)' = Waits(f, t)
         /\ \A g, f : Nums(g, f)' = Nums(g, f)
         /\ \A t, u : Forth(t, u)' = Forth(t, u) /\ Back(t, u)' = Back(t, u)
<1>1. /\ trace' = trace /\ at' = at /\ hidden' = hidden /\ stops' = stops
      /\ kinds' = kinds
  BY DEF log
<1>2. \A t : State(t)' = State(t)
  BY <1>1 DEF State
<1>3. \A f, t : Waits(f, t)' = Waits(f, t)
  BY <1>2 DEF Waits
<1>4. \A g, f : Nums(g, f)' = Nums(g, f)
  BY <1>1 DEF Nums, Num, Changes
<1>5. \A t, u : Forth(t, u)' = Forth(t, u)
  BY <1>1 DEF Forth
<1>6. \A t, u : Back(t, u)' = Back(t, u)
  BY <1>1 DEF Back
<1> QED BY <1>1, <1>2, <1>3, <1>4, <1>5, <1>6

LEMMA SameStops ==
  ASSUME UNCHANGED log
  PROVE  /\ \A t, v : LandsAt(t, v)' <=> LandsAt(t, v)
         /\ \A t, v : LandsLike(t, v)' <=> LandsLike(t, v)
         /\ \A f, t, w : Waited(f, t, w)' <=> Waited(f, t, w)
<1>1. \A t : Free(t)' = Free(t)
  BY SameState DEF Free
<1>2. \A t : NextFree(t)' = NextFree(t)
  BY <1>1 DEF NextFree
<1>3. \A t : NextAgain(t)' <=> NextAgain(t)
  BY <1>1, <1>2, SameState DEF NextAgain
<1>4. \A h : IsNextStop(h)' <=> IsNextStop(h)
  BY <1>2, <1>3, SameState DEF IsNextStop
<1>5. \A f, t, w : Waited(f, t, w)' <=> Waited(f, t, w)
  BY SameState DEF Waited
<1> QED BY <1>4, <1>5 DEF LandsAt, LandsLike

(***************************************************************************)
(* The loops of command_next() are where they still end where the command  *)
(* should.                                                                 *)
(***************************************************************************)
NextInv ==
  /\ phase = "next" => LandsLike(request.start, now)
  /\ phase = "over" =>
       \E t : /\ Waited(frame, t, now) /\ t < now /\ Nums(t, frame) # {}
              /\ LandsLike(request.start, t)

\* A turn of a loop ends the command where the loop should end, or goes on.
NextRight(t, b, place, f) ==
  \/ place = "prompt" /\ LandsAt(t, b.time)
  \/ place = "next" /\ LandsLike(t, b.time)
  \/ /\ place = "over" /\ Waited(f, t, b.time) /\ t < b.time
     /\ Nums(t, f) # {}

\* A gap with a hit, up to which the frame has waited.
LEMMA NextHit ==
  ASSUME Recorded, NEW f, NEW t, NEW b, b.time = b.gap + 1,
         b.gap \in Hits(f, NoThread), Waited(f, t, b.gap),
         t < b.gap => Nums(t, f) # {}
  PROVE  NextRight(t, b, AfterNext(b, f), f)
<1>0. /\ CutsInv /\ Total \in Nat
      /\ t \in Times /\ t <= b.gap /\ f = Top(State(t))
  BY SteppingAssumption DEF Recorded, Waited
<1>1. PICK g : g = b.gap
  OBVIOUS
<1>2. g \in Gaps /\ Found(b) /\ (Regular(b) <=> g \in stops)
      /\ b.time = g + 1 /\ g + 1 \in Times
  BY <1>0, <1>1, FrameHits DEF Found, Regular, Gaps, Times
<1>3. CASE g \in stops
  <2>1. AfterNext(b, f) = "prompt"
    BY <1>2, <1>3 DEF AfterNext
  <2>2. LandsAt(t, g + 1)
    BY <1>0, <1>1, <1>3, LandsAtStop
  <2> QED BY <1>2, <2>1, <2>2 DEF NextRight
<1>4. CASE g \notin stops
  <2>1. Nums(g, f) # {} /\ Nums(t, f) # {}
    BY <1>0, <1>1, <1>2, <1>4, FrameHits DEF Gaps, Times
  <2>2. BackInside(b, f) <=> ~Waits(f, g + 1)
    BY <1>1, <1>2, <2>1, LastNumber DEF BackInside
  <2>3. CASE Waits(f, g + 1)
    <3>1. AfterNext(b, f) = "over"
      BY <1>2, <1>4, <2>2, <2>3 DEF AfterNext
    <3>2. \A v \in (t + 1)..(g + 1) : v \in (t + 1)..g \/ v = g + 1
      BY <1>0, <1>2 DEF Times, Gaps
    <3>3. \A h \in t..((g + 1) - 1) : h \in t..(g - 1) \/ h = g
      BY <1>0, <1>2 DEF Times, Gaps
    <3>4. t <= g + 1 /\ t < g + 1
      BY <1>0, <1>1, <1>2 DEF Times, Gaps
    <3>5. Waited(f, t, g + 1)
      BY <1>0, <1>1, <1>2, <1>4, <2>3, <3>2, <3>3, <3>4 DEF Waited
    <3> QED BY <1>2, <2>1, <3>1, <3>4, <3>5 DEF NextRight
  <2>4. CASE ~Waits(f, g + 1)
    <3>1. IF g + 1 \in hidden THEN LandsLike(t, g + 1) ELSE LandsAt(t, g + 1)
      BY <1>0, <1>1, <1>2, <1>4, <2>1, <2>4, LandsFree
    <3>2. AfterNext(b, f) = IF g + 1 \in hidden THEN "next" ELSE "prompt"
      BY <1>2, <1>4, <2>2, <2>4 DEF AfterNext, NextDone, Level
    <3> QED BY <1>2, <3>1, <3>2 DEF NextRight
  <2> QED BY <2>3, <2>4
<1> QED BY <1>3, <1>4

LEMMA NextStepRight ==
  ASSUME Recorded, now \in Times, NEW f, NEW b,
         f = Top(State(now)), b = Forward(1, Hits(f, NoThread))
  PROVE  NextRight(now, b, AfterNext(b, f), f)
<1>0. /\ CutsInv /\ TraceInv /\ Total \in Nat \ {0} /\ now \in 1..Total
  BY SteppingAssumption DEF Recorded, Times
<1>1. Waited(f, now, now)
  BY <1>0 DEF Waited
<1>2. \/ now \in Hits(f, NoThread) /\ b.gap = now /\ b.time = now + 1
      \/ /\ now \notin Hits(f, NoThread) /\ b.gap = 0
         /\ b.time = IF now < Total THEN now + 1 ELSE Total
  BY HitsAreGaps, ForwardOne
<1>3. CASE now \in Hits(f, NoThread)
  BY <1>0, <1>1, <1>2, <1>3, NextHit
<1>4. CASE now \notin Hits(f, NoThread)
  <2>1. AfterNext(b, f) = "prompt"
    BY <1>2, <1>4 DEF AfterNext, Found, Regular, NextDone
  <2>2. CASE now = Total
    BY <1>0, <1>1, <1>2, <1>4, <2>1, <2>2, LandsLast DEF NextRight
  <2>3. CASE now < Total
    <3>1. now \in Gaps \ stops /\ Nums(now, f) = {}
      BY <1>0, <1>4, <2>3, FrameHits DEF Gaps
    <3>2. ~Waits(f, now)
      <4>1. now \in 1..Len(at)
        BY <1>0 DEF Recorded
      <4> QED BY <1>0, <4>1, StateIs, TopRuns DEF Waits, WaitsIn
    <3>3. ~Waits(f, now + 1)
      BY <3>1, <3>2, NoNumbers
    <3>4. LandsAt(now, now + 1)
      BY <1>0, <1>1, <3>1, <3>3, LandsFree
    <3> QED BY <1>2, <1>4, <2>1, <2>3, <3>4 DEF NextRight
  <2> QED BY <1>0, <2>2, <2>3
<1> QED BY <1>3, <1>4

LEMMA NextOverRight ==
  ASSUME Recorded, now \in Times, NEW f, NEW b, NEW t,
         Waited(f, t, now), t < now, Nums(t, f) # {},
         b = Forward(Total - now, Hits(f, NoThread))
  PROVE  NextRight(t, b, AfterNext(b, f), f)
<1>0. /\ CutsInv /\ Total \in Nat \ {0} /\ Total \in Times /\ now \in 1..Total
  BY SteppingAssumption DEF Recorded, Times
<1>1. \/ b.gap = 0 /\ b.time = Total /\ \A h \in Hits(f, NoThread) : h < now
      \/ /\ b.gap \in Hits(f, NoThread) /\ now <= b.gap
         /\ b.time = b.gap + 1
         /\ \A h \in Hits(f, NoThread) : now <= h => b.gap <= h
  BY HitsAreGaps, ForwardAll
<1>2. CASE b.gap = 0 /\ b.time = Total /\ \A h \in Hits(f, NoThread) : h < now
  <2>1. \A g \in now..(Total - 1) : g \notin Hits(f, NoThread)
    BY <1>0, <1>2
  <2>2. Waited(f, t, Total)
    BY <1>0, <2>1, WaitedOn
  <2>3. AfterNext(b, f) = "prompt"
    BY <1>2 DEF AfterNext, Found, Regular, NextDone
  <2> QED BY <1>0, <1>2, <2>2, <2>3, LandsLast DEF NextRight
<1>3. CASE /\ b.gap \in Hits(f, NoThread) /\ now <= b.gap
           /\ b.time = b.gap + 1
           /\ \A h \in Hits(f, NoThread) : now <= h => b.gap <= h
  <2>1. b.gap \in Gaps /\ b.gap \in Times
    BY <1>0, <1>3, HitsAreGaps DEF Gaps, Times
  <2>2. \A g \in now..(b.gap - 1) : g \notin Hits(f, NoThread)
    BY <1>0, <1>3, <2>1 DEF Gaps
  <2>3. Waited(f, t, b.gap)
    BY <1>3, <2>1, <2>2, WaitedOn
  <2> QED BY <1>3, <2>3, NextHit
<1> QED BY <1>1, <1>2, <1>3

\* A turn of a loop, as a step.
LEMMA NextTurn ==
  ASSUME CutsInv, NEW t, LandsLike(request.start, t),
         NEW b, NEW place, NEW f, NextRight(t, b, place, f),
         To(b.time, place, f)
  PROVE  NextInv' /\ (phase' = "prompt" => now' = NextStop[request.start])
<1>1. UNCHANGED log /\ now' = b.time /\ phase' = place
  BY DEF To
<1>2. place # "prompt" => request' = request /\ frame' = f
  BY <1>1 DEF To
<1>3. CASE place = "prompt" /\ LandsAt(t, b.time)
  <2>1. NextStop[request.start] = NextStop[t] /\ NextStop[t] = b.time
    BY <1>3, NextStopExists DEF LandsAt, LandsLike
  <2> QED BY <1>1, <1>3, <2>1 DEF NextInv
<1>4. CASE place = "next" /\ LandsLike(t, b.time)
  <2>1. LandsLike(request.start, b.time)
    BY <1>4 DEF LandsLike
  <2>2. LandsLike(request.start, now)'
    BY <2>1, <1>1, <1>2, <1>4, SameStops
  <2> QED BY <1>1, <1>4, <2>2 DEF NextInv
<1>5. CASE place = "over" /\ Waited(f, t, b.time) /\ t < b.time /\ Nums(t, f) # {}
  <2>1. /\ LandsLike(request.start, t)' /\ Waited(frame, t, now)'
        /\ t < now' /\ Nums(t, frame)' # {}
    BY <1>1, <1>2, <1>5, SameStops, SameState
  <2> QED BY <1>1, <1>5, <2>1 DEF NextInv
<1> QED BY <1>3, <1>4, <1>5 DEF NextRight

LEMMA NextInvStep ==
  ASSUME Inv, NextInv, [Next]_vars
  PROVE  NextInv' /\ (Ends("next") => now' = NextStop[request.start])
<1>0. CutsInv /\ now \in Times /\ CommandInv /\ (phase # "record" => Recorded)
  BY DEF Inv, CommandInv, Recorded
<1>1. CASE NextStep
  <2>1. PICK f, b : /\ f = Top(State(now)) /\ b = Forward(1, Hits(f, NoThread))
                    /\ To(b.time, AfterNext(b, f), f)
    BY <1>1 DEF NextStep
  <2>2. Recorded /\ LandsLike(request.start, now)
    BY <1>0, <1>1 DEF NextStep, NextInv
  <2>3. NextRight(now, b, AfterNext(b, f), f)
    BY <1>0, <2>1, <2>2, NextStepRight
  <2> QED BY <1>0, <2>1, <2>2, <2>3, NextTurn DEF Ends
<1>2. CASE NextOver
  <2>1. PICK b : /\ b = Forward(Total - now, Hits(frame, NoThread))
                 /\ To(b.time, AfterNext(b, frame), frame)
    BY <1>2 DEF NextOver
  <2>2. Recorded
    BY <1>0, <1>2 DEF NextOver
  <2>3. PICK t : /\ Waited(frame, t, now) /\ t < now /\ Nums(t, frame) # {}
                 /\ LandsLike(request.start, t)
    BY <1>2 DEF NextOver, NextInv
  <2>4. NextRight(t, b, AfterNext(b, frame), frame)
    BY <1>0, <2>1, <2>2, <2>3, NextOverRight
  <2> QED BY <1>0, <2>1, <2>3, <2>4, NextTurn DEF Ends
<1>3. CASE Command
  <2>1. PICK op \in Commands : Ask(op)
    BY <1>3 DEF Command
  <2>2. /\ UNCHANGED <<log, now>> /\ phase' = op /\ request'.start = now
    BY <1>0, <2>1, AskCommand
  <2>3. LandsLike(request.start, now)'
    BY <2>2 DEF LandsLike
  <2> QED BY <2>2, <2>3 DEF NextInv, Commands, Ends
<1>4. CASE Record \/ Start
  <2>1. phase' \in {"record", "prompt"} /\ request = NoRequest
    BY <1>0, <1>4 DEF Record, StopPoint, Happen, Start, CommandInv
  <2> QED BY <2>1 DEF NextInv, Ends, NoRequest
<1>5. CASE BackStep \/ BackOver \/ Finish \/ BackFinish \/ NextThread \/ BackThread
  <2>1. phase' \in {"prompt", "bover", "bnext"} /\ request.op # "next"
    BY <1>0, <1>5, NextPlaces
       DEF BackStep, BackOver, Finish, BackFinish, NextThread, BackThread,
           To, CommandInv
  <2> QED BY <2>1 DEF NextInv, Ends
<1>6. CASE UNCHANGED vars
  <2>1. UNCHANGED <<log, now, phase, request, frame>>
    BY <1>6 DEF vars
  <2>2. phase = "next" => LandsLike(request.start, now)'
    BY <2>1, SameStops DEF NextInv
  <2>3. phase = "over" =>
          \E t : /\ Waited(frame, t, now)' /\ t < now
                 /\ Nums(t, frame)' # {} /\ LandsLike(request.start, t)'
    BY <2>1, SameStops, SameState DEF NextInv
  <2>4. NextInv'
    BY <2>1, <2>2, <2>3 DEF NextInv
  <2>5. ~Ends("next")
    BY <1>0, <2>1 DEF Ends, CommandInv, NoRequest
  <2> QED BY <2>4, <2>5
<1> QED BY <1>1, <1>2, <1>3, <1>4, <1>5, <1>6 DEF Next, Work

(***************************************************************************)
(* command_next() ends at the first stop point at which the function does  *)
(* not wait for a call, or where a breakpoint of the user fires before,    *)
(* and goes on from a hidden position: on every recording, for frames that *)
(* are called again, recurse, return twice in a gap or never.              *)
(***************************************************************************)
THEOREM NextCorrect == Spec => NextLands
<1>1. Init => NextInv
  BY DEF Init, NextInv
<1>2. Inv /\ NextInv /\ [Next]_vars => NextInv'
  BY NextInvStep
<1>3. Inv /\ NextInv /\ [Next]_vars
        => [Ends("next") => now' = NextStop[request.start]]_vars
  BY NextInvStep
<1> QED BY <1>1, <1>2, <1>3, InvariantHolds, PTL DEF Spec, NextLands

-----------------------------------------------------------------------------
(***************************************************************************)
(* bnext: from stop point t, at which frame f runs, to the last one before *)
(* where it did not wait.                                                  *)
(***************************************************************************)
BackLandsAt(t, v) == \A h : IsBackStop(h) => h[t] = v

BackLandsLike(t, u) == \A h : IsBackStop(h) => h[t] = h[u]

\* Frame f, which runs at stop point t, waited at each one from w to before
\* it, and no breakpoint of the user fired on the way.
Waiting(f, t, w) ==
  /\ t \in Times /\ w \in Times /\ w <= t /\ f = Top(State(t))
  /\ \A v \in w..(t - 1) : Waits(f, v)
  /\ \A g \in w..(t - 1) : g \notin stops

\* A breakpoint of the user fires next.
LEMMA BackAtStop ==
  ASSUME CutsInv, NEW f, NEW t, NEW g \in stops, Waiting(f, t, g + 1)
  PROVE  BackLandsAt(t, g)
<1>0. /\ t \in Times /\ g \in Gaps /\ g < t /\ f = Top(State(t))
      /\ stops \subseteq Gaps /\ Total \in Nat
  BY SteppingAssumption DEF Waiting, CutsInv, Gaps, Times
<1>1. PICK u : u = LastFree(t)
  OBVIOUS
<1>2. u \in Times /\ u <= g
  <2>1. PICK S : S = {v \in Times : v < t /\ ~Waits(Top(State(t)), v)}
    OBVIOUS
  <2>2. CASE S = {}
    BY <1>0, <1>1, <2>1, <2>2, LastFreeIs DEF Gaps, Times
  <2>3. CASE S # {}
    <3>1. u \in S
      BY <1>0, <1>1, <2>1, <2>3, LastFreeIs
    <3>2. u \in Times /\ u < t /\ ~Waits(f, u)
      BY <1>0, <2>1, <3>1
    <3> QED BY <1>0, <3>2 DEF Waiting, Gaps, Times
  <2> QED BY <2>2, <2>3
<1>3. ~BackAgain(t)
  BY <1>0, <1>1, <1>2 DEF BackAgain
<1>4. \A h \in stops : h < t => h <= g
  BY <1>0 DEF Waiting, Gaps, Times
<1>5. Back(t, u) = g
  BY <1>0, <1>2, <1>4, BackIs
<1> QED BY <1>0, <1>1, <1>3, <1>5 DEF BackLandsAt, IsBackStop

\* The frame does not wait at the beginning of the gap before.
LEMMA BackFree ==
  ASSUME CutsInv, NEW f, NEW t, NEW g \in Gaps \ stops, Waiting(f, t, g + 1),
         ~Waits(f, g)
  PROVE  IF g \in hidden THEN BackLandsLike(t, g) ELSE BackLandsAt(t, g)
<1>0. /\ t \in Times /\ g \in Times /\ g < t /\ f = Top(State(t))
      /\ stops \subseteq Gaps /\ Total \in Nat
  BY SteppingAssumption DEF Waiting, CutsInv, Gaps, Times
<1>1. PICK S : S = {v \in Times : v < t /\ ~Waits(Top(State(t)), v)}
  OBVIOUS
<1>2. g \in S
  BY <1>0, <1>1
<1>3. LastFree(t) = g
  <2>1. PICK u : u = LastFree(t)
    OBVIOUS
  <2>2. u \in S /\ g <= u
    BY <1>0, <1>1, <1>2, <2>1, LastFreeIs
  <2>3. u \in Times /\ u < t /\ ~Waits(f, u)
    BY <1>0, <1>1, <2>2
  <2>4. u \notin (g + 1)..(t - 1)
    BY <2>3 DEF Waiting
  <2> QED BY <1>0, <2>1, <2>2, <2>3, <2>4 DEF Times
<1>4. \A h \in stops : ~(g <= h /\ h < t)
  BY <1>0 DEF Waiting, Gaps, Times
<1>5. Back(t, g) = g
  BY <1>0, <1>4, BackIs
<1>6. BackAgain(t) <=> g \in hidden
  BY <1>3, <1>4 DEF BackAgain
<1> QED BY <1>0, <1>3, <1>5, <1>6 DEF BackLandsAt, BackLandsLike, IsBackStop

\* The frame waited from the beginning of the recording.
LEMMA BackFirst ==
  ASSUME CutsInv, NEW f, NEW t, Waiting(f, t, 1)
  PROVE  BackLandsAt(t, 1)
<1>0. /\ t \in Times /\ f = Top(State(t)) /\ stops \subseteq Gaps
      /\ Total \in Nat /\ 1 \in Times /\ 1 \notin hidden
  BY SteppingAssumption DEF Waiting, CutsInv, Times
<1>1. PICK S : S = {v \in Times : v < t /\ ~Waits(Top(State(t)), v)}
  OBVIOUS
<1>2. S = {}
  BY <1>0, <1>1 DEF Waiting, Times
<1>3. LastFree(t) = 1 /\ ~BackAgain(t)
  BY <1>0, <1>1, <1>2, LastFreeIs DEF BackAgain
<1>4. \A g \in stops : ~(1 <= g /\ g < t)
  BY <1>0 DEF Waiting, Gaps, Times
<1>5. Back(t, 1) = 1
  BY <1>0, <1>4, BackIs
<1> QED BY <1>0, <1>3, <1>5 DEF BackLandsAt, IsBackStop

\* The frame waited already before gaps without a number.
LEMMA WaitingOn ==
  ASSUME Recorded, NEW f, NEW t, NEW w, NEW u \in Times, u <= w,
         Waiting(f, t, w), w < t,
         \A g \in u..(w - 1) : g \notin Hits(f, NoThread)
  PROVE  Waiting(f, t, u)
<1>0. t \in Times /\ w \in Times /\ w <= t /\ Total \in Nat
  BY SteppingAssumption DEF Waiting
<1>1. ASSUME NEW g \in u..(w - 1)
      PROVE  g \notin stops /\ Nums(g, f) = {}
  BY <1>0, <1>1, FrameHits DEF Gaps, Times
<1>2. ASSUME NEW v \in u..w PROVE Waits(f, v)
  <2>1. v \in Times /\ v <= w
    BY <1>0 DEF Times
  <2>2. \A g \in v..(w - 1) : Nums(g, f) = {}
    BY <1>0, <1>1, <2>1 DEF Times
  <2>3. Waits(f, v) <=> Waits(f, w)
    BY <1>0, <2>1, <2>2, SilentGaps
  <2>4. w \in w..(t - 1)
    BY <1>0 DEF Times
  <2> QED BY <2>3, <2>4 DEF Waiting
<1>3. \A v \in u..(t - 1) : v \in w..(t - 1) \/ v \in u..w
  BY <1>0 DEF Times
<1>4. \A g \in u..(t - 1) : g \in w..(t - 1) \/ g \in u..(w - 1)
  BY <1>0 DEF Times
<1> QED BY <1>0, <1>1, <1>2, <1>3, <1>4 DEF Waiting, Times

LEMMA SameBackStops ==
  ASSUME UNCHANGED log
  PROVE  /\ \A t, v : BackLandsAt(t, v)' <=> BackLandsAt(t, v)
         /\ \A t, v : BackLandsLike(t, v)' <=> BackLandsLike(t, v)
         /\ \A f, t, w : Waiting(f, t, w)' <=> Waiting(f, t, w)
<1>1. \A t : LastFree(t)' = LastFree(t)
  BY SameState DEF LastFree
<1>2. \A t : BackAgain(t)' <=> BackAgain(t)
  BY <1>1, SameState DEF BackAgain
<1>3. \A h : IsBackStop(h)' <=> IsBackStop(h)
  BY <1>1, <1>2, SameState DEF IsBackStop
<1>4. \A f, t, w : Waiting(f, t, w)' <=> Waiting(f, t, w)
  BY SameState DEF Waiting
<1> QED BY <1>3, <1>4 DEF BackLandsAt, BackLandsLike

(***************************************************************************)
(* The loops of command_bnext() are where they still end where the command *)
(* should.                                                                 *)
(***************************************************************************)
BackInv ==
  /\ phase = "bnext" => BackLandsLike(request.start, now)
  /\ phase = "bover" =>
       \E t : /\ Waiting(frame, t, now) /\ now < t
              /\ BackLandsLike(request.start, t)

\* A turn of a loop ends the command where the loop should end, or goes on.
BackRight(t, b, place, f) ==
  \/ place = "prompt" /\ BackLandsAt(t, b.time)
  \/ place = "bnext" /\ BackLandsLike(t, b.time)
  \/ place = "bover" /\ Waiting(f, t, b.time) /\ b.time < t

\* A gap with a hit, since which the frame has waited.
LEMMA BackHit ==
  ASSUME Recorded, NEW f, NEW t, NEW b, b.time = b.gap,
         b.gap \in Hits(f, NoThread), Waiting(f, t, b.gap + 1)
  PROVE  BackRight(t, b, AfterBack(b, f), f)
<1>0. /\ CutsInv /\ Total \in Nat
      /\ t \in Times /\ b.gap + 1 <= t /\ f = Top(State(t))
  BY SteppingAssumption DEF Recorded, Waiting
<1>1. PICK g : g = b.gap
  OBVIOUS
<1>2. g \in Gaps /\ Found(b) /\ (Regular(b) <=> g \in stops)
      /\ b.time = g /\ g \in Times /\ g < t
  BY <1>0, <1>1, FrameHits DEF Found, Regular, Gaps, Times
<1>3. CASE g \in stops
  <2>1. AfterBack(b, f) = "prompt"
    BY <1>2, <1>3 DEF AfterBack
  <2>2. BackLandsAt(t, g)
    BY <1>0, <1>1, <1>3, BackAtStop
  <2> QED BY <1>2, <2>1, <2>2 DEF BackRight
<1>4. CASE g \notin stops
  <2>1. Nums(g, f) # {}
    BY <1>0, <1>1, <1>2, <1>4, FrameHits
  <2>2. BeforeCall(b, f) <=> ~Waits(f, g)
    BY <1>1, <1>2, <2>1, FirstNumber DEF BeforeCall
  <2>3. CASE Waits(f, g)
    <3>1. AfterBack(b, f) = "bover"
      BY <1>2, <1>4, <2>2, <2>3 DEF AfterBack
    <3>2. \A v \in g..(t - 1) : v \in (g + 1)..(t - 1) \/ v = g
      BY <1>0, <1>2 DEF Times, Gaps
    <3>3. Waiting(f, t, g)
      BY <1>0, <1>1, <1>2, <1>4, <2>3, <3>2 DEF Waiting, Times
    <3> QED BY <1>2, <3>1, <3>3 DEF BackRight
  <2>4. CASE ~Waits(f, g)
    <3>1. IF g \in hidden THEN BackLandsLike(t, g) ELSE BackLandsAt(t, g)
      BY <1>0, <1>1, <1>2, <1>4, <2>4, BackFree
    <3>2. AfterBack(b, f) = IF g \in hidden THEN "bnext" ELSE "prompt"
      BY <1>2, <1>4, <2>2, <2>4 DEF AfterBack, Level
    <3> QED BY <1>2, <3>1, <3>2 DEF BackRight
  <2> QED BY <2>3, <2>4
<1> QED BY <1>3, <1>4

LEMMA BackStepRight ==
  ASSUME Recorded, now \in Times, NEW f, NEW b,
         f = Top(State(now)), b = Backward(1, Hits(f, NoThread))
  PROVE  BackRight(now, b, AfterBack(b, f), f)
<1>0. /\ CutsInv /\ TraceInv /\ Total \in Nat \ {0} /\ now \in 1..Total
  BY SteppingAssumption DEF Recorded, Times
<1>1. Waiting(f, now, now)
  BY <1>0 DEF Waiting
<1>2. \/ now - 1 \in Hits(f, NoThread) /\ b.gap = now - 1 /\ b.time = now - 1
      \/ /\ now - 1 \notin Hits(f, NoThread) /\ b.gap = 0
         /\ b.time = IF now > 1 THEN now - 1 ELSE 1
  BY HitsAreGaps, BackwardOne
<1>3. CASE now - 1 \in Hits(f, NoThread)
  <2>1. b.gap + 1 = now
    BY <1>0, <1>2, <1>3
  <2> QED BY <1>1, <1>2, <1>3, <2>1, BackHit
<1>4. CASE now - 1 \notin Hits(f, NoThread)
  <2>1. AfterBack(b, f) = IF b.time \in hidden THEN "bnext" ELSE "prompt"
    BY <1>2, <1>4 DEF AfterBack, Found, Regular, Level
  <2>2. CASE now = 1
    <3>1. b.time = 1 /\ 1 \notin hidden
      BY <1>0, <1>2, <1>4, <2>2 DEF CutsInv
    <3> QED BY <1>0, <1>1, <2>1, <2>2, <3>1, BackFirst DEF BackRight
  <2>3. CASE now > 1
    <3> DEFINE g == now - 1
    <3>1. g \in Gaps \ stops /\ Nums(g, f) = {} /\ g + 1 = now
      BY <1>0, <1>4, <2>3, FrameHits DEF Gaps
    <3>2. ~Waits(f, now)
      <4>1. now \in 1..Len(at)
        BY <1>0 DEF Recorded
      <4> QED BY <1>0, <4>1, StateIs, TopRuns DEF Waits, WaitsIn
    <3>3. ~Waits(f, g)
      BY <3>1, <3>2, NoNumbers
    <3>4. IF g \in hidden THEN BackLandsLike(now, g) ELSE BackLandsAt(now, g)
      <4> HIDE DEF g
      <4> QED BY <1>0, <1>1, <3>1, <3>3, BackFree
    <3> QED BY <1>2, <1>4, <2>1, <2>3, <3>4 DEF BackRight
  <2> QED BY <1>0, <2>2, <2>3
<1> QED BY <1>3, <1>4

LEMMA BackOverRight ==
  ASSUME Recorded, now \in Times, NEW f, NEW b, NEW t,
         Waiting(f, t, now), now < t,
         b = Backward(now - 1, Hits(f, NoThread))
  PROVE  BackRight(t, b, AfterBack(b, f), f)
<1>0. /\ CutsInv /\ Total \in Nat \ {0} /\ 1 \in Times /\ now \in 1..Total
      /\ 1 \notin hidden
  BY SteppingAssumption DEF Recorded, Times, CutsInv
<1>1. \/ b.gap = 0 /\ b.time = 1 /\ \A h \in Hits(f, NoThread) : h >= now
      \/ /\ b.gap \in Hits(f, NoThread) /\ b.gap < now /\ b.time = b.gap
         /\ \A h \in Hits(f, NoThread) : h < now => h <= b.gap
  BY HitsAreGaps, BackwardAll
<1>2. CASE b.gap = 0 /\ b.time = 1 /\ \A h \in Hits(f, NoThread) : h >= now
  <2>1. \A g \in 1..(now - 1) : g \notin Hits(f, NoThread)
    BY <1>0, <1>2
  <2>2. Waiting(f, t, 1)
    BY <1>0, <2>1, WaitingOn
  <2>3. AfterBack(b, f) = "prompt"
    BY <1>0, <1>2 DEF AfterBack, Found, Regular, Level
  <2> QED BY <1>0, <1>2, <2>2, <2>3, BackFirst DEF BackRight
<1>3. CASE /\ b.gap \in Hits(f, NoThread) /\ b.gap < now /\ b.time = b.gap
           /\ \A h \in Hits(f, NoThread) : h < now => h <= b.gap
  <2>1. b.gap \in Gaps /\ b.gap + 1 \in Times /\ b.gap + 1 <= now
    BY <1>0, <1>3, HitsAreGaps DEF Gaps, Times
  <2>2. \A g \in (b.gap + 1)..(now - 1) : g \notin Hits(f, NoThread)
    BY <1>0, <1>3, <2>1 DEF Gaps
  <2>3. Waiting(f, t, b.gap + 1)
    BY <2>1, <2>2, WaitingOn
  <2> QED BY <1>3, <2>3, BackHit
<1> QED BY <1>1, <1>2, <1>3

\* A turn of a loop, as a step.
LEMMA BackTurn ==
  ASSUME CutsInv, NEW t, BackLandsLike(request.start, t),
         NEW b, NEW place, NEW f, BackRight(t, b, place, f),
         To(b.time, place, f)
  PROVE  BackInv' /\ (phase' = "prompt" => now' = BackStop[request.start])
<1>1. UNCHANGED log /\ now' = b.time /\ phase' = place
  BY DEF To
<1>2. place # "prompt" => request' = request /\ frame' = f
  BY <1>1 DEF To
<1>3. CASE place = "prompt" /\ BackLandsAt(t, b.time)
  <2>1. BackStop[request.start] = BackStop[t] /\ BackStop[t] = b.time
    BY <1>3, BackStopExists DEF BackLandsAt, BackLandsLike
  <2> QED BY <1>1, <1>3, <2>1 DEF BackInv
<1>4. CASE place = "bnext" /\ BackLandsLike(t, b.time)
  <2>1. BackLandsLike(request.start, b.time)
    BY <1>4 DEF BackLandsLike
  <2>2. BackLandsLike(request.start, now)'
    BY <2>1, <1>1, <1>2, <1>4, SameBackStops
  <2> QED BY <1>1, <1>4, <2>2 DEF BackInv
<1>5. CASE place = "bover" /\ Waiting(f, t, b.time) /\ b.time < t
  <2>1. /\ BackLandsLike(request.start, t)' /\ Waiting(frame, t, now)'
        /\ now' < t
    BY <1>1, <1>2, <1>5, SameBackStops
  <2> QED BY <1>1, <1>5, <2>1 DEF BackInv
<1> QED BY <1>3, <1>4, <1>5 DEF BackRight

LEMMA BackInvStep ==
  ASSUME Inv, BackInv, [Next]_vars
  PROVE  BackInv' /\ (Ends("bnext") => now' = BackStop[request.start])
<1>0. CutsInv /\ now \in Times /\ CommandInv /\ (phase # "record" => Recorded)
  BY DEF Inv, CommandInv, Recorded
<1>1. CASE BackStep
  <2>1. PICK f, b : /\ f = Top(State(now)) /\ b = Backward(1, Hits(f, NoThread))
                    /\ To(b.time, AfterBack(b, f), f)
    BY <1>1 DEF BackStep
  <2>2. Recorded /\ BackLandsLike(request.start, now)
    BY <1>0, <1>1 DEF BackStep, BackInv
  <2>3. BackRight(now, b, AfterBack(b, f), f)
    BY <1>0, <2>1, <2>2, BackStepRight
  <2> QED BY <1>0, <2>1, <2>2, <2>3, BackTurn DEF Ends
<1>2. CASE BackOver
  <2>1. PICK b : /\ b = Backward(now - 1, Hits(frame, NoThread))
                 /\ To(b.time, AfterBack(b, frame), frame)
    BY <1>2 DEF BackOver
  <2>2. Recorded
    BY <1>0, <1>2 DEF BackOver
  <2>3. PICK t : /\ Waiting(frame, t, now) /\ now < t
                 /\ BackLandsLike(request.start, t)
    BY <1>2 DEF BackOver, BackInv
  <2>4. BackRight(t, b, AfterBack(b, frame), frame)
    BY <1>0, <2>1, <2>2, <2>3, BackOverRight
  <2> QED BY <1>0, <2>1, <2>3, <2>4, BackTurn DEF Ends
<1>3. CASE Command
  <2>1. PICK op \in Commands : Ask(op)
    BY <1>3 DEF Command
  <2>2. /\ UNCHANGED <<log, now>> /\ phase' = op /\ request'.start = now
    BY <1>0, <2>1, AskCommand
  <2>3. BackLandsLike(request.start, now)'
    BY <2>2 DEF BackLandsLike
  <2> QED BY <2>2, <2>3 DEF BackInv, Commands, Ends
<1>4. CASE Record \/ Start
  <2>1. phase' \in {"record", "prompt"} /\ request = NoRequest
    BY <1>0, <1>4 DEF Record, StopPoint, Happen, Start, CommandInv
  <2> QED BY <2>1 DEF BackInv, Ends, NoRequest
<1>5. CASE NextStep \/ NextOver \/ Finish \/ BackFinish \/ NextThread \/ BackThread
  <2>1. phase' \in {"prompt", "over", "next"} /\ request.op # "bnext"
    BY <1>0, <1>5, NextPlaces
       DEF NextStep, NextOver, Finish, BackFinish, NextThread, BackThread,
           To, CommandInv
  <2> QED BY <2>1 DEF BackInv, Ends
<1>6. CASE UNCHANGED vars
  <2>1. UNCHANGED <<log, now, phase, request, frame>>
    BY <1>6 DEF vars
  <2>2. phase = "bnext" => BackLandsLike(request.start, now)'
    BY <2>1, SameBackStops DEF BackInv
  <2>3. phase = "bover" =>
          \E t : /\ Waiting(frame, t, now)' /\ now < t
                 /\ BackLandsLike(request.start, t)'
    BY <2>1, SameBackStops DEF BackInv
  <2>4. BackInv'
    BY <2>1, <2>2, <2>3 DEF BackInv
  <2>5. ~Ends("bnext")
    BY <1>0, <2>1 DEF Ends, CommandInv, NoRequest
  <2> QED BY <2>4, <2>5
<1> QED BY <1>1, <1>2, <1>3, <1>4, <1>5, <1>6 DEF Next, Work

(***************************************************************************)
(* command_bnext() ends at the last stop point before at which the         *)
(* function did not wait for a call, or where a breakpoint of the user     *)
(* fires on the way back, and goes on from a hidden position: on every     *)
(* recording whose first stop point is not hidden.                         *)
(***************************************************************************)
THEOREM BackCorrect == Spec => BackLands
<1>1. Init => BackInv
  BY DEF Init, BackInv
<1>2. Inv /\ BackInv /\ [Next]_vars => BackInv'
  BY BackInvStep
<1>3. Inv /\ BackInv /\ [Next]_vars
        => [Ends("bnext") => now' = BackStop[request.start]]_vars
  BY BackInvStep
<1> QED BY <1>1, <1>2, <1>3, InvariantHolds, PTL DEF Spec, BackLands

-----------------------------------------------------------------------------
(***************************************************************************)
(* A move to the first change.  What holds at the stop points of W ends,   *)
(* in the first gap with a hit that is not a breakpoint of the user, for   *)
(* one of V.                                                               *)
(***************************************************************************)
LEMMA FirstChange ==
  ASSUME CutsInv, NEW t \in Times, t = now, NEW H \in SUBSET Gaps,
         stops \subseteq H, NEW W, NEW V \in SUBSET Times, t \in W, W \cap V = {},
         \A v \in V : t < v,
         \A g \in Gaps \ H : g \in W => g + 1 \in W,
         \A g \in H \ stops : g \in W /\ t <= g => g + 1 \in V,
         NEW b, b = Forward(Total - now, H)
  PROVE  b.time = Forth(t, MinOr(V, Total))
<1>0. /\ Total \in Nat \ {0} /\ Total \in Times /\ t \in 1..Total
      /\ stops \subseteq 1..(Total - 1)
  BY SteppingAssumption DEF Times, CutsInv, Gaps
<1>a. \A h \in H : h \in 1..(Total - 1)
  BY DEF Gaps
<1>1. PICK u : u = MinOr(V, Total)
  OBVIOUS
<1>2. V = {} => u = Total
  BY <1>1 DEF MinOr
<1>3. V # {} => u \in V /\ \A v \in V : u <= v
  <2>1. V \in SUBSET Nat
    BY DEF Times
  <2> QED BY <1>1, <2>1, MinOrIs
<1>4. ASSUME NEW w \in Times, t <= w,
             \A h \in t..(w - 1) : h \notin H
      PROVE  \A v \in t..w : v \in W
  <2> SUFFICES ASSUME NEW v \in t..w PROVE v \in W
    OBVIOUS
  <2>1. ASSUME NEW g \in t..(v - 1), g \in W PROVE g + 1 \in W
    <3>1. g \in Gaps \ H
      BY <1>0, <1>4 DEF Gaps, Times
    <3> QED BY <2>1, <3>1
  <2> QED BY <1>0, <2>1, Persists
<1>5. \/ b.gap = 0 /\ b.time = Total /\ \A h \in H : h < t
      \/ /\ b.gap \in H /\ t <= b.gap /\ b.time = b.gap + 1
         /\ \A h \in H : t <= h => b.gap <= h
  BY ForwardAll
<1>6. CASE b.gap = 0 /\ b.time = Total /\ \A h \in H : h < t
  <2>1. \A h \in t..(Total - 1) : h \notin H
    BY <1>0, <1>6
  <2>2. \A v \in t..Total : v \in W
    BY <1>0, <1>4, <2>1
  <2>3. V = {}
    BY <1>0, <2>2 DEF Times
  <2>4. Forth(t, Total) = Total
    BY <1>0, <1>6, ForthIs
  <2> QED BY <1>1, <1>2, <1>6, <2>3, <2>4
<1>7. CASE /\ b.gap \in H /\ t <= b.gap /\ b.time = b.gap + 1
           /\ \A h \in H : t <= h => b.gap <= h
  <2>1. PICK g : g = b.gap
    OBVIOUS
  <2>2. /\ g \in H /\ g \in 1..(Total - 1) /\ g \in Times /\ t <= g
        /\ g + 1 \in Times /\ \A h \in H : t <= h => g <= h
    <3>1. g \in H /\ t <= g /\ \A h \in H : t <= h => g <= h
      BY <1>7, <2>1
    <3>2. g \in 1..(Total - 1)
      BY <1>a, <3>1
    <3> QED BY <1>0, <3>1, <3>2 DEF Times
  <2>3. \A v \in t..g : v \in W
    <3>1. \A h \in t..(g - 1) : h \notin H
      BY <1>0, <2>2
    <3> QED BY <1>4, <2>2, <3>1
  <2>4. u \in Times /\ g < u
    <3>1. CASE V = {}
      BY <1>0, <1>2, <2>2, <3>1
    <3>2. CASE V # {}
      <4>1. u \in Times /\ u \notin W /\ t < u
        BY <1>3, <3>2
      <4> QED BY <1>0, <2>2, <2>3, <4>1 DEF Times
    <3> QED BY <3>1, <3>2
  <2>5. CASE g \in stops
    BY <1>1, <1>7, <2>1, <2>2, <2>4, <2>5, ForthIs
  <2>6. CASE g \notin stops
    <3>1. g + 1 \in V
      BY <1>0, <2>2, <2>3, <2>6
    <3>2. u = g + 1
      BY <1>0, <1>3, <2>2, <2>4, <3>1 DEF Times
    <3>3. \A h \in stops : ~(t <= h /\ h < g + 1)
      BY <1>0, <2>2, <2>6
    <3>4. Forth(t, g + 1) = g + 1
      BY <2>2, <3>3, ForthIs
    <3> QED BY <1>1, <1>7, <2>1, <3>2, <3>4
  <2> QED BY <2>5, <2>6
<1> QED BY <1>5, <1>6, <1>7

LEMMA LastChange ==
  ASSUME CutsInv, NEW t \in Times, t = now, NEW H \in SUBSET Gaps,
         stops \subseteq H, NEW W, NEW V \in SUBSET Times, t \in W, W \cap V = {},
         \A v \in V : v < t,
         \A g \in Gaps \ H : g + 1 \in W => g \in W,
         \A g \in H \ stops : g + 1 \in W /\ g < t => g \in V,
         NEW b, b = Backward(now - 1, H)
  PROVE  b.time = Back(t, MaxOr(V, 1))
<1>0. /\ Total \in Nat \ {0} /\ 1 \in Times /\ t \in 1..Total
      /\ stops \subseteq 1..(Total - 1)
  BY SteppingAssumption DEF Times, CutsInv, Gaps
<1>a. \A h \in H : h \in 1..(Total - 1)
  BY DEF Gaps
<1>1. PICK u : u = MaxOr(V, 1)
  OBVIOUS
<1>2. V = {} => u = 1
  BY <1>1 DEF MaxOr
<1>3. V # {} => u \in V /\ \A v \in V : v <= u
  <2>1. V \in SUBSET (0..Total)
    BY <1>0 DEF Times
  <2> QED BY <1>0, <1>1, <2>1, MaxOrIs
<1>4. ASSUME NEW w \in Times, w <= t,
             \A h \in w..(t - 1) : h \notin H
      PROVE  \A v \in w..t : v \in W
  <2> SUFFICES ASSUME NEW v \in w..t, v \notin W PROVE FALSE
    OBVIOUS
  <2> DEFINE Y == (v..t) \ W
  <2>1. ASSUME NEW g \in v..(t - 1), g \in Y PROVE g + 1 \in Y
    <3>1. g \in Gaps \ H
      BY <1>0, <1>4 DEF Gaps, Times
    <3> QED BY <1>0, <2>1, <3>1
  <2>2. v \in Y /\ v \in Int /\ v <= t
    BY <1>0
  <2>3. t \in Y
    <3> HIDE DEF Y
    <3> QED BY <1>0, <2>1, <2>2, Persists
  <2> QED BY <2>3
<1>5. \/ b.gap = 0 /\ b.time = 1 /\ \A h \in H : h >= t
      \/ /\ b.gap \in H /\ b.gap < t /\ b.time = b.gap
         /\ \A h \in H : h < t => h <= b.gap
  BY BackwardAll
<1>6. CASE b.gap = 0 /\ b.time = 1 /\ \A h \in H : h >= t
  <2>1. \A h \in 1..(t - 1) : h \notin H
    BY <1>0, <1>6
  <2>2. \A v \in 1..t : v \in W
    BY <1>0, <1>4, <2>1
  <2>3. V = {}
    BY <1>0, <2>2 DEF Times
  <2>4. \A g \in stops : ~(1 <= g /\ g < t)
    BY <1>0, <1>6
  <2>5. Back(t, 1) = 1
    BY <1>0, <2>4, BackIs
  <2> QED BY <1>1, <1>2, <1>6, <2>3, <2>5
<1>7. CASE /\ b.gap \in H /\ b.gap < t /\ b.time = b.gap
           /\ \A h \in H : h < t => h <= b.gap
  <2>1. PICK g : g = b.gap
    OBVIOUS
  <2>2. /\ g \in H /\ g \in 1..(Total - 1) /\ g \in Times /\ g < t
        /\ g + 1 \in Times /\ \A h \in H : h < t => h <= g
    <3>1. g \in H /\ g < t /\ \A h \in H : h < t => h <= g
      BY <1>7, <2>1
    <3>2. g \in 1..(Total - 1)
      BY <1>a, <3>1
    <3> QED BY <1>0, <3>1, <3>2 DEF Times
  <2>3. \A v \in (g + 1)..t : v \in W
    <3>1. \A h \in (g + 1)..(t - 1) : h \notin H
      BY <1>0, <2>2
    <3>2. g + 1 <= t
      BY <1>0, <2>2
    <3> QED BY <1>4, <2>2, <3>1, <3>2
  <2>4. u \in Times /\ u <= g
    <3>1. CASE V = {}
      BY <1>0, <1>2, <2>2, <3>1
    <3>2. CASE V # {}
      <4>1. u \in Times /\ u \notin W /\ u < t
        BY <1>3, <3>2
      <4> QED BY <1>0, <2>2, <2>3, <4>1 DEF Times
    <3> QED BY <3>1, <3>2
  <2>5. CASE g \in stops
    <3>1. \A h \in stops : h < t => h <= g
      BY <2>2
    <3>2. Back(t, u) = g
      BY <2>2, <2>4, <2>5, <3>1, BackIs
    <3> QED BY <1>1, <1>7, <2>1, <3>2
  <2>6. CASE g \notin stops
    <3>1. g \in V
      BY <1>0, <2>2, <2>3, <2>6
    <3>2. u = g
      BY <1>0, <1>3, <2>2, <2>4, <3>1 DEF Times
    <3>3. \A h \in stops : ~(g <= h /\ h < t)
      BY <1>0, <2>2, <2>6
    <3>4. Back(t, g) = g
      BY <2>2, <3>3, BackIs
    <3> QED BY <1>1, <1>7, <2>1, <3>2, <3>4
  <2> QED BY <2>5, <2>6
<1> QED BY <1>5, <1>6, <1>7

-----------------------------------------------------------------------------
(***************************************************************************)
(* finish and bfinish: frame f is above its caller p until it returns.     *)
(***************************************************************************)
LEMMA StretchAbove ==
  ASSUME Recorded, NEW g \in Gaps, NEW f, NEW p,
         NEW i \in Int, NEW j \in Int, at[g] <= i, i <= j, j <= at[g + 1],
         \A k \in i..(j - 1) : k \notin Nums(g, p)
  PROVE  Above(trace[i], f, p) <=> Above(trace[j], f, p)
<1> DEFINE X == {k \in i..j : Above(trace[k], f, p)}
<1>1. ASSUME NEW k \in i..(j - 1) PROVE k \in X <=> k + 1 \in X
  <2>1. k \in Changes(g)
    BY GapIs DEF Changes
  <2>2. Number(trace[k], trace[k + 1], p) = 0
    BY <2>1 DEF Nums, Num
  <2>3. Changed(trace[k], trace[k + 1], FirstNew + k)
    BY <2>1, GapIs
  <2>4. /\ trace[k] \in States /\ Whole(trace[k])
        /\ trace[k + 1] \in States /\ Whole(trace[k + 1])
    BY <2>3 DEF Changed
  <2>5. Above(trace[k], f, p) <=> Above(trace[k + 1], f, p)
    BY <2>2, <2>3, NumberAbove
  <2> QED BY <2>5
<1>2. i \in X <=> j \in X
  <2> HIDE DEF X
  <2> QED BY <1>1, Constant
<1> QED BY <1>2

\* Frames are numbered once.
LEMMA OlderThan ==
  ASSUME TraceInv, NEW i \in 1..Len(trace), NEW f \in Frames(trace[i])
  PROVE  f \in Nat /\ f < FirstNew + i
<1>1. trace[i] \in States /\ Whole(trace[i]) /\ Older(trace[i], FirstNew + i)
  BY DEF TraceInv
<1>2. PICK n \in Threads :
        \E j \in 1..Len(trace[i].stacks[n]) : trace[i].stacks[n][j] = f
  BY <1>1, FrameAtPlace
<1>3. f \in Nat
  BY <1>1, <1>2, StacksAreSequences
<1> QED BY <1>1, <1>3 DEF Older

\* A frame that has gone does not come back.
LEMMA GoneStays ==
  ASSUME Recorded, NEW g \in Gaps, NEW f \in Nat,
         NEW i \in Int, at[g] <= i, i <= at[g + 1],
         f < FirstNew + i, f \notin Frames(trace[i])
  PROVE  f \notin Frames(trace[at[g + 1]])
<1> DEFINE X == {k \in i..at[g + 1] : f \notin Frames(trace[k])}
<1>0. at[g + 1] \in Int
  BY GapIs
<1>1. ASSUME NEW k \in i..(at[g + 1] - 1), k \in X PROVE k + 1 \in X
  <2>1. k \in Changes(g)
    BY GapIs DEF Changes
  <2>2. Changed(trace[k], trace[k + 1], FirstNew + k)
    BY <2>1, GapIs
  <2>3. f # FirstNew + k
    BY SteppingAssumption
  <2>4. f \notin Frames(trace[k + 1])
    BY <1>1, <2>2, <2>3, FramesNew
  <2> QED BY <2>4, <1>0
<1>2. i \in X
  BY <1>0
<1>3. at[g + 1] \in X
  <2> HIDE DEF X
  <2> QED BY <1>0, <1>1, <1>2, Persists
<1> QED BY <1>3

LEMMA ExistsIs ==
  ASSUME NEW f, NEW t
  PROVE  Exists(f, t) <=> f \in Frames(State(t))
BY DEF Exists, Frames

(***************************************************************************)
(* A gap with no number of the caller leaves the frame where it is; with   *)
(* one, it ends it, or has begun with its call.                            *)
(***************************************************************************)
LEMMA GapAbove ==
  ASSUME Recorded, NEW g \in Gaps, NEW f, NEW p
  PROVE  /\ Nums(g, p) = {} =>
              (Above(State(g), f, p) <=> Above(State(g + 1), f, p))
         /\ Nums(g, p) # {} /\ Above(State(g), f, p) => ~Exists(f, g + 1)
         /\ Nums(g, p) # {} /\ Above(State(g + 1), f, p) => ~Exists(f, g)
<1>0. /\ at[g] \in Int /\ at[g + 1] \in Int /\ at[g] <= at[g + 1]
      /\ at[g] \in 1..Len(trace) /\ at[g + 1] \in 1..Len(trace)
      /\ at[g] <= at[g] /\ at[g + 1] <= at[g + 1] /\ TraceInv
      /\ g \in Times /\ g + 1 \in Times
  BY GapIs DEF Recorded
<1>s. State(g) = trace[at[g]] /\ State(g + 1) = trace[at[g + 1]]
  BY DEF State
<1>1. ASSUME Nums(g, p) = {}
      PROVE  Above(State(g), f, p) <=> Above(State(g + 1), f, p)
  <2>0. /\ \A k \in at[g]..(at[g + 1] - 1) : k \notin Nums(g, p)
        /\ at[g] \in Int /\ at[g + 1] \in Int
        /\ at[g] <= at[g] /\ at[g] <= at[g + 1] /\ at[g + 1] <= at[g + 1]
    BY <1>0, <1>1
  <2>1. Above(trace[at[g]], f, p) <=> Above(trace[at[g + 1]], f, p)
    BY <2>0, StretchAbove
  <2> QED BY <2>1, <1>s
<1>2. ASSUME Nums(g, p) # {}, Above(State(g), f, p)
      PROVE  ~Exists(f, g + 1)
  <2>1. PICK i \in Nums(g, p) : \A k \in Nums(g, p) : i <= k
    BY <1>2, NumbersAre
  <2>2. /\ i \in Changes(g) /\ Number(trace[i], trace[i + 1], p) # 0
        /\ i \in Int /\ at[g] <= i /\ i < at[g + 1]
        /\ Changed(trace[i], trace[i + 1], FirstNew + i)
        /\ i \in 1..Len(kinds)
    BY <2>1, GapIs DEF Nums, Num
  <2>3. Above(trace[i], f, p)
    <3>1. \A k \in at[g]..(i - 1) : k \notin Nums(g, p)
      BY <2>1, <2>2
    <3>2. at[g] <= i /\ i <= at[g + 1] /\ i \in Int
      BY <1>0, <2>2
    <3>3. Above(trace[at[g]], f, p) <=> Above(trace[i], f, p)
      BY <1>0, <3>1, <3>2, StretchAbove
    <3> QED BY <3>3, <1>2, <1>s
  <2>4. f \in Frames(trace[i])
    BY <2>2, <2>3, AboveTop DEF Changed
  <2>5. f \in Nat /\ f < FirstNew + i
    <3>1. i \in 1..Len(trace)
      BY <1>0, <2>2
    <3> QED BY <1>0, <2>4, <3>1, OlderThan
  <2>6. f \notin Frames(trace[i + 1])
    BY <2>2, <2>3, NumberAbove
  <2>7. i + 1 \in Int /\ at[g] <= i + 1 /\ i + 1 <= at[g + 1]
        /\ f < FirstNew + (i + 1)
    BY <1>0, <2>2, <2>5, SteppingAssumption
  <2>8. f \notin Frames(trace[at[g + 1]])
    BY <2>5, <2>6, <2>7, GoneStays
  <2> QED BY <2>8, <1>s, ExistsIs
<1>3. ASSUME Nums(g, p) # {}, Above(State(g + 1), f, p), Exists(f, g)
      PROVE  FALSE
  <2>1. PICK i \in Nums(g, p) : \A k \in Nums(g, p) : k <= i
    BY <1>3, NumbersAre
  <2>2. /\ i \in Changes(g) /\ Number(trace[i], trace[i + 1], p) # 0
        /\ i \in Int /\ at[g] <= i /\ i < at[g + 1]
        /\ Changed(trace[i], trace[i + 1], FirstNew + i)
    BY <2>1, GapIs DEF Nums, Num
  <2>3. Above(trace[i + 1], f, p)
    <3>1. \A k \in (i + 1)..(at[g + 1] - 1) : k \notin Nums(g, p)
      BY <1>0, <2>1, <2>2
    <3>2. /\ i + 1 \in Int /\ at[g] <= i + 1 /\ i + 1 <= at[g + 1]
          /\ at[g + 1] \in Int /\ at[g + 1] <= at[g + 1]
      BY <1>0, <2>2
    <3>3. Above(trace[i + 1], f, p) <=> Above(trace[at[g + 1]], f, p)
      BY <3>1, <3>2, StretchAbove
    <3> QED BY <3>3, <1>3, <1>s
  <2>4. f \notin Frames(trace[i])
    BY <2>2, <2>3, NumberAbove
  <2>5. f \in Frames(trace[i + 1])
    BY <2>2, <2>3, AboveTop DEF Changed
  <2>6. f \in Nat /\ f < FirstNew + at[g]
    BY <1>0, <1>3, <1>s, ExistsIs, OlderThan
  <2>7. f # FirstNew + i
    BY <1>0, <2>2, <2>6, SteppingAssumption
  <2> QED BY <2>2, <2>4, <2>5, <2>7, FramesNew
<1> QED BY <1>1, <1>2, <1>3

\* A frame that was called is on a stack.
LEMMA AboveExists ==
  ASSUME Recorded, NEW f, NEW p, NEW t \in Times, Above(State(t), f, p)
  PROVE  Exists(f, t)
<1>1. State(t) \in States /\ Whole(State(t))
  BY StateIs DEF Recorded, Times
<1> QED BY <1>1, AboveTop, ExistsIs

\* The caller of the frame that runs.
LEMMA ParentAbove ==
  ASSUME Recorded, NEW t \in Times, Depth(State(t)) >= 2
  PROVE  /\ Above(State(t), Top(State(t)), ParentOf(State(t)))
         /\ ParentOf(State(t)) # 0
<1> DEFINE s == State(t)
           d == Depth(s)
<1>1. s \in States /\ Whole(s)
  BY StateIs DEF Recorded, Times
<1>2. /\ s.thread \in Threads /\ Stack(s) = s.stacks[s.thread]
      /\ d = Len(s.stacks[s.thread]) /\ d \in Nat
      /\ \A i \in 1..d : Stack(s)[i] \in Nat \ {0}
      /\ Top(s) = Stack(s)[d]
  BY <1>1, StackIsSequence
<1>3. ParentOf(s) = Stack(s)[d - 1] /\ d - 1 \in 1..d /\ d \in 2..d
  BY <1>2 DEF ParentOf
<1>4. Above(s, Top(s), ParentOf(s))
  BY <1>2, <1>3 DEF Above
<1>5. ParentOf(s) # 0
  BY <1>2, <1>3
<1> QED BY <1>4, <1>5

LEMMA FinishRight ==
  ASSUME Recorded, now \in Times, Depth(State(now)) >= 2, NEW b,
         b = Forward(Total - now, Hits(ParentOf(State(now)), NoThread))
  PROVE  b.time = FinishStop(now)
<1>1. PICK t, f, p : t = now /\ f = Top(State(t)) /\ p = ParentOf(State(t))
  OBVIOUS
<1>2. PICK H, W, V : /\ H = Hits(p, NoThread)
                     /\ W = {v \in Times : Above(State(v), f, p)}
                     /\ V = {v \in Times : v > t /\ ~Exists(f, v)}
  OBVIOUS
<1>3. t \in Times /\ Above(State(t), f, p) /\ ~(Depth(State(t)) < 2)
  <2>1. Depth(State(t)) \in Nat
    BY <1>1, StateIs, StackIsSequence DEF Recorded, Times
  <2> QED BY <1>1, <2>1, ParentAbove
<1>4. H \in SUBSET Gaps /\ stops \subseteq H
  BY <1>2, FrameHits DEF Hits, Recorded, CutsInv
<1>5. W \cap V = {}
  BY <1>2, AboveExists
<1>6. \A g \in Gaps \ H : g \in W => g + 1 \in W
  BY <1>2, FrameHits, GapIs, GapAbove
<1>7. ASSUME NEW g \in H \ stops, g \in W, t <= g
      PROVE  g + 1 \in V
  <2>1. g \in Gaps /\ Nums(g, p) # {}
    BY <1>2, <1>7, FrameHits
  <2>2. ~Exists(f, g + 1)
    BY <1>2, <1>7, <2>1, GapAbove
  <2>3. g + 1 \in Times /\ g + 1 > t
    BY <1>3, <1>7, <2>1, GapIs DEF Times
  <2> QED BY <1>2, <2>2, <2>3
<1>8. b.time = Forth(t, MinOr(V, Total))
  <2>1. V \in SUBSET Times /\ (\A v \in V : t < v) /\ t \in W
    BY <1>2, <1>3
  <2>2. b = Forward(Total - now, H) /\ t = now
    BY <1>1, <1>2
  <2>3. \A g \in H \ stops : g \in W /\ t <= g => g + 1 \in V
    BY <1>7
  <2> QED
    BY <1>3, <1>4, <1>5, <1>6, <2>1, <2>2, <2>3, FirstChange DEF Recorded
<1> QED BY <1>1, <1>2, <1>3, <1>8 DEF FinishStop

LEMMA BackFinishRight ==
  ASSUME Recorded, now \in Times, Depth(State(now)) >= 2, NEW b,
         b = Backward(now - 1, Hits(ParentOf(State(now)), NoThread))
  PROVE  b.time = BackFinishStop(now)
<1>1. PICK t, f, p : t = now /\ f = Top(State(t)) /\ p = ParentOf(State(t))
  OBVIOUS
<1>2. PICK H, W, V : /\ H = Hits(p, NoThread)
                     /\ W = {v \in Times : Above(State(v), f, p)}
                     /\ V = {v \in Times : v < t /\ ~Exists(f, v)}
  OBVIOUS
<1>3. t \in Times /\ Above(State(t), f, p) /\ ~(Depth(State(t)) < 2)
  <2>1. Depth(State(t)) \in Nat
    BY <1>1, StateIs, StackIsSequence DEF Recorded, Times
  <2> QED BY <1>1, <2>1, ParentAbove
<1>4. H \in SUBSET Gaps /\ stops \subseteq H
  BY <1>2, FrameHits DEF Hits, Recorded, CutsInv
<1>5. W \cap V = {}
  BY <1>2, AboveExists
<1>6. \A g \in Gaps \ H : g + 1 \in W => g \in W
  BY <1>2, FrameHits, GapIs, GapAbove
<1>7. ASSUME NEW g \in H \ stops, g + 1 \in W, g < t
      PROVE  g \in V
  <2>1. g \in Gaps /\ Nums(g, p) # {}
    BY <1>2, <1>7, FrameHits
  <2>2. ~Exists(f, g)
    BY <1>2, <1>7, <2>1, GapAbove
  <2> QED BY <1>2, <1>7, <2>1, <2>2, GapIs
<1>8. b.time = Back(t, MaxOr(V, 1))
  <2>1. V \in SUBSET Times /\ (\A v \in V : v < t) /\ t \in W
    BY <1>2, <1>3
  <2>2. b = Backward(now - 1, H) /\ t = now
    BY <1>1, <1>2
  <2>3. \A g \in H \ stops : g + 1 \in W /\ g < t => g \in V
    BY <1>7
  <2> QED
    BY <1>3, <1>4, <1>5, <1>6, <2>1, <2>2, <2>3, LastChange DEF Recorded
<1> QED BY <1>1, <1>2, <1>3, <1>8 DEF BackFinishStop

LEMMA FinishStep ==
  ASSUME Inv, [Next]_vars
  PROVE  /\ Ends("finish") => now' = FinishStop(request.start)
         /\ Ends("bfinish") => now' = BackFinishStop(request.start)
<1> SUFFICES ASSUME request.op \in {"finish", "bfinish"}, phase' = "prompt"
             PROVE  /\ request.op = "finish" => now' = FinishStop(request.start)
                    /\ request.op = "bfinish" =>
                         now' = BackFinishStop(request.start)
  BY DEF Ends
<1>1. /\ phase = request.op /\ now = request.start
      /\ now \in Times /\ Recorded
  BY DEF Inv, CommandInv, Recorded, NoRequest
<1>2. Finish \/ BackFinish
  BY <1>1 DEF Next, Record, StopPoint, Happen, Start, Command, Ask, Work,
              NextStep, NextOver, BackStep, BackOver, NextThread, BackThread,
              vars
<1>3. PICK p : p = ParentOf(State(now))
  OBVIOUS
<1>4. Depth(State(now)) < 2 => p = 0
  BY <1>3 DEF ParentOf
<1>5. Depth(State(now)) >= 2 \/ Depth(State(now)) < 2
  <2>1. Depth(State(now)) \in Nat
    BY <1>1, StateIs, StackIsSequence DEF Recorded, Times
  <2> QED BY <2>1
<1>6. Depth(State(now)) >= 2 => p # 0 /\ ~(Depth(State(now)) < 2)
  <2>1. Depth(State(now)) \in Nat
    BY <1>1, StateIs, StackIsSequence DEF Recorded, Times
  <2> QED BY <2>1, <1>1, <1>3, ParentAbove
<1>7. CASE Finish
  <2>1. /\ phase = "finish"
        /\ now' = IF p = 0 THEN now
                  ELSE Forward(Total - now, Hits(p, NoThread)).time
    BY <1>3, <1>7 DEF Finish, To
  <2>2. CASE Depth(State(now)) < 2
    BY <1>1, <1>4, <2>1, <2>2 DEF FinishStop
  <2>3. CASE Depth(State(now)) >= 2
    BY <1>1, <1>3, <1>6, <2>1, <2>3, FinishRight
  <2> QED BY <1>5, <2>2, <2>3
<1>8. CASE BackFinish
  <2>1. /\ phase = "bfinish"
        /\ now' = IF p = 0 THEN now
                  ELSE Backward(now - 1, Hits(p, NoThread)).time
    BY <1>3, <1>8 DEF BackFinish, To
  <2>2. CASE Depth(State(now)) < 2
    BY <1>1, <1>4, <2>1, <2>2 DEF BackFinishStop
  <2>3. CASE Depth(State(now)) >= 2
    BY <1>1, <1>3, <1>6, <2>1, <2>3, BackFinishRight
  <2> QED BY <1>5, <2>2, <2>3
<1> QED BY <1>2, <1>7, <1>8

(***************************************************************************)
(* command_finish() ends where the function that runs has returned, and    *)
(* command_bfinish() where it was not called yet, if no breakpoint of the  *)
(* user fires on the way: the calls and returns of the caller are enough   *)
(* to find these, since it cannot call another function in between.        *)
(***************************************************************************)
THEOREM FinishCorrect == Spec => FinishLands
<1>1. Inv /\ [Next]_vars
        => [/\ Ends("finish") => now' = FinishStop(request.start)
            /\ Ends("bfinish") => now' = BackFinishStop(request.start)]_vars
  BY FinishStep
<1> QED BY <1>1, InvariantHolds, PTL DEF Spec, FinishLands

-----------------------------------------------------------------------------
(***************************************************************************)
(* nthread and bthread.                                                    *)
(***************************************************************************)
\* No frame has the number 0: only breakpoints and switches are hit.
LEMMA ThreadHits ==
  ASSUME Recorded, NEW n, NEW g
  PROVE  g \in Hits(0, n) <=> g \in Gaps /\ (g \in stops \/ Switches(g, n))
<1>1. ASSUME NEW h \in Gaps, NEW i \in Changes(h) PROVE Num(i, 0) = 0
  <2>1. Changed(trace[i], trace[i + 1], FirstNew + i)
    BY GapIs
  <2>2. Top(trace[i]) # 0 /\ Top(trace[i + 1]) # 0
    BY <2>1, StackIsSequence DEF Changed
  <2> QED BY <2>2 DEF Num, Number
<1> QED BY <1>1 DEF Hits, Nums

\* Thread n runs at position i of the recording if it runs at time t.
Alike(t, i, n) == trace[i].thread = n <=> State(t).thread = n

\* Another one runs on the way through gap g.
Differs(t, g, n) == \E i \in at[g]..at[g + 1] : ~Alike(t, i, n)

\* In a gap without a switch from or to thread n, it runs everywhere or
\* nowhere; with one, it does both.
LEMMA GapThread ==
  ASSUME Recorded, NEW g \in Gaps, NEW n, NEW t
  PROVE  /\ ~Switches(g, n) /\ Alike(t, at[g], n) =>
              \A i \in at[g]..at[g + 1] : Alike(t, i, n)
         /\ ~Switches(g, n) /\ Alike(t, at[g + 1], n) =>
              \A i \in at[g]..at[g + 1] : Alike(t, i, n)
         /\ Switches(g, n) => Differs(t, g, n)
<1> DEFINE X == {i \in Int : Alike(t, i, n)}
<1>0. /\ at[g] \in Int /\ at[g + 1] \in Int /\ at[g] <= at[g + 1]
      /\ \A i \in Changes(g) : i \in Int /\ at[g] <= i /\ i < at[g + 1]
  BY GapIs
<1>1. ASSUME ~Switches(g, n), NEW i \in at[g]..at[g + 1]
      PROVE  /\ at[g] \in X <=> i \in X
             /\ i \in X <=> at[g + 1] \in X
  <2>1. ASSUME NEW k \in at[g]..(at[g + 1] - 1) PROVE k \in X <=> k + 1 \in X
    BY <1>0, <1>1, <2>1 DEF Switches, Changes, Alike
  <2>2. i \in Int /\ at[g] <= i /\ i <= at[g + 1]
    BY <1>0
  <2> HIDE DEF X
  <2>3. \A k \in at[g]..(i - 1) : k \in X <=> k + 1 \in X
    BY <1>0, <2>1, <2>2
  <2>4. \A k \in i..(at[g + 1] - 1) : k \in X <=> k + 1 \in X
    BY <1>0, <2>1, <2>2
  <2>5. at[g] \in X <=> i \in X
    BY <1>0, <2>2, <2>3, Constant
  <2>6. i \in X <=> at[g + 1] \in X
    BY <1>0, <2>2, <2>4, Constant
  <2> QED BY <2>5, <2>6
<1>2. ASSUME ~Switches(g, n), Alike(t, at[g], n) \/ Alike(t, at[g + 1], n),
             NEW i \in at[g]..at[g + 1]
      PROVE  Alike(t, i, n)
  BY <1>0, <1>1, <1>2
<1>3. ASSUME Switches(g, n) PROVE Differs(t, g, n)
  <2>1. PICK i \in Changes(g) :
          /\ trace[i].thread # trace[i + 1].thread
          /\ n \in {trace[i].thread, trace[i + 1].thread}
    BY <1>3 DEF Switches
  <2>2. i \in at[g]..at[g + 1] /\ i + 1 \in at[g]..at[g + 1]
    BY <1>0, <2>1
  <2>3. ~Alike(t, i, n) \/ ~Alike(t, i + 1, n)
    BY <2>1 DEF Alike
  <2> QED BY <2>2, <2>3 DEF Differs
<1> QED BY <1>2, <1>3

LEMMA ThreadForth ==
  ASSUME Recorded, now \in Times, NEW n, NEW b,
         b = Forward(Total - now, Hits(0, n))
  PROVE  b.time =
           Forth(now, MinOr({g + 1 : g \in {g \in Gaps :
                               now <= g /\ Differs(now, g, n)}}, Total))
<1>1. PICK t : t = now
  OBVIOUS
<1>2. PICK H, W, V :
        /\ H = Hits(0, n)
        /\ W = {v \in Times : v <= t \/ \A i \in at[t]..at[v] : Alike(t, i, n)}
        /\ V = {g + 1 : g \in {g \in Gaps : t <= g /\ Differs(t, g, n)}}
  OBVIOUS
<1>3. /\ t \in Times /\ t \in Int /\ CutsInv
      /\ \A u, v \in Times : u <= v => at[u] <= at[v]
      /\ \A v \in Times : v \in Int /\ at[v] \in Int
  BY <1>1, SteppingAssumption DEF Recorded, CutsInv, Times
<1>4. ASSUME NEW v \in V PROVE v \in Times /\ t < v /\ v \notin W
  <2>1. PICK g \in Gaps : t <= g /\ Differs(t, g, n) /\ v = g + 1
    BY <1>2
  <2>2. g \in Times /\ g \in Int /\ v \in Times
    BY <1>3, <2>1, GapIs
  <2>3. PICK i \in at[g]..at[v] : ~Alike(t, i, n)
    BY <2>1 DEF Differs
  <2>4. i \in at[t]..at[v]
    BY <1>3, <2>1, <2>2, <2>3
  <2> QED BY <1>2, <1>3, <2>1, <2>2, <2>3, <2>4
<1>5. H \in SUBSET Gaps /\ stops \subseteq H /\ t \in W
  BY <1>2, <1>3, ThreadHits DEF Hits, CutsInv
<1>6. ASSUME NEW g \in Gaps \ H, g \in W PROVE g + 1 \in W
  <2>1. /\ ~Switches(g, n) /\ g \in Times /\ g + 1 \in Times /\ g \in Int
        /\ at[g] \in Int /\ at[g + 1] \in Int
    BY <1>2, <1>3, <1>6, ThreadHits, GapIs
  <2>2. CASE g < t
    BY <1>2, <1>3, <2>1, <2>2
  <2>3. CASE t <= g
    <3>1. \A i \in at[t]..at[g] : Alike(t, i, n)
      <4>1. CASE g = t
        BY <1>3, <4>1 DEF Alike, State
      <4>2. CASE g # t
        BY <1>2, <1>3, <1>6, <2>1, <2>3, <4>2
      <4> QED BY <4>1, <4>2
    <3>2. Alike(t, at[g], n)
      BY <1>3, <2>1, <2>3, <3>1
    <3>3. \A i \in at[g]..at[g + 1] : Alike(t, i, n)
      BY <2>1, <3>2, GapThread
    <3>4. \A i \in at[t]..at[g + 1] : Alike(t, i, n)
      BY <1>3, <2>1, <3>1, <3>3
    <3> QED BY <1>2, <2>1, <3>4
  <2> QED BY <1>3, <2>1, <2>2, <2>3
<1>7. \A g \in H \ stops : g \in W /\ t <= g => g + 1 \in V
  BY <1>2, ThreadHits, GapThread
<1>8. b = Forward(Total - now, H) /\ V \in SUBSET Times /\ W \cap V = {}
      /\ \A v \in V : t < v
  BY <1>2, <1>4
<1>9. \A g \in Gaps \ H : g \in W => g + 1 \in W
  BY <1>6
<1>10. b.time = Forth(t, MinOr(V, Total))
  BY <1>1, <1>3, <1>5, <1>7, <1>8, <1>9, FirstChange
<1> QED BY <1>1, <1>2, <1>10

LEMMA ThreadBack ==
  ASSUME Recorded, now \in Times, NEW n, NEW b,
         b = Backward(now - 1, Hits(0, n))
  PROVE  b.time =
           Back(now, MaxOr({g \in Gaps : g < now /\ Differs(now, g, n)}, 1))
<1>1. PICK t : t = now
  OBVIOUS
<1>2. PICK H, W, V :
        /\ H = Hits(0, n)
        /\ W = {v \in Times : t <= v \/ \A i \in at[v]..at[t] : Alike(t, i, n)}
        /\ V = {g \in Gaps : g < t /\ Differs(t, g, n)}
  OBVIOUS
<1>3. /\ t \in Times /\ t \in Int /\ CutsInv
      /\ \A u, v \in Times : u <= v => at[u] <= at[v]
      /\ \A v \in Times : v \in Int /\ at[v] \in Int
  BY <1>1, SteppingAssumption DEF Recorded, CutsInv, Times
<1>4. ASSUME NEW v \in V PROVE v \in Times /\ v < t /\ v \notin W
  <2>1. v \in Gaps /\ v < t /\ Differs(t, v, n)
    BY <1>2
  <2>2. v \in Times /\ v \in Int /\ v + 1 \in Times
    BY <1>3, <2>1, GapIs
  <2>3. PICK i \in at[v]..at[v + 1] : ~Alike(t, i, n)
    BY <2>1 DEF Differs
  <2>4. i \in at[v]..at[t]
    BY <1>3, <2>1, <2>2, <2>3
  <2> QED BY <1>2, <1>3, <2>1, <2>2, <2>3, <2>4
<1>5. H \in SUBSET Gaps /\ stops \subseteq H /\ t \in W
  BY <1>2, <1>3, ThreadHits DEF Hits, CutsInv
<1>6. ASSUME NEW g \in Gaps \ H, g + 1 \in W PROVE g \in W
  <2>1. /\ ~Switches(g, n) /\ g \in Times /\ g + 1 \in Times /\ g \in Int
        /\ at[g] \in Int /\ at[g + 1] \in Int
    BY <1>2, <1>3, <1>6, ThreadHits, GapIs
  <2>2. CASE t <= g
    BY <1>2, <1>3, <2>1, <2>2
  <2>3. CASE g < t
    <3>1. \A i \in at[g + 1]..at[t] : Alike(t, i, n)
      <4>1. CASE g + 1 = t
        BY <1>3, <4>1 DEF Alike, State
      <4>2. CASE g + 1 # t
        BY <1>2, <1>3, <1>6, <2>1, <2>3, <4>2
      <4> QED BY <4>1, <4>2
    <3>2. Alike(t, at[g + 1], n)
      BY <1>3, <2>1, <2>3, <3>1
    <3>3. \A i \in at[g]..at[g + 1] : Alike(t, i, n)
      BY <2>1, <3>2, GapThread
    <3>4. \A i \in at[g]..at[t] : Alike(t, i, n)
      BY <1>3, <2>1, <3>1, <3>3
    <3> QED BY <1>2, <2>1, <3>4
  <2> QED BY <1>3, <2>1, <2>2, <2>3
<1>7. \A g \in H \ stops : g + 1 \in W /\ g < t => g \in V
  BY <1>2, ThreadHits, GapThread
<1>8. b = Backward(now - 1, H) /\ V \in SUBSET Times /\ W \cap V = {}
      /\ \A v \in V : v < t
  BY <1>2, <1>4
<1>9. \A g \in Gaps \ H : g + 1 \in W => g \in W
  BY <1>6
<1>10. b.time = Back(t, MaxOr(V, 1))
  BY <1>1, <1>3, <1>5, <1>7, <1>8, <1>9, LastChange
<1> QED BY <1>1, <1>2, <1>10

LEMMA ThreadStep ==
  ASSUME Inv, [Next]_vars, Ends("nthread") \/ Ends("bthread")
  PROVE  now' = ThreadStop(request)
<1>1. /\ phase = request.op /\ now = request.start /\ phase' = "prompt"
      /\ phase \in {"nthread", "bthread"} /\ now \in Times /\ Recorded
  BY DEF Ends, Inv, CommandInv, Recorded, NoRequest
<1>2. NextThread \/ BackThread
  BY <1>1 DEF Next, Record, StopPoint, Happen, Start, Command, Ask, Work,
              NextStep, NextOver, BackStep, BackOver, Finish, BackFinish,
              vars
<1>3. PICK n : n = Target
  OBVIOUS
<1>4. CASE request.thread = State(now).thread
  <2>1. now' = now
    BY <1>2, <1>4 DEF NextThread, BackThread, To, Current
  <2> QED BY <1>1, <1>4, <2>1 DEF ThreadStop
<1>5. CASE request.thread # State(now).thread
  <2> DEFINE wanted(s) ==
               IF request.thread = NoThread THEN s.thread # State(now).thread
               ELSE s.thread = request.thread
             ran(g) == \E i \in at[g]..at[g + 1] : wanted(trace[i])
  <2>1. \A g : ran(g) <=> Differs(now, g, n)
    <3>1. \A i : wanted(trace[i]) <=> ~Alike(now, i, n)
      BY <1>3, <1>5 DEF Target, Current, Alike
    <3> QED BY <3>1 DEF Differs
  <2>2. ThreadStop(request) =
          IF request.op = "nthread"
            THEN Forth(now, MinOr({g + 1 : g \in {g \in Gaps :
                                     now <= g /\ ran(g)}}, Total))
            ELSE Back(now, MaxOr({g \in Gaps : g < now /\ ran(g)}, 1))
    BY <1>1, <1>5 DEF ThreadStop
  <2> HIDE DEF ran
  <2>a. /\ {g \in Gaps : now <= g /\ ran(g)}
             = {g \in Gaps : now <= g /\ Differs(now, g, n)}
        /\ {g \in Gaps : g < now /\ ran(g)}
             = {g \in Gaps : g < now /\ Differs(now, g, n)}
    BY <2>1
  <2>3. CASE NextThread
    <3>1. PICK b : b = Forward(Total - now, Hits(0, n))
      OBVIOUS
    <3>2. phase = "nthread" /\ now' = b.time
      BY <1>3, <1>5, <2>3, <3>1 DEF NextThread, To, Current
    <3>3. now' =
            Forth(now, MinOr({g + 1 : g \in {g \in Gaps :
                                now <= g /\ Differs(now, g, n)}}, Total))
      BY <1>1, <3>1, <3>2, ThreadForth
    <3> QED BY <1>1, <2>2, <2>a, <3>2, <3>3
  <2>4. CASE BackThread
    <3>1. PICK b : b = Backward(now - 1, Hits(0, n))
      OBVIOUS
    <3>2. phase = "bthread" /\ now' = b.time
      BY <1>3, <1>5, <2>4, <3>1 DEF BackThread, To, Current
    <3>3. now' =
            Back(now, MaxOr({g \in Gaps : g < now /\ Differs(now, g, n)}, 1))
      BY <1>1, <3>1, <3>2, ThreadBack
    <3> QED BY <1>1, <2>2, <2>a, <3>2, <3>3
  <2> QED BY <1>2, <2>3, <2>4
<1> QED BY <1>4, <1>5

(***************************************************************************)
(* nthread and bthread end at the next stop point, or the last one before, *)
(* on the way to which another thread ran, or the given one, or where a    *)
(* breakpoint of the user fires on the way.                                *)
(***************************************************************************)
THEOREM ThreadCorrect == Spec => ThreadLands
<1>1. Inv /\ [Next]_vars
        => [Ends("nthread") \/ Ends("bthread")
              => now' = ThreadStop(request)]_vars
  BY ThreadStep
<1> QED BY <1>1, InvariantHolds, PTL DEF Spec, ThreadLands
=============================================================================
