---------------------------- MODULE Input_proofs ----------------------------
(***************************************************************************)
(* What is proved of the input events, for any keys of the table, buttons  *)
(* and bounds: that the variables keep their types, that no key or button  *)
(* stays down unexplained, and that what is pasted is the text sent last.  *)
(*                                                                         *)
(* All three look at the events on their way as one queue, whose last      *)
(* event about a key (a button, the clipboard) is how things will stand    *)
(* when every event has arrived.                                           *)
(***************************************************************************)
EXTENDS Input, SequenceTheorems, TLAPS

Q == tcp \o kcp

LastIs(q, S, T) ==
    \E i \in DOMAIN q : /\ q[i] \in S \cap T
                        /\ \A j \in DOMAIN q : q[j] \in S => j <= i
NoneOf(q, S) == \A i \in DOMAIN q : q[i] \notin S

\* Which thread may have what: the clipboard is pushed only to a device that
\* runs, and its owner has a text; the client sends nothing over KCP before it
\* has it.
Phases ==
    /\ pushing => mpc = "run"
    /\ mpc \in {"init", "null"} => ~owner
    /\ owner \/ pushing => clip_data # 0
    /\ owner /\ ~pushing => clip_len = clip_data
    /\ text = 0 => text_clip = 0
    /\ ~kcp_enable => kcp = <<>>

\* The key x is, or will be, down when all events have arrived ...
KeyEventsOf(x) == {e \in KeyEvents : get_xkeycode(e.key_code) = x}
KeyDowns == {e \in KeyEvents : e.type = "KEY_DOWN"}
KeyStays(x) ==
    LastIs(Q, KeyEventsOf(x), KeyDowns) \/ (NoneOf(Q, KeyEventsOf(x)) /\ x \in down)

\* ... and so it is held while the widget has the keyboard, or is known to stay.
KeyIn(k, keys) == get_xkeycode(get_key_code(QtKey(k, keys)))
Explained(x) ==
    \/ x \in unsent
    \/ grab /\ \E k \in held : x = KeyIn(k, held) /\ (k = Key_Control => k \in modifiers)

ButtonEventsOf(b) == {e \in ButtonEvents : e.key_code = b}
ButtonDowns == {e \in ButtonEvents : e.type = "MOUSE_DOWN"}
ButtonStays(b) ==
    \/ LastIs(Q, ButtonEventsOf(b), ButtonDowns)
    \/ NoneOf(Q, ButtonEventsOf(b)) /\ b \in buttons

InOrder == ~disordered /\ ~dropped

KeysExplained ==
    InOrder => \A x \in XKeys(Keys) \cup {XK_Control_L} : KeyStays(x) => Explained(x)
ButtonsExplained ==
    InOrder => \A b \in Buttons \cup {1} : ButtonStays(b) => b = mouse_key

\* The text sent last is the last one on its way, or has arrived.
TextIs(t) == {e \in ClipEvents : e.key_code = t}
TextArrives ==
    InOrder /\ text_clip # Long
        => \/ LastIs(Q, ClipEvents, TextIs(text_clip))
           \/ NoneOf(Q, ClipEvents) /\ (owner \/ pushing => clip_data = text_clip)
-----------------------------------------------------------------------------
(* The last event of a kind in a queue.                                     *)

\* What is sent last decides, if it has an event of the kind.
LEMMA AfterSending ==
  ASSUME NEW E, NEW q \in Seq(E), NEW u \in Seq(E), NEW S, NEW T
  PROVE  /\ LastIs(q \o u, S, T) <=> LastIs(u, S, T) \/ (NoneOf(u, S) /\ LastIs(q, S, T))
         /\ NoneOf(q \o u, S) <=> NoneOf(q, S) /\ NoneOf(u, S)
<1> DEFINE m == Len(q)
           n == Len(u)
           r == q \o u
<1>1. /\ m \in Nat /\ n \in Nat
      /\ DOMAIN q = 1..m /\ DOMAIN u = 1..n /\ DOMAIN r = 1..m + n
  BY ConcatProperties, LenProperties
<1>2. \A i \in 1..m : r[i] = q[i]
  BY <1>1, ConcatProperties
<1>3. \A i \in 1..n : i + m \in DOMAIN r /\ r[i + m] = u[i]
  <2> TAKE i \in 1..n
  <2>1. i + m \in 1..m + n /\ ~(i + m <= m) /\ (i + m) - m = i
    BY <1>1
  <2>2. QED
    BY <1>1, <2>1, ConcatProperties
<1>4. \A i \in DOMAIN r : i \in 1..m \/ (i - m \in 1..n /\ i = (i - m) + m)
  BY <1>1
<1> HIDE DEF m, n, r
<1>5. NoneOf(r, S) <=> NoneOf(q, S) /\ NoneOf(u, S)
  <2>1. ASSUME NoneOf(r, S) PROVE NoneOf(q, S) /\ NoneOf(u, S)
    <3>1. \A i \in 1..m : i \in DOMAIN r
      BY <1>1
    <3>2. QED
      BY <1>1, <1>2, <1>3, <2>1, <3>1 DEF NoneOf
  <2>2. ASSUME NoneOf(q, S), NoneOf(u, S) PROVE NoneOf(r, S)
    <3> SUFFICES ASSUME NEW i \in DOMAIN r PROVE r[i] \notin S
      BY DEF NoneOf
    <3>1. CASE i \in 1..m
      BY <1>1, <1>2, <2>2, <3>1 DEF NoneOf
    <3>2. CASE i - m \in 1..n /\ i = (i - m) + m
      <4>1. r[i] = u[i - m]
        BY <1>3, <3>2
      <4>2. QED
        BY <1>1, <2>2, <3>2, <4>1 DEF NoneOf
    <3>3. QED
      BY <1>4, <3>1, <3>2
  <2>3. QED
    BY <2>1, <2>2
<1>6. ASSUME LastIs(r, S, T)
      PROVE  LastIs(u, S, T) \/ (NoneOf(u, S) /\ LastIs(q, S, T))
  <2>1. PICK i \in DOMAIN r : r[i] \in S \cap T /\ \A j \in DOMAIN r : r[j] \in S => j <= i
    BY <1>6 DEF LastIs
  <2>2. CASE i \in 1..m
    <3>1. NoneOf(u, S)
      <4> SUFFICES ASSUME NEW j \in 1..n, u[j] \in S PROVE FALSE
        BY <1>1 DEF NoneOf
      <4>1. j + m \in DOMAIN r /\ r[j + m] \in S
        BY <1>3
      <4>2. j + m <= i
        BY <2>1, <4>1
      <4>3. QED
        BY <1>1, <2>2, <4>2
    <3>2. \A j \in 1..m : j \in DOMAIN r
      BY <1>1
    <3>3. q[i] \in S \cap T /\ \A j \in DOMAIN q : q[j] \in S => j <= i
      BY <1>1, <1>2, <2>1, <2>2, <3>2
    <3>4. LastIs(q, S, T)
      BY <1>1, <2>2, <3>3 DEF LastIs
    <3>5. QED
      BY <3>1, <3>4
  <2>3. CASE i - m \in 1..n /\ i = (i - m) + m
    <3>1. u[i - m] = r[i]
      BY <1>3, <2>3
    <3>2. \A j \in DOMAIN u : u[j] \in S => j <= i - m
      <4> SUFFICES ASSUME NEW j \in 1..n, u[j] \in S PROVE j <= i - m
        BY <1>1
      <4>1. j + m \in DOMAIN r /\ r[j + m] \in S
        BY <1>3
      <4>2. j + m <= i
        BY <2>1, <4>1
      <4>3. QED
        BY <1>1, <2>3, <4>2
    <3>3. LastIs(u, S, T)
      BY <1>1, <2>1, <2>3, <3>1, <3>2 DEF LastIs
    <3>4. QED
      BY <3>3
  <2>4. QED
    BY <1>4, <2>2, <2>3
<1>7. ASSUME LastIs(u, S, T) PROVE LastIs(r, S, T)
  <2>1. PICK i \in 1..n : u[i] \in S \cap T /\ \A j \in 1..n : u[j] \in S => j <= i
    BY <1>1, <1>7 DEF LastIs
  <2>2. i + m \in DOMAIN r /\ r[i + m] \in S \cap T
    BY <1>3, <2>1
  <2>3. \A j \in DOMAIN r : r[j] \in S => j <= i + m
    <3> SUFFICES ASSUME NEW j \in DOMAIN r, r[j] \in S PROVE j <= i + m
      OBVIOUS
    <3>1. CASE j \in 1..m
      BY <1>1, <3>1
    <3>2. CASE j - m \in 1..n /\ j = (j - m) + m
      <4>1. u[j - m] \in S
        BY <1>3, <3>2
      <4>2. j - m <= i
        BY <2>1, <3>2, <4>1
      <4>3. QED
        BY <1>1, <3>2, <4>2
    <3>3. QED
      BY <1>4, <3>1, <3>2
  <2>4. QED
    BY <2>2, <2>3 DEF LastIs
<1>8. ASSUME NoneOf(u, S), LastIs(q, S, T) PROVE LastIs(r, S, T)
  <2>1. PICK i \in 1..m : q[i] \in S \cap T /\ \A j \in 1..m : q[j] \in S => j <= i
    BY <1>1, <1>8 DEF LastIs
  <2>2. i \in DOMAIN r /\ r[i] \in S \cap T
    BY <1>1, <1>2, <2>1
  <2>3. \A j \in DOMAIN r : r[j] \in S => j <= i
    <3> SUFFICES ASSUME NEW j \in DOMAIN r, r[j] \in S PROVE j <= i
      OBVIOUS
    <3>1. CASE j \in 1..m
      BY <1>2, <2>1, <3>1
    <3>2. CASE j - m \in 1..n /\ j = (j - m) + m
      <4>1. u[j - m] \in S
        BY <1>3, <3>2
      <4>2. QED
        BY <1>1, <1>8, <3>2, <4>1 DEF NoneOf
    <3>3. QED
      BY <1>4, <3>1, <3>2
  <2>4. QED
    BY <2>2, <2>3 DEF LastIs
<1>9. QED
  BY <1>5, <1>6, <1>7, <1>8 DEF r

\* The event at the head decides only if it is the only one of its kind.
LEMMA AfterDelivery ==
  ASSUME NEW E, NEW q \in Seq(E), q # <<>>, NEW S, NEW T
  PROVE  /\ LastIs(Tail(q), S, T) => LastIs(q, S, T)
         /\ LastIs(q, S, T)
                => LastIs(Tail(q), S, T) \/ (Head(q) \in S \cap T /\ NoneOf(Tail(q), S))
         /\ NoneOf(Tail(q), S) /\ Head(q) \in S \cap T => LastIs(q, S, T)
         /\ NoneOf(Tail(q), S) /\ Head(q) \notin S => NoneOf(q, S)
         /\ NoneOf(q, S) => NoneOf(Tail(q), S) /\ Head(q) \notin S
<1> DEFINE h == <<Head(q)>>
           r == Tail(q)
<1>1. h \in Seq(E) /\ r \in Seq(E) /\ q = h \o r
  BY HeadTailProperties
<1>2. LastIs(h, S, T) <=> Head(q) \in S \cap T
  BY DEF LastIs
<1>3. NoneOf(h, S) <=> Head(q) \notin S
  BY DEF NoneOf
<1> HIDE DEF h, r
<1>4. /\ LastIs(q, S, T) <=> LastIs(r, S, T) \/ (NoneOf(r, S) /\ LastIs(h, S, T))
      /\ NoneOf(q, S) <=> NoneOf(h, S) /\ NoneOf(r, S)
  BY <1>1, AfterSending
<1>5. QED
  BY <1>2, <1>3, <1>4 DEF r

\* A queue of one event, or of none.
LEMMA ShortQueues ==
  ASSUME NEW e, NEW S, NEW T
  PROVE  /\ LastIs(<<e>>, S, T) <=> e \in S \cap T
         /\ NoneOf(<<e>>, S) <=> e \notin S
         /\ ~LastIs(<<>>, S, T) /\ NoneOf(<<>>, S)
BY DEF LastIs, NoneOf
-----------------------------------------------------------------------------
(* Codes and events.                                                        *)

USE BoundsAssumption

\* Every key of the keyboard has a code, and every code is a key of the server's.
LEMMA CodesTyped ==
  /\ \A k \in Keys : \A h : QtKey(k, h) \in Names(Keys)
  /\ \A c \in Names(Keys) : get_key_code(c) \in KeyCodes
  /\ Keys \subseteq KeyCodes
  /\ \A c \in KeyCodes : c # 0 /\ get_xkeycode(c) \in XKeys(Keys) \cup {XK_Control_L}
<1> DEFINE Table == Modifiers \cup {Key_G, Key_1, Key_Exclam}
<1>1. \A k \in Keys : \A h : QtKey(k, h) \in Names(Keys)
  BY DEF QtKey, Names
<1>2. \A c \in Names(Keys) : get_key_code(c) \in KeyCodes
  BY DEF KeyCodes
<1>3. Keys \subseteq KeyCodes
  BY DEF KeyCodes
<1>4. Names(Keys) \subseteq Table
  BY DEF Names
<1>5. /\ get_key_code(Key_Shift) = 16 /\ get_key_code(Key_Control) = 17
      /\ get_key_code(Key_Alt) = 18 /\ get_key_code(Key_G) = 71
      /\ get_key_code(Key_1) = 49 /\ get_key_code(Key_Exclam) = 33
  BY DEF get_key_code, Key_Shift, Key_Control, Key_Alt, Key_G, Key_1, Key_Exclam
<1>6. /\ get_xkeycode(Key_Shift) = XK_Control_L /\ get_xkeycode(Key_Control) = XK_Control_L
      /\ get_xkeycode(Key_Alt) = XK_Control_L /\ get_xkeycode(71) = 71
      /\ get_xkeycode(49) = 49
  BY DEF get_xkeycode, Key_Shift, Key_Control, Key_Alt
<1>7. \A c \in Names(Keys) :
          get_key_code(c) # 0 /\ get_xkeycode(get_key_code(c)) \in XKeys(Keys)
  BY <1>4, <1>5 DEF XKeys, Modifiers
<1>8. \A k \in Keys : k # 0 /\ get_xkeycode(k) \in XKeys(Keys) \cup {XK_Control_L}
  <2> TAKE k \in Keys
  <2>1. k \in Names(Keys) /\ k \in Table
    BY <1>4 DEF Names
  <2>2. CASE k \in Modifiers
    BY <1>6, <2>2 DEF Modifiers, Key_Shift, Key_Control, Key_Alt
  <2>3. CASE k \in {Key_G, Key_1}
    <3>1. get_key_code(k) = k /\ k # 0
      BY <1>5, <2>3 DEF Key_G, Key_1
    <3>2. QED
      BY <1>7, <2>1, <3>1
  <2>4. QED
    BY <2>2, <2>3
<1>9. QED
  BY <1>1, <1>2, <1>3, <1>7, <1>8 DEF KeyCodes

\* A modifier's raw code is none of its own: the server takes it for Control.
LEMMA RawIsControl == \A k \in Modifiers : get_xkeycode(k) = XK_Control_L
  BY DEF get_xkeycode, Modifiers, Key_Shift, Key_Control, Key_Alt

\* The events the widget sends are events.
LEMMA EventsTyped ==
  /\ \A type \in {"KEY_UP", "KEY_DOWN"}, c \in KeyCodes : Event(type, c) \in Seq(KeyEvents)
  /\ \A type \in {"MOUSE_UP", "MOUSE_DOWN"}, b \in Buttons \cup {0, 1} :
         Event(type, b) \in Seq(ButtonEvents)
  /\ \A t \in Texts : Event("CLIP", t) \in Seq(ClipEvents)
  /\ Seq(KeyEvents) \subseteq Seq(Events) /\ Seq(ButtonEvents) \subseteq Seq(Events)
  /\ Seq(ClipEvents) \subseteq Seq(Events)
<1>1. \A type \in {"KEY_UP", "KEY_DOWN"}, c \in KeyCodes : Event(type, c) \in Seq(KeyEvents)
  BY DEF Event, KeyEvents
<1>2. \A type \in {"MOUSE_UP", "MOUSE_DOWN"}, b \in Buttons \cup {0, 1} :
          Event(type, b) \in Seq(ButtonEvents)
  BY DEF Event, ButtonEvents
<1>3. \A t \in Texts : Event("CLIP", t) \in Seq(ClipEvents)
  BY DEF Event, ClipEvents
<1>4. KeyEvents \subseteq Events /\ ButtonEvents \subseteq Events /\ ClipEvents \subseteq Events
  BY DEF Events
<1> HIDE DEF KeyEvents
<1>5. QED
  BY <1>1, <1>2, <1>3, <1>4, SeqMonotonic

\* The modifiers are let go by raw codes.
LEMMA RawTyped ==
  ASSUME UserTyped
  PROVE  /\ RawModifiers \in Seq(KeyEvents)
         /\ \A i \in DOMAIN RawModifiers : RawModifiers[i].type = "KEY_UP"
         /\ Key_Control \in modifiers
                => \E i \in DOMAIN RawModifiers : RawModifiers[i].key_code = Key_Control
<1> DEFINE Ups == {e \in KeyEvents : e.type = "KEY_UP"}
           Up(k) == IF k \in modifiers THEN Event("KEY_UP", k) ELSE <<>>
<1>1. modifiers \subseteq KeyCodes
  BY CodesTyped DEF UserTyped
<1>2. \A k \in Modifiers : Up(k) \in Seq(Ups)
  <2> TAKE k \in Modifiers
  <2>1. k \in modifiers => [type |-> "KEY_UP", key_code |-> k] \in Ups
    BY <1>1 DEF KeyEvents
  <2> HIDE DEF Ups
  <2>2. QED
    BY <2>1 DEF Event
<1> DEFINE a == Up(Key_Shift)
           b == Up(Key_Control)
           c == Up(Key_Alt)
<1>3. a \in Seq(Ups) /\ b \in Seq(Ups) /\ c \in Seq(Ups)
  BY <1>2 DEF Modifiers
<1>4. RawModifiers = (a \o b) \o c
  BY DEF RawModifiers
<1>5. Key_Control \in modifiers
          => b = <<[type |-> "KEY_UP", key_code |-> Key_Control]>>
  BY DEF Event
<1> HIDE DEF a, b, c, Ups
<1>6. a \o b \in Seq(Ups) /\ RawModifiers \in Seq(Ups)
  BY <1>3, <1>4, ConcatProperties
<1>7. /\ RawModifiers \in Seq(KeyEvents)
      /\ \A i \in DOMAIN RawModifiers : RawModifiers[i].type = "KEY_UP"
  <2>1. Ups \subseteq KeyEvents /\ \A e \in Ups : e.type = "KEY_UP"
    BY DEF Ups
  <2>2. \A i \in DOMAIN RawModifiers : RawModifiers[i] \in Ups
    BY <1>6, ElementOfSeq, LenProperties
  <2>3. QED
    BY <1>6, <2>1, <2>2, SeqMonotonic
<1>8. ASSUME Key_Control \in modifiers
      PROVE  \E i \in DOMAIN RawModifiers : RawModifiers[i].key_code = Key_Control
  <2> DEFINE i == Len(a) + 1
             e == [type |-> "KEY_UP", key_code |-> Key_Control]
  <2>1. Len(b) = 1 /\ b[1] = e
    BY <1>5, <1>8
  <2>2. Len(a) \in Nat /\ Len(c) \in Nat
    BY <1>3, LenProperties
  <2>3. Len(a \o b) = Len(a) + 1 /\ (a \o b)[i] = e
    <3>1. i \in 1..Len(a) + Len(b) /\ ~(i <= Len(a)) /\ i - Len(a) = 1
      BY <2>1, <2>2
    <3> HIDE DEF i, e
    <3>2. Len(a \o b) = Len(a) + Len(b)
      BY <1>3, ConcatProperties
    <3>3. (a \o b)[i] = b[i - Len(a)]
      BY <1>3, <3>1, ConcatProperties
    <3>4. QED
      BY <2>1, <3>1, <3>2, <3>3
  <2>4. i \in 1..Len(a \o b) + Len(c) /\ i <= Len(a \o b)
    BY <2>2, <2>3
  <2>5. RawModifiers[i] = e /\ i \in DOMAIN RawModifiers
    BY <1>3, <1>4, <1>6, <2>3, <2>4, ConcatProperties, LenProperties
  <2>6. QED
    BY <2>5
<1>9. QED
  BY <1>7, <1>8
-----------------------------------------------------------------------------
(* Types.                                                                   *)

InputInv == TypeOK /\ Phases

\* The client adds events u to what is on its way.
Adds(u) ==
    /\ u \in Seq(Events) /\ tcp' \in Seq(Events) /\ kcp' \in Seq(Events)
    /\ kcp_enable' \in BOOLEAN /\ (~kcp_enable' => kcp' = <<>>)
    /\ Q' = Q \o u

\* Sending adds the events at the end of the one queue, because nothing is sent
\* over TCP any more when something is sent over KCP.
LEMMA SendAdds ==
  ASSUME InputInv, NEW u \in Seq(Events), Send(u)
  PROVE  Adds(u)
<1>1. tcp \in Seq(Events) /\ kcp \in Seq(Events) /\ kcp_enable \in BOOLEAN
  BY DEF InputInv, TypeOK, NetTyped
<1>2. CASE kcp_enable
  <2>1. kcp' = kcp \o u /\ tcp' = tcp /\ kcp_enable' = kcp_enable
    BY <1>2 DEF Send
  <2>2. kcp' \in Seq(Events)
    BY <1>1, <2>1, ConcatProperties
  <2>3. Q' = Q \o u
    BY <1>1, <2>1, ConcatAssociative DEF Q
  <2>4. QED
    BY <1>1, <1>2, <2>1, <2>2, <2>3 DEF Adds
<1>3. CASE ~kcp_enable
  <2>1. tcp' = tcp \o u /\ kcp' = kcp /\ kcp_enable' = kcp_enable /\ kcp = <<>>
    BY <1>3 DEF Send, InputInv, Phases
  <2>2. tcp' \in Seq(Events)
    BY <1>1, <2>1, ConcatProperties
  <2>3. Q = tcp /\ Q' = tcp'
    BY <1>1, <2>1, <2>2, ConcatEmptySeq DEF Q
  <2>4. QED
    BY <1>1, <1>3, <2>1, <2>2, <2>3 DEF Adds
<1>4. QED
  BY <1>2, <1>3

\* A step that leaves the queues alone adds nothing.
LEMMA NothingAdded ==
  ASSUME InputInv, UNCHANGED <<tcp, kcp>>, kcp_enable' \in BOOLEAN, kcp_enable => kcp_enable'
  PROVE  Adds(<<>>)
<1>1. tcp \in Seq(Events) /\ kcp \in Seq(Events) /\ (~kcp_enable => kcp = <<>>)
  BY DEF InputInv, TypeOK, NetTyped, Phases
<1>2. Q \in Seq(Events) /\ Q' = Q
  BY <1>1, ConcatProperties DEF Q
<1>3. Q \o <<>> = Q /\ <<>> \in Seq(Events)
  BY <1>2, ConcatEmptySeq, EmptySeq
<1>4. QED
  BY <1>1, <1>2, <1>3 DEF Adds

\* The steps of the user: what they send, and what they leave as it is.
OnlyKeys(u) == Adds(u) /\ NoneOf(u, ButtonEvents) /\ NoneOf(u, ClipEvents)
OnlyButtons(u) == Adds(u) /\ NoneOf(u, KeyEvents) /\ NoneOf(u, ClipEvents)
OnlyTexts(u) == Adds(u) /\ NoneOf(u, KeyEvents) /\ NoneOf(u, ButtonEvents)

\* Events of one kind are not of another.
LEMMA KindsDiffer ==
  /\ \A u \in Seq(KeyEvents) : NoneOf(u, ButtonEvents) /\ NoneOf(u, ClipEvents)
  /\ \A u \in Seq(ButtonEvents) : NoneOf(u, KeyEvents) /\ NoneOf(u, ClipEvents)
  /\ \A u \in Seq(ClipEvents) : NoneOf(u, KeyEvents) /\ NoneOf(u, ButtonEvents)
<1>1. /\ KeyEvents \cap ButtonEvents = {} /\ KeyEvents \cap ClipEvents = {}
      /\ ButtonEvents \cap ClipEvents = {}
  BY DEF KeyEvents, ButtonEvents, ClipEvents
<1>2. ASSUME NEW S, NEW T, S \cap T = {}, NEW u \in Seq(S) PROVE NoneOf(u, T)
  <2>1. \A i \in DOMAIN u : u[i] \in S
    BY ElementOfSeq, LenProperties
  <2>2. QED
    BY <1>2, <2>1 DEF NoneOf
<1>3. QED
  BY <1>1, <1>2

\* What the steps of the keyboard send.
LEMMA KeysSent ==
  ASSUME InputInv
  PROVE  /\ \A u \in Seq(KeyEvents) : Send(u) => OnlyKeys(u)
         /\ \A u \in Seq(ButtonEvents) : Send(u) => OnlyButtons(u)
         /\ \A u \in Seq(ClipEvents) : Send(u) => OnlyTexts(u)
         /\ UNCHANGED <<tcp, kcp, kcp_enable>>
                => OnlyKeys(<<>>) /\ OnlyButtons(<<>>) /\ OnlyTexts(<<>>)
<1>1. \A u \in Seq(KeyEvents) : Send(u) => OnlyKeys(u)
  BY SendAdds, EventsTyped, KindsDiffer DEF OnlyKeys
<1>2. \A u \in Seq(ButtonEvents) : Send(u) => OnlyButtons(u)
  BY SendAdds, EventsTyped, KindsDiffer DEF OnlyButtons
<1>3. \A u \in Seq(ClipEvents) : Send(u) => OnlyTexts(u)
  BY SendAdds, EventsTyped, KindsDiffer DEF OnlyTexts
<1>4. ASSUME UNCHANGED <<tcp, kcp, kcp_enable>>
      PROVE  OnlyKeys(<<>>) /\ OnlyButtons(<<>>) /\ OnlyTexts(<<>>)
  <2>1. Adds(<<>>)
    BY <1>4, NothingAdded DEF InputInv, TypeOK, NetTyped
  <2>2. \A S : NoneOf(<<>>, S)
    BY ShortQueues
  <2>3. QED
    BY <2>1, <2>2 DEF OnlyKeys, OnlyButtons, OnlyTexts
<1>5. QED
  BY <1>1, <1>2, <1>3, <1>4

\* More keys have more names.
LEMMA XKeysMonotonic ==
  /\ \A A, B : A \subseteq B => XKeys(A) \subseteq XKeys(B)
  /\ UserTyped => \A k : Renamed(k) \subseteq XKeys(Keys)
<1>1. \A A, B : A \subseteq B => XKeys(A) \subseteq XKeys(B)
  BY DEF XKeys, Names
<1>2. ASSUME UserTyped, NEW k PROVE Renamed(k) \subseteq XKeys(Keys)
  <2>1. held \cap {Key_1} \subseteq Keys
    BY <1>2 DEF UserTyped
  <2>2. XKeys(held \cap {Key_1}) \subseteq XKeys(Keys)
    BY <1>1, <2>1
  <2>3. QED
    BY <2>2 DEF Renamed
<1>3. QED
  BY <1>1, <1>2

\* A key pressed or released, and the keyboard gained or given away.
LEMMA PressKeySends ==
  ASSUME InputInv, NEW k \in Keys, PressKey(k)
  PROVE  /\ \E u : OnlyKeys(u)
         /\ UserTyped'
         /\ UNCHANGED <<mouse_key, devVars, xVars, clipVars, disordered, dropped>>
<1>1. /\ held' = held \cup {k} /\ UNCHANGED <<pressed, inside, active, mouse_key>>
      /\ UNCHANGED <<mouse_key, devVars, xVars, clipVars, disordered, dropped>>
  BY DEF PressKey
<1>2. UserTyped
  BY DEF InputInv, TypeOK
<1>3. held' \subseteq Keys /\ Renamed(k) \subseteq XKeys(Keys) /\ XKeys(held \ {Key_Control}) \subseteq XKeys(Keys)
  <2>1. held' \subseteq Keys /\ held \ {Key_Control} \subseteq Keys
    BY <1>1, <1>2 DEF UserTyped
  <2>2. QED
    BY <1>2, <2>1, XKeysMonotonic
<1>4. CASE ~grab
  <2>1. UNCHANGED <<modifiers, grab, tcp, kcp, kcp_enable>> /\ unsent' = unsent \cup Renamed(k)
    BY <1>4 DEF PressKey, netVars
  <2>2. UserTyped'
    BY <1>1, <1>2, <1>3, <2>1 DEF UserTyped
  <2>3. OnlyKeys(<<>>)
    BY <2>1, KeysSent
  <2>4. QED
    BY <1>1, <2>2, <2>3
<1>5. CASE grab /\ k = Key_G /\ {Key_Control, Key_Alt} \subseteq modifiers'
  <2> DEFINE u == Event("KEY_UP", Key_Control) \o Event("KEY_UP", Key_Alt)
  <2>1. /\ modifiers' = held' \cap Modifiers /\ Send(u) /\ grab' = FALSE
        /\ unsent' = unsent \cup XKeys(held \ {Key_Control})
    BY <1>5 DEF PressKey
  <2>2. UserTyped'
    BY <1>1, <1>2, <1>3, <2>1 DEF UserTyped
  <2>3. Key_Control \in KeyCodes /\ Key_Alt \in KeyCodes
    BY <1>3, <1>5, <2>1, CodesTyped
  <2>4. u \in Seq(KeyEvents)
    BY <2>3, EventsTyped, ConcatProperties
  <2>5. OnlyKeys(u)
    BY <2>1, <2>4, KeysSent
  <2>6. QED
    BY <1>1, <2>2, <2>5
<1>6. CASE grab /\ ~(k = Key_G /\ {Key_Control, Key_Alt} \subseteq modifiers')
  <2> DEFINE u == Event("KEY_DOWN", get_key_code(QtKey(k, held)))
  <2>1. /\ modifiers' = held' \cap Modifiers /\ Send(u) /\ grab' = grab
        /\ unsent' = unsent \cup Renamed(k)
    BY <1>6 DEF PressKey
  <2>2. UserTyped'
    BY <1>1, <1>2, <1>3, <2>1 DEF UserTyped
  <2>3. u \in Seq(KeyEvents)
    BY CodesTyped, EventsTyped
  <2>4. OnlyKeys(u)
    BY <2>1, <2>3, KeysSent
  <2>5. QED
    BY <1>1, <2>2, <2>4
<1>7. QED
  BY <1>4, <1>5, <1>6

\* A key that is released.
LEMMA ReleaseKeySends ==
  ASSUME InputInv, NEW k \in Keys, ReleaseKey(k)
  PROVE  /\ \E u : OnlyKeys(u)
         /\ UserTyped'
         /\ UNCHANGED <<mouse_key, devVars, xVars, clipVars, disordered, dropped>>
<1>1. /\ held' = held \ {k} /\ UNCHANGED <<pressed, inside, active, grab, mouse_key>>
      /\ unsent' = unsent \cup Renamed(k)
      /\ UNCHANGED <<mouse_key, devVars, xVars, clipVars, disordered, dropped>>
  BY DEF ReleaseKey
<1>2. UserTyped
  BY DEF InputInv, TypeOK
<1>3. Renamed(k) \subseteq XKeys(Keys)
  BY <1>2, XKeysMonotonic
<1>4. modifiers' \subseteq Keys \cap Modifiers
  BY <1>2 DEF ReleaseKey, UserTyped
<1>5. UserTyped'
  BY <1>1, <1>2, <1>3, <1>4 DEF UserTyped
<1>6. CASE ~grab
  <2>1. UNCHANGED <<tcp, kcp, kcp_enable>>
    BY <1>6 DEF ReleaseKey, netVars
  <2>2. QED
    BY <1>1, <1>5, <2>1, KeysSent
<1>7. CASE grab
  <2> DEFINE u == Event("KEY_UP", get_key_code(QtKey(k, held)))
  <2>1. Send(u)
    BY <1>7 DEF ReleaseKey
  <2>2. u \in Seq(KeyEvents)
    BY CodesTyped, EventsTyped
  <2>3. OnlyKeys(u)
    BY <2>1, <2>2, KeysSent
  <2>4. QED
    BY <1>1, <1>5, <2>3
<1>8. QED
  BY <1>6, <1>7

\* The keyboard gained or given away.
LEMMA FocusSends ==
  ASSUME InputInv, Enter \/ Leave \/ FocusOut
  PROVE  /\ \E u : OnlyKeys(u)
         /\ UserTyped'
         /\ UNCHANGED <<mouse_key, devVars, xVars, clipVars, disordered, dropped>>
<1>1. UNCHANGED <<held, pressed, modifiers, mouse_key, devVars, xVars, clipVars, disordered, dropped>>
  BY DEF Enter, Leave, FocusOut, histVars
<1>2. UserTyped
  BY DEF InputInv, TypeOK
<1>3. XKeys(held) \subseteq XKeys(Keys) /\ XKeys(held \ {Key_Control}) \subseteq XKeys(Keys)
  <2>1. held \subseteq Keys /\ held \ {Key_Control} \subseteq Keys
    BY <1>2 DEF UserTyped
  <2>2. QED
    BY <2>1, XKeysMonotonic
<1>4. /\ inside' \in BOOLEAN /\ active' \in BOOLEAN /\ grab' \in BOOLEAN
  BY <1>2 DEF Enter, Leave, FocusOut, UserTyped
<1>5. unsent' \subseteq XKeys(Keys)
  <2>1. unsent' = unsent \/ unsent' = unsent \cup XKeys(held) \/ unsent' = unsent \cup {}
            \/ unsent' = unsent \cup XKeys(held \ {Key_Control})
    BY DEF Enter, Leave, FocusOut, histVars
  <2>2. QED
    BY <1>2, <1>3, <2>1 DEF UserTyped
<1>6. UserTyped'
  BY <1>1, <1>2, <1>4, <1>5 DEF UserTyped
<1>7. UNCHANGED <<tcp, kcp, kcp_enable>> \/ Send(RawModifiers)
  BY DEF Enter, Leave, FocusOut, netVars
<1>8. \E u : OnlyKeys(u)
  BY <1>2, <1>7, RawTyped, KeysSent
<1>9. QED
  BY <1>1, <1>6, <1>8

\* A button pressed or released.
LEMMA ButtonSends ==
  ASSUME InputInv, NEW b \in Buttons, ReleaseButton(b) \/ \E p \in BOOLEAN : PressButton(b, p)
  PROVE  /\ \E u : OnlyButtons(u)
         /\ UserTyped'
         /\ UNCHANGED <<held, modifiers, grab, devVars, xVars, clipVars, histVars>>
<1>1. UNCHANGED <<held, inside, active, grab, modifiers, devVars, xVars, clipVars, histVars>>
  BY DEF ReleaseButton, PressButton
<1>2. UserTyped
  BY DEF InputInv, TypeOK
<1>3. pressed' \subseteq Buttons
  BY <1>2 DEF ReleaseButton, PressButton, UserTyped
<1>4. mouse_key' \in Buttons \cup {0, 1}
  BY <1>2 DEF ReleaseButton, PressButton, UserTyped
<1>5. UserTyped'
  BY <1>1, <1>2, <1>3, <1>4 DEF UserTyped, histVars
<1>6. \/ UNCHANGED <<tcp, kcp, kcp_enable>>
      \/ Send(Event("MOUSE_UP", mouse_key)) \/ Send(Event("MOUSE_DOWN", mouse_key'))
  BY DEF ReleaseButton, PressButton, netVars
<1>7. mouse_key \in Buttons \cup {0, 1}
  BY <1>2 DEF UserTyped
<1>8. \E u : OnlyButtons(u)
  BY <1>4, <1>6, <1>7, EventsTyped, KeysSent
<1>9. QED
  BY <1>1, <1>5, <1>8

\* The window gets the focus: a text that is not the last one is sent, unless
\* it is too long.
LEMMA FocusInSends ==
  ASSUME InputInv, FocusIn
  PROVE  /\ \E u : /\ OnlyTexts(u)
                   /\ text = text_clip => u = <<>>
                   /\ text # text_clip /\ text # Long => LastIs(u, ClipEvents, TextIs(text))
         /\ UserTyped' /\ text_clip' = text /\ (grab => grab')
         /\ UNCHANGED <<held, modifiers, mouse_key, devVars, xVars, text, clip_data, clip_len, owner,
                        pushing, histVars>>
<1>1. /\ text_clip' = text /\ grab' = (grab \/ inside) /\ active' = TRUE
      /\ UNCHANGED <<held, pressed, inside, modifiers, mouse_key, devVars, xVars, text, clip_data,
                     clip_len, owner, pushing, histVars>>
  BY DEF FocusIn
<1>2. UserTyped
  BY DEF InputInv, TypeOK
<1>3. UserTyped'
  BY <1>1, <1>2 DEF UserTyped, histVars
<1>4. text \in Texts \cup {0} /\ (text = 0 => text_clip = 0)
  BY DEF InputInv, TypeOK, ClipTyped, Phases
<1>5. CASE text = text_clip \/ text = Long
  <2>1. UNCHANGED <<tcp, kcp, kcp_enable>>
    BY <1>5 DEF FocusIn, SendClip, netVars
  <2>2. OnlyTexts(<<>>)
    BY <2>1, KeysSent
  <2>3. QED
    BY <1>1, <1>3, <1>5, <2>2
<1>6. CASE text # text_clip /\ text # Long
  <2> DEFINE u == Event("CLIP", text)
  <2>1. Send(u) /\ text \in Texts
    BY <1>4, <1>6 DEF FocusIn, SendClip
  <2>2. u \in Seq(ClipEvents)
    BY <2>1, EventsTyped
  <2>3. OnlyTexts(u)
    BY <2>1, <2>2, KeysSent
  <2>4. LastIs(u, ClipEvents, TextIs(text))
    <3>1. [type |-> "CLIP", key_code |-> text] \in ClipEvents \cap TextIs(text)
      BY <2>1 DEF ClipEvents, TextIs
    <3> HIDE DEF TextIs
    <3>2. QED
      BY <3>1, ShortQueues DEF Event
  <2>5. QED
    BY <1>1, <1>3, <1>6, <2>3, <2>4
<1>7. QED
  BY <1>5, <1>6

\* The first event of TCP is that of the one queue.
LEMMA HeadOfTwo ==
  ASSUME NEW E, NEW q \in Seq(E), NEW r \in Seq(E), q # <<>>
  PROVE  q \o r # <<>> /\ Head(q \o r) = Head(q) /\ Tail(q \o r) = Tail(q) \o r
<1> DEFINE a == Tail(q \o r)
           b == Tail(q) \o r
<1>1. /\ q \o r \in Seq(E) /\ Tail(q) \in Seq(E)
      /\ Len(q) \in Nat \ {0} /\ Len(r) \in Nat
      /\ Len(Tail(q)) = Len(q) - 1 /\ Len(q \o r) = Len(q) + Len(r)
  BY HeadTailProperties, ConcatProperties, EmptySeq, LenProperties
<1>2. q \o r # <<>>
  BY <1>1
<1>3. Head(q \o r) = Head(q)
  <2>1. (q \o r)[1] = q[1]
    BY <1>1, ConcatProperties
  <2>2. QED
    BY <1>1, <1>2, <2>1
<1>4. /\ a \in Seq(E) /\ b \in Seq(E)
      /\ Len(a) = Len(q) + Len(r) - 1 /\ Len(b) = Len(q) + Len(r) - 1
  BY <1>1, <1>2, HeadTailProperties, ConcatProperties
<1>5. ASSUME NEW i \in 1..Len(a) PROVE a[i] = b[i]
  <2>1. a[i] = (q \o r)[i + 1]
    BY <1>1, <1>2, HeadTailProperties
  <2>2. i + 1 \in 1..Len(q) + Len(r) /\ i \in 1..Len(Tail(q)) + Len(r)
    BY <1>1, <1>4
  <2>3. a[i] = IF i + 1 <= Len(q) THEN q[i + 1] ELSE r[i + 1 - Len(q)]
    BY <2>1, <2>2, ConcatProperties
  <2>4. b[i] = IF i <= Len(Tail(q)) THEN Tail(q)[i] ELSE r[i - Len(Tail(q))]
    BY <1>1, <2>2, ConcatProperties
  <2>5. CASE i + 1 <= Len(q)
    <3>1. i \in 1..Len(Tail(q))
      BY <1>1, <2>5
    <3>2. Tail(q)[i] = q[i + 1]
      BY <3>1, HeadTailProperties
    <3>3. QED
      BY <2>3, <2>4, <2>5, <3>1, <3>2
  <2>6. CASE ~(i + 1 <= Len(q))
    BY <1>1, <2>3, <2>4, <2>6
  <2>7. QED
    BY <2>5, <2>6
<1> HIDE DEF a, b
<1>6. a = b
  BY <1>4, <1>5, SeqEqual
<1>7. QED
  BY <1>2, <1>3, <1>6 DEF a, b

\* An event arrives, the oldest unless KCP has overtaken TCP.
LEMMA Delivery ==
  ASSUME InputInv, TcpDeliver \/ KcpDeliver
  PROVE  \E e \in Events :
            /\ Handle(e)
            /\ tcp' \in Seq(Events) /\ kcp' \in Seq(Events) /\ kcp_enable' = kcp_enable
            /\ (kcp = <<>> => kcp' = <<>>) /\ disordered' \in BOOLEAN
            /\ ~disordered' => /\ ~disordered /\ Q \in Seq(Events) /\ Q # <<>>
                               /\ e = Head(Q) /\ Q' = Tail(Q)
<1>1. tcp \in Seq(Events) /\ kcp \in Seq(Events) /\ disordered \in BOOLEAN
  BY DEF InputInv, TypeOK, NetTyped
<1>2. Q \in Seq(Events)
  BY <1>1, ConcatProperties DEF Q
<1>3. CASE TcpDeliver
  <2>1. /\ tcp # <<>> /\ Handle(Head(tcp)) /\ tcp' = Tail(tcp) /\ kcp' = kcp
        /\ disordered' = disordered
    BY <1>3 DEF TcpDeliver
  <2>2. Head(tcp) \in Events /\ tcp' \in Seq(Events)
    BY <1>1, <2>1, HeadTailProperties
  <2>3. Q # <<>> /\ Head(Q) = Head(tcp) /\ Q' = Tail(Q)
    BY <1>1, <2>1, HeadOfTwo DEF Q
  <2>4. kcp_enable' = kcp_enable
    BY <2>1 DEF Handle
  <2>5. QED
    BY <1>1, <1>2, <2>1, <2>2, <2>3, <2>4
<1>4. CASE KcpDeliver
  <2>1. /\ kcp # <<>> /\ Handle(Head(kcp)) /\ kcp' = Tail(kcp) /\ tcp' = tcp
        /\ disordered' = (disordered \/ tcp # <<>>)
    BY <1>4 DEF KcpDeliver
  <2>2. Head(kcp) \in Events /\ kcp' \in Seq(Events)
    BY <1>1, <2>1, HeadTailProperties
  <2>3. kcp_enable' = kcp_enable
    BY <2>1 DEF Handle
  <2>4. ASSUME tcp = <<>> PROVE Q = kcp /\ Q' = kcp'
    BY <1>1, <2>1, <2>2, <2>4, ConcatEmptySeq DEF Q
  <2>5. disordered' \in BOOLEAN
    BY <2>1
  <2>6. ~disordered' => ~disordered /\ tcp = <<>>
    BY <2>1
  <2>7. QED
    BY <1>1, <1>2, <2>1, <2>2, <2>3, <2>4, <2>5, <2>6
<1>5. QED
  BY <1>3, <1>4

\* What an event does when it is replayed, if there is a device.
LEMMA HandleDoes ==
  ASSUME InputInv, NEW e \in Events, Handle(e)
  PROVE  /\ UNCHANGED <<userVars, widgetVars, devVars, unsent, text, text_clip, owner, clip_len>>
         /\ ~pushing /\ dropped' \in BOOLEAN /\ (~dropped' => ~dropped /\ in_obj)
         /\ mpc \in {"init", "run"}
         /\ ~in_obj => UNCHANGED <<down, buttons, clip_data, pushing>>
         /\ in_obj /\ e \in KeyEvents =>
                /\ UNCHANGED <<buttons, clip_data, pushing>>
                /\ down' = IF e.type = "KEY_DOWN" THEN down \cup {get_xkeycode(e.key_code)}
                                                  ELSE down \ {get_xkeycode(e.key_code)}
         /\ in_obj /\ e \in ButtonEvents =>
                /\ UNCHANGED <<down, clip_data, pushing>>
                /\ e.key_code # 0 =>
                       buttons' = IF e.type = "MOUSE_DOWN" THEN buttons \cup {e.key_code}
                                                           ELSE buttons \ {e.key_code}
                /\ e.key_code = 0 => UNCHANGED buttons
         /\ in_obj /\ e \in ClipEvents =>
                UNCHANGED <<down, buttons>> /\ clip_data' = e.key_code /\ pushing'
<1>1. /\ UNCHANGED <<userVars, widgetVars, devVars, unsent>>
      /\ dropped' = (dropped \/ ~in_obj)
      /\ ~pushing /\ mpc \notin {"release", "join", "null"}
      /\ \/ e.type = "CLIP" /\ input_push_clip(e.key_code) /\ UNCHANGED xVars
         \/ e.type # "CLIP" /\ input_push_key(e) /\ UNCHANGED clipVars
  BY DEF Handle, LockFree
<1>2. in_obj \in BOOLEAN /\ dropped \in BOOLEAN /\ mpc \in {"init", "run", "release", "join", "null"}
  BY DEF InputInv, TypeOK, DevTyped, NetTyped
<1>3. UNCHANGED <<text, text_clip, owner, clip_len>>
  BY <1>1 DEF input_push_clip, PushClip, clipVars
<1>4. dropped' \in BOOLEAN /\ (~dropped' => ~dropped /\ in_obj)
  BY <1>1, <1>2
<1>5. ASSUME ~in_obj PROVE UNCHANGED <<down, buttons, clip_data, pushing>>
  BY <1>1, <1>5 DEF input_push_clip, input_push_key, clipVars, xVars
<1>6. ASSUME in_obj, e \in KeyEvents
      PROVE  /\ UNCHANGED <<buttons, clip_data, pushing>>
             /\ down' = IF e.type = "KEY_DOWN" THEN down \cup {get_xkeycode(e.key_code)}
                                               ELSE down \ {get_xkeycode(e.key_code)}
  <2>1. e.type \in {"KEY_UP", "KEY_DOWN"} /\ e.key_code # 0
    BY <1>6, CodesTyped DEF KeyEvents
  <2>2. input_push_key(e) /\ UNCHANGED clipVars
    BY <1>1, <2>1
  <2>3. PushKey(e)
    BY <1>6, <2>1, <2>2 DEF input_push_key
  <2>4. QED
    BY <2>1, <2>2, <2>3 DEF PushKey, clipVars
<1>7. ASSUME in_obj, e \in ButtonEvents
      PROVE  /\ UNCHANGED <<down, clip_data, pushing>>
             /\ e.key_code # 0 =>
                    buttons' = IF e.type = "MOUSE_DOWN" THEN buttons \cup {e.key_code}
                                                        ELSE buttons \ {e.key_code}
             /\ e.key_code = 0 => UNCHANGED buttons
  <2>1. e.type \in {"MOUSE_UP", "MOUSE_DOWN"}
    BY <1>7 DEF ButtonEvents
  <2>2. input_push_key(e) /\ UNCHANGED clipVars
    BY <1>1, <2>1
  <2>3. CASE e.key_code # 0
    BY <1>7, <2>1, <2>2, <2>3 DEF input_push_key, PushKey, clipVars
  <2>4. CASE e.key_code = 0
    BY <2>2, <2>4 DEF input_push_key, clipVars, xVars
  <2>5. QED
    BY <2>3, <2>4
<1>8. ASSUME in_obj, e \in ClipEvents
      PROVE  UNCHANGED <<down, buttons>> /\ clip_data' = e.key_code /\ pushing'
  <2>1. e.type = "CLIP"
    BY <1>8 DEF ClipEvents
  <2>2. QED
    BY <1>1, <1>8, <2>1 DEF input_push_clip, PushClip, xVars
<1>9. QED
  BY <1>1, <1>2, <1>3, <1>4, <1>5, <1>6, <1>7, <1>8

\* The steps of the device and its threads.
DeviceStep ==
    InitInput \/ Restart \/ ReleaseInput \/ JoinClip \/ NullInput \/ ClipWindow \/ ClipExit
        \/ SelectionClear \/ PushClipEnd \/ KcpEnable

\* Those steps leave what is sent and pressed, and push no text.
LEMMA DeviceDoes ==
  ASSUME InputInv, DeviceStep
  PROVE  /\ UNCHANGED <<userVars, widgetVars, histVars, tcp, kcp, down, buttons, text, text_clip>>
         /\ kcp_enable' \in BOOLEAN /\ (kcp_enable => kcp_enable')
         /\ DevTyped' /\ ClipTyped' /\ Phases'
         /\ owner' \/ pushing' => (owner \/ pushing) /\ clip_data' = clip_data
<1>1. /\ UNCHANGED <<userVars, widgetVars, histVars, tcp, kcp, down, buttons, text, text_clip>>
      /\ kcp_enable' = kcp_enable \/ kcp_enable' = TRUE
  BY DEF DeviceStep, InitInput, Restart, ReleaseInput, JoinClip, NullInput, ClipWindow, ClipExit,
         SelectionClear, PushClipEnd, KcpEnable, netVars, xVars, clipVars
<1>2. DevTyped /\ ClipTyped /\ Phases /\ kcp_enable \in BOOLEAN
  BY DEF InputInv, TypeOK, NetTyped
<1>3. DevTyped'
  <2>1. CASE InitInput
    BY <1>1, <1>2, <2>1 DEF InitInput, DevTyped
  <2>2. CASE Restart
    BY <1>1, <1>2, <2>2 DEF Restart, DevTyped
  <2>3. CASE ReleaseInput
    BY <1>1, <1>2, <2>3 DEF ReleaseInput, DevTyped
  <2>4. CASE JoinClip
    BY <1>1, <1>2, <2>4 DEF JoinClip, DevTyped
  <2>5. CASE NullInput
    BY <1>1, <1>2, <2>5 DEF NullInput, DevTyped
  <2>6. CASE ClipWindow
    BY <1>1, <1>2, <2>6 DEF ClipWindow, DevTyped
  <2>7. CASE ClipExit
    BY <1>1, <1>2, <2>7 DEF ClipExit, DevTyped
  <2>8. CASE SelectionClear \/ PushClipEnd \/ KcpEnable
    BY <1>1, <1>2, <2>8 DEF SelectionClear, PushClipEnd, KcpEnable, DevTyped, devVars
  <2>9. QED
    BY <2>1, <2>2, <2>3, <2>4, <2>5, <2>6, <2>7, <2>8 DEF DeviceStep
<1>4. /\ clip_data' \in Texts \cup {0} /\ clip_len' \in Texts \cup {0}
      /\ owner' \in BOOLEAN /\ pushing' \in BOOLEAN
      /\ pushing' => mpc' = "run"
  <2>1. /\ clip_data \in Texts \cup {0} /\ clip_len \in Texts \cup {0}
        /\ owner \in BOOLEAN /\ pushing \in BOOLEAN /\ (pushing => mpc = "run")
        /\ root_win \in BOOLEAN
    BY <1>2 DEF ClipTyped, Phases, DevTyped
  <2>2. CASE InitInput
    BY <2>1, <2>2 DEF InitInput
  <2>3. CASE Restart
    BY <2>1, <2>3 DEF Restart, LockFree, clipVars
  <2>4. CASE ReleaseInput
    BY <2>1, <2>4 DEF ReleaseInput, clipVars
  <2>5. CASE JoinClip
    BY <2>1, <2>5 DEF JoinClip
  <2>6. CASE NullInput
    BY <2>1, <2>6 DEF NullInput, clipVars
  <2>7. CASE ClipWindow \/ ClipExit \/ KcpEnable
    BY <2>1, <2>7 DEF ClipWindow, ClipExit, KcpEnable, clipVars, devVars
  <2>8. CASE SelectionClear
    BY <2>1, <2>8 DEF SelectionClear, devVars
  <2>9. CASE PushClipEnd
    <3>1. pushing' = FALSE /\ clip_data' = clip_data /\ clip_len' = clip_data
      BY <2>9 DEF PushClipEnd
    <3>2. owner' \in BOOLEAN
      BY <2>1, <2>9 DEF PushClipEnd
    <3>3. QED
      BY <2>1, <3>1, <3>2
  <2>10. QED
    BY <2>2, <2>3, <2>4, <2>5, <2>6, <2>7, <2>8, <2>9 DEF DeviceStep
<1>5. ClipTyped'
  BY <1>1, <1>2, <1>3, <1>4 DEF ClipTyped, DevTyped
<1>6. /\ mpc' \in {"init", "null"} => ~owner'
      /\ (owner' \/ pushing') => (owner \/ pushing) /\ clip_data' = clip_data
      /\ (owner' /\ ~pushing') => clip_len' = clip_data'
  <2>1. CASE InitInput
    BY <1>2, <2>1 DEF InitInput, Phases
  <2>2. CASE Restart
    BY <1>2, <2>2 DEF Restart, Phases, clipVars
  <2>3. CASE ReleaseInput
    BY <1>2, <2>3 DEF ReleaseInput, Phases, clipVars
  <2>4. CASE JoinClip
    BY <1>2, <2>4 DEF JoinClip, Phases
  <2>5. CASE NullInput
    BY <1>2, <2>5 DEF NullInput, Phases, clipVars
  <2>6. CASE ClipWindow \/ ClipExit \/ KcpEnable
    BY <1>2, <2>6 DEF ClipWindow, ClipExit, KcpEnable, Phases, clipVars, devVars
  <2>7. CASE SelectionClear
    BY <1>2, <2>7 DEF SelectionClear, Phases, devVars
  <2>8. CASE PushClipEnd
    BY <1>2, <2>8 DEF PushClipEnd, Phases, devVars
  <2>9. QED
    BY <2>1, <2>2, <2>3, <2>4, <2>5, <2>6, <2>7, <2>8 DEF DeviceStep
<1>7. Phases'
  BY <1>1, <1>2, <1>4, <1>6 DEF Phases
<1>8. QED
  BY <1>1, <1>2, <1>3, <1>5, <1>6, <1>7

\* What is delivered leaves the types.
LEMMA HandleTyped ==
  ASSUME InputInv, NEW e \in Events, Handle(e)
  PROVE  /\ UserTyped' /\ DevTyped' /\ ClipTyped'
         /\ pushing' => mpc' = "run"
         /\ mpc' \in {"init", "null"} => ~owner'
         /\ owner' \/ pushing' => clip_data' # 0
         /\ owner' /\ ~pushing' => clip_len' = clip_data'
         /\ text' = 0 => text_clip' = 0
<1>1. UserTyped /\ DevTyped /\ ClipTyped /\ Phases
  BY DEF InputInv, TypeOK
<1>2. /\ UNCHANGED <<userVars, widgetVars, devVars, unsent, text, text_clip, owner, clip_len>>
      /\ ~pushing /\ mpc \in {"init", "run"}
  BY HandleDoes
<1>3. UserTyped'
  BY <1>1, <1>2 DEF UserTyped, userVars, widgetVars
<1>4. CASE ~in_obj
  <2>1. UNCHANGED <<down, buttons, clip_data, pushing>>
    BY <1>4, HandleDoes
  <2>2. DevTyped' /\ ClipTyped'
    BY <1>1, <1>2, <2>1 DEF DevTyped, ClipTyped, devVars
  <2>3. QED
    BY <1>1, <1>2, <1>3, <2>1, <2>2 DEF Phases, devVars
<1>5. CASE in_obj
  <2>1. mpc = "run"
    BY <1>1, <1>2, <1>5 DEF DevTyped
  <2>2. e \in KeyEvents \/ e \in ButtonEvents \/ e \in ClipEvents
    BY DEF Events
  <2>3. down' \subseteq XKeys(Keys) \cup {XK_Control_L}
    <3>1. CASE e \in KeyEvents
      <4>1. e.key_code \in KeyCodes
        BY <3>1 DEF KeyEvents
      <4>2. get_xkeycode(e.key_code) \in XKeys(Keys) \cup {XK_Control_L}
        BY <4>1, CodesTyped
      <4>3. down' = down \cup {get_xkeycode(e.key_code)} \/ down' = down \ {get_xkeycode(e.key_code)}
        BY <1>5, <3>1, HandleDoes
      <4>4. QED
        BY <1>1, <4>2, <4>3 DEF DevTyped
    <3>2. CASE e \notin KeyEvents
      BY <1>1, <1>5, <2>2, <3>2, HandleDoes DEF DevTyped
    <3>3. QED
      BY <3>1, <3>2
  <2>4. buttons' \subseteq Buttons \cup {1}
    <3>1. CASE e \in ButtonEvents
      <4>1. e.key_code \in Buttons \cup {0, 1}
        BY <3>1 DEF ButtonEvents
      <4>2. \/ buttons' = buttons \/ (e.key_code # 0 /\ buttons' = buttons \cup {e.key_code})
            \/ buttons' = buttons \ {e.key_code}
        BY <1>5, <3>1, HandleDoes
      <4>3. QED
        BY <1>1, <4>1, <4>2 DEF DevTyped
    <3>2. CASE e \notin ButtonEvents
      BY <1>1, <1>5, <2>2, <3>2, HandleDoes DEF DevTyped
    <3>3. QED
      BY <3>1, <3>2
  <2>5. DevTyped'
    BY <1>1, <1>2, <2>3, <2>4 DEF DevTyped, devVars
  <2>6. \/ pushing' = pushing /\ clip_data' = clip_data
        \/ pushing' = TRUE /\ clip_data' \in Texts
    <3>1. CASE e \in ClipEvents
      <4>1. e.key_code \in Texts
        BY <3>1 DEF ClipEvents
      <4>2. pushing' \in BOOLEAN
        BY <1>1, <3>1 DEF Handle, ClipTyped, input_push_clip, PushClip, clipVars
      <4>3. QED
        BY <1>5, <3>1, <4>1, <4>2, HandleDoes
    <3>2. CASE e \notin ClipEvents
      BY <1>5, <2>2, <3>2, HandleDoes
    <3>3. QED
      BY <3>1, <3>2
  <2>7. ClipTyped'
    BY <1>1, <1>2, <1>5, <2>6 DEF ClipTyped, devVars
  <2>8. 0 \notin Texts
    BY DEF Texts, Plain, Wide, Long
  <2>9. /\ pushing' => mpc' = "run"
        /\ mpc' \in {"init", "null"} => ~owner'
        /\ text' = 0 => text_clip' = 0
    BY <1>1, <1>2, <2>1 DEF Phases, devVars
  <2>10. /\ owner' \/ pushing' => clip_data' # 0
         /\ owner' /\ ~pushing' => clip_len' = clip_data'
    BY <1>1, <1>2, <2>6, <2>8 DEF Phases
  <2>11. QED
    BY <1>3, <2>5, <2>7, <2>9, <2>10
<1>6. QED
  BY <1>4, <1>5

\* Every step keeps the types and the phases.
LEMMA InputStep == InputInv /\ [Next]_vars => InputInv'
<1> SUFFICES ASSUME InputInv, [Next]_vars PROVE InputInv'
  OBVIOUS
<1>1. UserTyped /\ NetTyped /\ DevTyped /\ ClipTyped /\ Phases
  BY DEF InputInv, TypeOK
<1>2. ASSUME NEW u, Adds(u), UNCHANGED <<disordered, dropped>>
      PROVE  NetTyped' /\ (~kcp_enable' => kcp' = <<>>)
  BY <1>1, <1>2 DEF Adds, NetTyped
<1>3. ASSUME NEW u, Adds(u), UserTyped',
             UNCHANGED <<devVars, xVars, clipVars, disordered, dropped>>
      PROVE  InputInv'
  <2>1. NetTyped' /\ (~kcp_enable' => kcp' = <<>>)
    BY <1>2, <1>3
  <2>2. DevTyped'
    BY <1>1, <1>3 DEF DevTyped, devVars, xVars
  <2>3. ClipTyped' /\ Phases'
    BY <1>1, <1>3, <2>1 DEF ClipTyped, Phases, clipVars, devVars
  <2>4. QED
    BY <1>3, <2>1, <2>2, <2>3 DEF InputInv, TypeOK
<1>4. ASSUME NEW k \in Keys, PressKey(k) \/ ReleaseKey(k) PROVE InputInv'
  BY <1>3, <1>4, PressKeySends, ReleaseKeySends DEF OnlyKeys
<1>5. CASE Enter \/ Leave \/ FocusOut
  BY <1>3, <1>5, FocusSends DEF OnlyKeys
<1>6. ASSUME NEW b \in Buttons, ReleaseButton(b) \/ \E p \in BOOLEAN : PressButton(b, p)
      PROVE  InputInv'
  BY <1>3, <1>6, ButtonSends DEF OnlyButtons, histVars
<1>7. CASE FocusIn
  <2>1. PICK u : OnlyTexts(u)
    BY <1>7, FocusInSends
  <2>2. /\ UserTyped' /\ text_clip' = text
        /\ UNCHANGED <<devVars, xVars, text, clip_data, clip_len, owner, pushing, histVars>>
    BY <1>7, FocusInSends
  <2>3. NetTyped' /\ (~kcp_enable' => kcp' = <<>>)
    BY <1>2, <2>1, <2>2 DEF OnlyTexts, histVars
  <2>4. DevTyped' /\ ClipTyped' /\ Phases'
    BY <1>1, <2>2, <2>3 DEF DevTyped, ClipTyped, Phases, devVars, xVars
  <2>5. QED
    BY <2>2, <2>3, <2>4 DEF InputInv, TypeOK
<1>8. ASSUME NEW t \in Texts, Copy(t) PROVE InputInv'
  <2>1. /\ text' = t
        /\ UNCHANGED <<userVars, widgetVars, netVars, devVars, xVars, text_clip, clip_data, clip_len,
                       owner, pushing, histVars>>
    BY <1>8 DEF Copy
  <2>2. UserTyped'
    BY <1>1, <2>1 DEF UserTyped, userVars, widgetVars, histVars
  <2>3. NetTyped'
    BY <1>1, <2>1 DEF NetTyped, netVars, histVars
  <2>4. DevTyped'
    BY <1>1, <2>1 DEF DevTyped, devVars, xVars
  <2>5. t # 0
    BY DEF Texts, Plain, Wide, Long
  <2>6. ClipTyped' /\ Phases'
    BY <1>1, <2>1, <2>5 DEF ClipTyped, Phases, devVars, netVars
  <2>7. QED
    BY <2>2, <2>3, <2>4, <2>6 DEF InputInv, TypeOK
<1>9. CASE DeviceStep
  <2>1. /\ UNCHANGED <<userVars, widgetVars, histVars, tcp, kcp>>
        /\ kcp_enable' \in BOOLEAN /\ DevTyped' /\ ClipTyped' /\ Phases'
    BY <1>9, DeviceDoes
  <2>2. UserTyped' /\ NetTyped'
    BY <1>1, <2>1 DEF UserTyped, NetTyped, userVars, widgetVars, histVars
  <2>3. QED
    BY <2>1, <2>2 DEF InputInv, TypeOK
<1>10. CASE TcpDeliver \/ KcpDeliver
  <2>1. PICK e \in Events :
            /\ Handle(e)
            /\ tcp' \in Seq(Events) /\ kcp' \in Seq(Events) /\ kcp_enable' = kcp_enable
            /\ (kcp = <<>> => kcp' = <<>>) /\ disordered' \in BOOLEAN
    BY <1>10, Delivery
  <2>2. dropped' \in BOOLEAN
    BY <2>1, HandleDoes
  <2>3. NetTyped' /\ (~kcp_enable' => kcp' = <<>>)
    BY <1>1, <2>1, <2>2 DEF NetTyped, Phases
  <2>4. /\ UserTyped' /\ DevTyped' /\ ClipTyped'
        /\ pushing' => mpc' = "run"
        /\ mpc' \in {"init", "null"} => ~owner'
        /\ owner' \/ pushing' => clip_data' # 0
        /\ owner' /\ ~pushing' => clip_len' = clip_data'
        /\ text' = 0 => text_clip' = 0
    BY <2>1, HandleTyped
  <2>5. QED
    BY <2>3, <2>4 DEF InputInv, TypeOK, Phases
<1>11. CASE UNCHANGED vars
  BY <1>1, <1>11 DEF InputInv, TypeOK, UserTyped, NetTyped, DevTyped, ClipTyped, Phases, vars,
                     userVars, widgetVars, netVars, devVars, xVars, clipVars, histVars
<1>12. QED
  BY <1>4, <1>5, <1>6, <1>7, <1>8, <1>9, <1>10, <1>11 DEF Next, User, Main, Clip, DeviceStep

\* It all begins with no device and nothing pressed.
LEMMA InputInit == Init => InputInv
<1> SUFFICES ASSUME Init PROVE InputInv
  OBVIOUS
<1>1. UserTyped
  BY DEF Init, UserTyped
<1>2. NetTyped
  BY EmptySeq DEF Init, NetTyped
<1>3. DevTyped
  BY DEF Init, DevTyped
<1>4. ClipTyped
  BY DEF Init, ClipTyped
<1>5. Phases
  BY DEF Init, Phases
<1>6. QED
  BY <1>1, <1>2, <1>3, <1>4, <1>5 DEF InputInv, TypeOK

\* Types: what the user holds and the X server has down are keys of the table,
\* every event on its way is one the server can replay, there is a device
\* whenever the pipeline is not being set up, and a text is pushed only to it.
THEOREM InputTypeCorrect == Spec => []TypeOK
<1>1. Spec => []InputInv
  BY InputInit, InputStep, PTL DEF Spec
<1>2. InputInv => TypeOK
  BY DEF InputInv
<1>3. QED
  BY <1>1, <1>2, PTL
-----------------------------------------------------------------------------
(* Buttons.                                                                 *)

\* How things will stand, after something is sent.
LEMMA Sent ==
  ASSUME InputInv, NEW u, Adds(u), NEW S, NEW T
  PROVE  /\ LastIs(Q', S, T) <=> LastIs(u, S, T) \/ (NoneOf(u, S) /\ LastIs(Q, S, T))
         /\ NoneOf(Q', S) <=> NoneOf(Q, S) /\ NoneOf(u, S)
<1>1. Q \in Seq(Events)
  BY ConcatProperties DEF InputInv, TypeOK, NetTyped, Q
<1>2. u \in Seq(Events) /\ Q' = Q \o u
  BY DEF Adds
<1>3. QED
  BY <1>1, <1>2, AfterSending

\* What sends no event of a button leaves the buttons explained.
LEMMA ButtonsQuiet ==
  ASSUME InputInv, ButtonsExplained, NEW u, Adds(u), NoneOf(u, ButtonEvents),
         UNCHANGED <<buttons, mouse_key, disordered, dropped>>
  PROVE  ButtonsExplained'
<1> SUFFICES ASSUME InOrder', NEW b \in Buttons \cup {1}, ButtonStays(b)' PROVE b = mouse_key
  BY DEF ButtonsExplained
<1>1. NoneOf(u, ButtonEventsOf(b)) /\ ~LastIs(u, ButtonEventsOf(b), ButtonDowns)
  BY DEF NoneOf, LastIs, ButtonEventsOf
<1>2. /\ LastIs(Q', ButtonEventsOf(b), ButtonDowns) => LastIs(Q, ButtonEventsOf(b), ButtonDowns)
      /\ NoneOf(Q', ButtonEventsOf(b)) => NoneOf(Q, ButtonEventsOf(b))
  BY <1>1, Sent
<1>3. \/ LastIs(Q', ButtonEventsOf(b), ButtonDowns)
      \/ NoneOf(Q', ButtonEventsOf(b)) /\ b \in buttons
  BY DEF ButtonStays
<1>4. ButtonStays(b)
  BY <1>2, <1>3 DEF ButtonStays
<1>5. QED
  BY <1>4 DEF ButtonsExplained, InOrder

\* The widget presses a button only if it believes none pressed.
LEMMA ButtonPressed ==
  ASSUME InputInv, ButtonsExplained, NEW b \in Buttons, NEW p \in BOOLEAN, PressButton(b, p)
  PROVE  ButtonsExplained'
<1>1. UNCHANGED <<buttons, disordered, dropped>>
  BY DEF PressButton, xVars, histVars
<1>2. CASE UNCHANGED <<tcp, kcp, kcp_enable>> /\ mouse_key # 0
  <2>1. mouse_key' = mouse_key
    BY <1>2 DEF PressButton
  <2>2. OnlyButtons(<<>>) /\ NoneOf(<<>>, ButtonEvents)
    BY <1>2, KeysSent, ShortQueues
  <2>3. QED
    BY <1>1, <2>1, <2>2, ButtonsQuiet DEF OnlyButtons
<1>3. CASE mouse_key = 0
  <2> DEFINE e == [type |-> "MOUSE_DOWN", key_code |-> mouse_key']
  <2> SUFFICES ASSUME InOrder', NEW x \in Buttons \cup {1}, ButtonStays(x)', x # mouse_key'
               PROVE  FALSE
    BY DEF ButtonsExplained
  <2>1. x # 0
    OBVIOUS
  <2>2. ~ButtonStays(x)
    BY <1>1, <1>3, <2>1 DEF ButtonsExplained, InOrder
  <2>3. e \notin ButtonEventsOf(x)
    BY DEF ButtonEventsOf
  <2>4. mouse_key' \in Buttons \cup {0, 1}
    BY <1>3 DEF PressButton
  <2>5. Event("MOUSE_DOWN", mouse_key') = <<e>> /\ <<e>> \in Seq(Events)
    BY <2>4, EventsTyped DEF Event
  <2>6. UNCHANGED <<tcp, kcp, kcp_enable>> \/ Send(<<e>>)
    BY <1>3, <2>5 DEF PressButton, netVars
  <2> HIDE DEF e
  <2>7. ASSUME NEW u, Adds(u), u = <<>> \/ u = <<e>> PROVE FALSE
    <3>1. NoneOf(u, ButtonEventsOf(x)) /\ ~LastIs(u, ButtonEventsOf(x), ButtonDowns)
      <4>1. CASE u = <<>>
        BY <4>1, ShortQueues
      <4>2. CASE u = <<e>>
        BY <2>3, <4>2, ShortQueues
      <4>3. QED
        BY <2>7, <4>1, <4>2
    <3>2. /\ LastIs(Q', ButtonEventsOf(x), ButtonDowns) => LastIs(Q, ButtonEventsOf(x), ButtonDowns)
          /\ NoneOf(Q', ButtonEventsOf(x)) => NoneOf(Q, ButtonEventsOf(x))
      BY <2>7, <3>1, Sent
    <3>3. \/ LastIs(Q', ButtonEventsOf(x), ButtonDowns)
          \/ NoneOf(Q', ButtonEventsOf(x)) /\ x \in buttons
      BY <1>1 DEF ButtonStays
    <3>4. QED
      BY <2>2, <3>2, <3>3 DEF ButtonStays
  <2>8. CASE UNCHANGED <<tcp, kcp, kcp_enable>>
    BY <2>7, <2>8, KeysSent DEF OnlyButtons
  <2>9. CASE Send(<<e>>)
    BY <2>5, <2>7, <2>9, SendAdds
  <2>10. QED
    BY <2>6, <2>8, <2>9
<1>4. QED
  BY <1>2, <1>3 DEF PressButton, netVars

\* Any release lets go of the one button that may stay down.
LEMMA ButtonReleased ==
  ASSUME InputInv, ButtonsExplained, NEW b \in Buttons, ReleaseButton(b)
  PROVE  ButtonsExplained'
<1> DEFINE e == [type |-> "MOUSE_UP", key_code |-> mouse_key]
<1>1. UNCHANGED <<buttons, disordered, dropped>> /\ mouse_key' = 0
      /\ Send(Event("MOUSE_UP", mouse_key))
  BY DEF ReleaseButton, xVars, histVars
<1>2. mouse_key \in Buttons \cup {0, 1}
  BY DEF InputInv, TypeOK, UserTyped
<1>3. Event("MOUSE_UP", mouse_key) = <<e>> /\ <<e>> \in Seq(Events)
  BY <1>2, EventsTyped DEF Event
<1> SUFFICES ASSUME InOrder', NEW x \in Buttons \cup {1}, ButtonStays(x)' PROVE FALSE
  BY DEF ButtonsExplained
<1>4. e \notin ButtonDowns
  BY DEF ButtonDowns
<1>5. x = mouse_key => e \in ButtonEventsOf(x)
  BY <1>2 DEF ButtonEventsOf, ButtonEvents
<1> HIDE DEF e
<1>6. Adds(<<e>>)
  BY <1>1, <1>3, SendAdds
<1>7. ~LastIs(<<e>>, ButtonEventsOf(x), ButtonDowns)
  BY <1>4, ShortQueues
<1>8. /\ LastIs(Q', ButtonEventsOf(x), ButtonDowns)
             => LastIs(Q, ButtonEventsOf(x), ButtonDowns) /\ NoneOf(<<e>>, ButtonEventsOf(x))
      /\ NoneOf(Q', ButtonEventsOf(x))
             => NoneOf(Q, ButtonEventsOf(x)) /\ NoneOf(<<e>>, ButtonEventsOf(x))
  BY <1>6, <1>7, Sent
<1>9. \/ LastIs(Q', ButtonEventsOf(x), ButtonDowns)
      \/ NoneOf(Q', ButtonEventsOf(x)) /\ x \in buttons
  BY <1>1 DEF ButtonStays
<1>10. ButtonStays(x) /\ NoneOf(<<e>>, ButtonEventsOf(x))
  BY <1>8, <1>9 DEF ButtonStays
<1>11. x = mouse_key
  BY <1>1, <1>10 DEF ButtonsExplained, InOrder
<1>12. QED
  BY <1>5, <1>10, <1>11, ShortQueues

\* The event that arrives was counted with already.
LEMMA ButtonDelivered ==
  ASSUME InputInv, ButtonsExplained, TcpDeliver \/ KcpDeliver
  PROVE  ButtonsExplained'
<1>1. PICK e \in Events :
          /\ Handle(e)
          /\ ~disordered' => /\ ~disordered /\ Q \in Seq(Events) /\ Q # <<>>
                             /\ e = Head(Q) /\ Q' = Tail(Q)
  BY Delivery
<1> SUFFICES ASSUME InOrder', NEW b \in Buttons \cup {1}, ButtonStays(b)' PROVE b = mouse_key'
  BY DEF ButtonsExplained
<1> DEFINE S == ButtonEventsOf(b)
           T == ButtonDowns
<1>2. InOrder /\ in_obj /\ mouse_key' = mouse_key
  BY <1>1, HandleDoes DEF InOrder, widgetVars
<1>3. Q \in Seq(Events) /\ Q # <<>> /\ e = Head(Q) /\ Q' = Tail(Q)
  BY <1>1 DEF InOrder
<1>4. LastIs(Q', S, T) \/ (NoneOf(Q', S) /\ b \in buttons')
  BY DEF ButtonStays
<1>5. b # 0
  OBVIOUS
<1>6. ASSUME e \in S, e \notin T PROVE b \notin buttons'
  <2>1. e \in ButtonEvents /\ e.key_code = b /\ e.type # "MOUSE_DOWN"
    BY <1>6 DEF ButtonEventsOf, ButtonDowns
  <2>2. buttons' = buttons \ {b}
    BY <1>1, <1>2, <1>5, <2>1, HandleDoes
  <2>3. QED
    BY <2>2
<1>7. ASSUME e \notin S, b \in buttons' PROVE b \in buttons
  <2>1. CASE e \in ButtonEvents
    <3>1. e.key_code # b
      BY <1>7, <2>1 DEF ButtonEventsOf
    <3>2. buttons' = buttons \/ buttons' = buttons \cup {e.key_code} \/ buttons' = buttons \ {e.key_code}
      BY <1>1, <1>2, <2>1, HandleDoes
    <3>3. QED
      BY <1>7, <3>1, <3>2
  <2>2. CASE e \notin ButtonEvents
    BY <1>1, <1>2, <1>7, <2>2, HandleDoes DEF Events
  <2>3. QED
    BY <2>1, <2>2
<1> HIDE DEF S, T
<1>8. LastIs(Q, S, T) \/ (NoneOf(Q, S) /\ b \in buttons)
  BY <1>3, <1>4, <1>6, <1>7, AfterDelivery
<1>9. ButtonStays(b)
  BY <1>8 DEF ButtonStays, S, T
<1>10. QED
  BY <1>2, <1>9 DEF ButtonsExplained

\* Every step leaves the buttons explained.
LEMMA ButtonsStep == InputInv /\ ButtonsExplained /\ [Next]_vars => ButtonsExplained'
<1> SUFFICES ASSUME InputInv, ButtonsExplained, [Next]_vars PROVE ButtonsExplained'
  OBVIOUS
<1>1. ASSUME NEW k \in Keys, PressKey(k) \/ ReleaseKey(k) PROVE ButtonsExplained'
  BY <1>1, PressKeySends, ReleaseKeySends, ButtonsQuiet DEF OnlyKeys, xVars
<1>2. CASE Enter \/ Leave \/ FocusOut
  BY <1>2, FocusSends, ButtonsQuiet DEF OnlyKeys, xVars
<1>3. ASSUME NEW b \in Buttons, ReleaseButton(b) \/ \E p \in BOOLEAN : PressButton(b, p)
      PROVE  ButtonsExplained'
  BY <1>3, ButtonPressed, ButtonReleased
<1>4. CASE FocusIn
  <2>1. PICK u : OnlyTexts(u)
    BY <1>4, FocusInSends
  <2>2. UNCHANGED <<buttons, mouse_key, disordered, dropped>>
    BY <1>4, FocusInSends DEF xVars, histVars
  <2>3. QED
    BY <2>1, <2>2, ButtonsQuiet DEF OnlyTexts
<1>5. ASSUME UNCHANGED <<buttons, mouse_key, disordered, dropped, tcp, kcp>>,
             kcp_enable' \in BOOLEAN, kcp_enable => kcp_enable'
      PROVE  ButtonsExplained'
  BY <1>5, NothingAdded, ShortQueues, ButtonsQuiet
<1>6. ASSUME NEW t \in Texts, Copy(t) PROVE ButtonsExplained'
  <2>1. UNCHANGED <<buttons, mouse_key, disordered, dropped, tcp, kcp, kcp_enable>>
    BY <1>6 DEF Copy, netVars, xVars, widgetVars, histVars
  <2>2. QED
    BY <1>5, <2>1 DEF InputInv, TypeOK, NetTyped
<1>7. CASE DeviceStep
  BY <1>5, <1>7, DeviceDoes DEF widgetVars, histVars
<1>8. CASE TcpDeliver \/ KcpDeliver
  BY <1>8, ButtonDelivered
<1>9. CASE UNCHANGED vars
  <2>1. UNCHANGED <<buttons, mouse_key, disordered, dropped, tcp, kcp, kcp_enable>>
    BY <1>9 DEF vars, netVars, xVars, widgetVars, histVars
  <2>2. QED
    BY <1>5, <2>1 DEF InputInv, TypeOK, NetTyped
<1>10. QED
  BY <1>1, <1>2, <1>3, <1>4, <1>6, <1>7, <1>8, <1>9 DEF Next, User, Main, Clip, DeviceStep
-----------------------------------------------------------------------------
(* The clipboard.                                                           *)

\* What sends no text leaves the last one on its way, or where it is.
LEMMA TextQuiet ==
  ASSUME InputInv, TextArrives, NEW u, Adds(u), NoneOf(u, ClipEvents),
         UNCHANGED <<text_clip, disordered, dropped>>,
         owner' \/ pushing' => (owner \/ pushing) /\ clip_data' = clip_data
  PROVE  TextArrives'
<1> SUFFICES ASSUME InOrder', text_clip' # Long
             PROVE  \/ LastIs(Q', ClipEvents, TextIs(text_clip))
                    \/ NoneOf(Q', ClipEvents) /\ (owner' \/ pushing' => clip_data' = text_clip)
  BY DEF TextArrives
<1>1. \/ LastIs(Q, ClipEvents, TextIs(text_clip))
      \/ NoneOf(Q, ClipEvents) /\ (owner \/ pushing => clip_data = text_clip)
  BY DEF TextArrives, InOrder
<1>2. /\ LastIs(Q, ClipEvents, TextIs(text_clip)) => LastIs(Q', ClipEvents, TextIs(text_clip))
      /\ NoneOf(Q, ClipEvents) => NoneOf(Q', ClipEvents)
  BY Sent
<1>3. QED
  BY <1>1, <1>2

\* What is delivered was sent last, or is not a text.
LEMMA TextDelivered ==
  ASSUME InputInv, TextArrives, TcpDeliver \/ KcpDeliver
  PROVE  TextArrives'
<1>1. PICK e \in Events :
          /\ Handle(e)
          /\ ~disordered' => /\ ~disordered /\ Q \in Seq(Events) /\ Q # <<>>
                             /\ e = Head(Q) /\ Q' = Tail(Q)
  BY Delivery
<1> DEFINE T == TextIs(text_clip)
<1>2. text_clip' = text_clip /\ owner' = owner
  BY <1>1, HandleDoes
<1> SUFFICES ASSUME InOrder', text_clip # Long
             PROVE  \/ LastIs(Q', ClipEvents, T)
                    \/ NoneOf(Q', ClipEvents) /\ (owner' \/ pushing' => clip_data' = text_clip)
  BY <1>2 DEF TextArrives
<1>3. InOrder /\ in_obj
  BY <1>1, HandleDoes DEF InOrder
<1>4. Q \in Seq(Events) /\ Q # <<>> /\ e = Head(Q) /\ Q' = Tail(Q)
  BY <1>1 DEF InOrder
<1>5. \/ LastIs(Q, ClipEvents, T)
      \/ NoneOf(Q, ClipEvents) /\ (owner \/ pushing => clip_data = text_clip)
  BY <1>3 DEF TextArrives
<1>6. ASSUME e \in ClipEvents \cap T PROVE clip_data' = text_clip
  <2>1. e \in ClipEvents /\ e.key_code = text_clip
    BY <1>6 DEF TextIs
  <2>2. QED
    BY <1>1, <1>3, <2>1, HandleDoes
<1>7. ASSUME e \notin ClipEvents PROVE clip_data' = clip_data /\ pushing' = pushing
  <2>1. e \in KeyEvents \/ e \in ButtonEvents
    BY <1>7 DEF Events
  <2>2. QED
    BY <1>1, <1>3, <2>1, HandleDoes
<1> HIDE DEF T
<1>8. CASE LastIs(Q, ClipEvents, T)
  <2>1. LastIs(Q', ClipEvents, T) \/ (e \in ClipEvents \cap T /\ NoneOf(Q', ClipEvents))
    BY <1>4, <1>8, AfterDelivery
  <2>2. QED
    BY <1>6, <2>1
<1>9. CASE NoneOf(Q, ClipEvents) /\ (owner \/ pushing => clip_data = text_clip)
  <2>1. NoneOf(Q', ClipEvents) /\ e \notin ClipEvents
    BY <1>4, <1>9, AfterDelivery
  <2>2. QED
    BY <1>2, <1>7, <1>9, <2>1
<1>10. QED
  BY <1>5, <1>8, <1>9

\* Every step leaves the text sent last on its way, or where it is.
LEMMA TextStep == InputInv /\ TextArrives /\ [Next]_vars => TextArrives'
<1> SUFFICES ASSUME InputInv, TextArrives, [Next]_vars PROVE TextArrives'
  OBVIOUS
<1>1. ASSUME NEW u, Adds(u), NoneOf(u, ClipEvents), UNCHANGED <<clipVars, disordered, dropped>>
      PROVE  TextArrives'
  BY <1>1, TextQuiet DEF clipVars
<1>2. ASSUME NEW k \in Keys, PressKey(k) \/ ReleaseKey(k) PROVE TextArrives'
  BY <1>1, <1>2, PressKeySends, ReleaseKeySends DEF OnlyKeys
<1>3. CASE Enter \/ Leave \/ FocusOut
  BY <1>1, <1>3, FocusSends DEF OnlyKeys
<1>4. ASSUME NEW b \in Buttons, ReleaseButton(b) \/ \E p \in BOOLEAN : PressButton(b, p)
      PROVE  TextArrives'
  BY <1>1, <1>4, ButtonSends DEF OnlyButtons, histVars
<1>5. CASE FocusIn
  <2>1. PICK u : /\ OnlyTexts(u)
                 /\ text = text_clip => u = <<>>
                 /\ text # text_clip /\ text # Long => LastIs(u, ClipEvents, TextIs(text))
    BY <1>5, FocusInSends
  <2>2. /\ text_clip' = text
        /\ UNCHANGED <<clip_data, owner, pushing, disordered, dropped>>
    BY <1>5, FocusInSends DEF histVars
  <2>3. CASE text = text_clip
    BY <2>1, <2>2, <2>3, ShortQueues, TextQuiet DEF OnlyTexts
  <2>4. CASE text # text_clip /\ text # Long
    <3>1. LastIs(Q', ClipEvents, TextIs(text))
      BY <2>1, <2>4, Sent DEF OnlyTexts
    <3>2. QED
      BY <2>2, <3>1 DEF TextArrives
  <2>5. CASE text = Long
    BY <2>2, <2>5 DEF TextArrives
  <2>6. QED
    BY <2>3, <2>4, <2>5
<1>6. ASSUME NEW t \in Texts, Copy(t) PROVE TextArrives'
  <2>1. UNCHANGED <<text_clip, clip_data, owner, pushing, disordered, dropped, tcp, kcp, kcp_enable>>
    BY <1>6 DEF Copy, netVars, histVars
  <2>2. Adds(<<>>)
    BY <2>1, NothingAdded DEF InputInv, TypeOK, NetTyped
  <2>3. QED
    BY <2>1, <2>2, ShortQueues, TextQuiet
<1>7. CASE DeviceStep
  <2>1. /\ UNCHANGED <<text_clip, disordered, dropped, tcp, kcp>>
        /\ kcp_enable' \in BOOLEAN /\ (kcp_enable => kcp_enable')
        /\ owner' \/ pushing' => (owner \/ pushing) /\ clip_data' = clip_data
    BY <1>7, DeviceDoes DEF histVars
  <2>2. Adds(<<>>)
    BY <2>1, NothingAdded
  <2>3. QED
    BY <2>1, <2>2, ShortQueues, TextQuiet
<1>8. CASE TcpDeliver \/ KcpDeliver
  BY <1>8, TextDelivered
<1>9. CASE UNCHANGED vars
  <2>1. UNCHANGED <<clipVars, disordered, dropped, tcp, kcp, kcp_enable>>
    BY <1>9 DEF vars, netVars, histVars
  <2>2. Adds(<<>>)
    BY <2>1, NothingAdded DEF InputInv, TypeOK, NetTyped
  <2>3. QED
    BY <1>1, <2>1, <2>2, ShortQueues
<1>10. QED
  BY <1>2, <1>3, <1>4, <1>5, <1>6, <1>7, <1>8, <1>9 DEF Next, User, Main, Clip, DeviceStep

\* When the queues are empty, no event of any kind is on its way.
LEMMA AllArrived ==
  ASSUME tcp = <<>>, kcp = <<>>
  PROVE  \A S, T : NoneOf(Q, S) /\ ~LastIs(Q, S, T)
<1>1. Q = <<>>
  BY EmptySeq, ConcatEmptySeq DEF Q
<1>2. QED
  BY <1>1, ShortQueues

\* The clipboard: when all has arrived and the device's window owns the
\* selection, what an application is given is the text the widget sent last, in
\* full if it is ASCII, and no older text.
THEOREM PastesWhatWasSent == Spec => []PasteCurrent
<1>1. Init => TextArrives
  <2> SUFFICES ASSUME Init PROVE TextArrives
    OBVIOUS
  <2>1. NoneOf(Q, ClipEvents) /\ ~owner /\ ~pushing
    BY AllArrived DEF Init
  <2>2. QED
    BY <2>1 DEF TextArrives
<1>2. Spec => [](InputInv /\ TextArrives)
  BY <1>1, InputInit, InputStep, TextStep, PTL DEF Spec
<1>3. InputInv /\ TextArrives => PasteCurrent
  <2> SUFFICES ASSUME InputInv, TextArrives, tcp = <<>>, kcp = <<>>, ~pushing, ~disordered,
                      ~dropped, owner, text_clip # Long
               PROVE  Pasted = [data |-> text_clip, whole |-> text_clip = Plain]
    BY DEF PasteCurrent
  <2>1. clip_data = text_clip
    BY AllArrived DEF TextArrives, InOrder
  <2>2. clip_len = clip_data /\ clip_data # 0 /\ text_clip \in Texts \cup {0}
    BY DEF InputInv, TypeOK, ClipTyped, Phases
  <2>3. (clip_len = clip_data /\ clip_data # Wide) = (text_clip = Plain)
    BY <2>1, <2>2 DEF Texts, Plain, Wide, Long
  <2>4. QED
    BY <2>1, <2>3 DEF Pasted
<1>4. QED
  BY <1>2, <1>3, PTL
-----------------------------------------------------------------------------
(* Keys.                                                                    *)

\* A key that is held is one of the X keys that may be down, whatever its name
\* is, and only a digit changes its name, when Shift moves.
LEMMA KeysNamed ==
  /\ \A H, keys : \A k \in H : KeyIn(k, keys) \in XKeys(H)
  /\ \A keys : KeyIn(Key_Control, keys) = XK_Control_L
  /\ \A k, A, B : (Key_Shift \in A <=> Key_Shift \in B) => KeyIn(k, A) = KeyIn(k, B)
  /\ \A k, A, B : KeyIn(k, A) # KeyIn(k, B) => k = Key_1
<1>1. \A H, keys : \A k \in H : KeyIn(k, keys) \in XKeys(H)
  <2> TAKE H, keys
  <2> TAKE k \in H
  <2>1. QtKey(k, keys) \in Names(H)
    BY DEF QtKey, Names
  <2>2. QED
    BY <2>1 DEF KeyIn, XKeys
<1>2. \A keys : KeyIn(Key_Control, keys) = XK_Control_L
  <2> TAKE keys
  <2>1. QtKey(Key_Control, keys) = Key_Control
    BY DEF QtKey, Key_Control, Key_1
  <2>2. \A c : c = Key_Control => get_key_code(c) = 17
    BY SMT DEF get_key_code, Key_Control, Key_Shift, Key_Alt
  <2>3. \A c : c = 17 => get_xkeycode(c) = XK_Control_L
    BY SMT DEF get_xkeycode
  <2>4. QED
    BY <2>1, <2>2, <2>3 DEF KeyIn
<1>3. QED
  BY <1>1, <1>2 DEF KeyIn, QtKey

\* What a step has to show of the keys it sends and of those it explains no more.
LEMMA KeysFollow ==
  ASSUME InputInv, KeysExplained, NEW u, Adds(u), UNCHANGED <<down, disordered, dropped>>,
         \A x : /\ LastIs(u, KeyEventsOf(x), KeyDowns) => Explained(x)'
                /\ Explained(x) /\ NoneOf(u, KeyEventsOf(x)) => Explained(x)'
  PROVE  KeysExplained'
<1> SUFFICES ASSUME InOrder', NEW x \in XKeys(Keys) \cup {XK_Control_L}, KeyStays(x)'
             PROVE  Explained(x)'
  BY DEF KeysExplained
<1>1. \/ LastIs(Q', KeyEventsOf(x), KeyDowns)
      \/ NoneOf(Q', KeyEventsOf(x)) /\ x \in down
  BY DEF KeyStays
<1>2. /\ LastIs(Q', KeyEventsOf(x), KeyDowns)
             => \/ LastIs(u, KeyEventsOf(x), KeyDowns)
                \/ NoneOf(u, KeyEventsOf(x)) /\ LastIs(Q, KeyEventsOf(x), KeyDowns)
      /\ NoneOf(Q', KeyEventsOf(x))
             => NoneOf(Q, KeyEventsOf(x)) /\ NoneOf(u, KeyEventsOf(x))
  BY Sent
<1>3. \/ LastIs(u, KeyEventsOf(x), KeyDowns)
      \/ KeyStays(x) /\ NoneOf(u, KeyEventsOf(x))
  BY <1>1, <1>2 DEF KeyStays
<1>4. KeyStays(x) => Explained(x)
  BY DEF KeysExplained, InOrder
<1>5. QED
  BY <1>3, <1>4

\* What sends no event of a key explains what was explained.
LEMMA KeysQuiet ==
  ASSUME InputInv, KeysExplained, NEW u, Adds(u), NoneOf(u, KeyEvents),
         UNCHANGED <<down, unsent, held, modifiers, disordered, dropped>>, grab => grab'
  PROVE  KeysExplained'
<1>1. \A x : ~LastIs(u, KeyEventsOf(x), KeyDowns)
  BY DEF LastIs, NoneOf, KeyEventsOf
<1>2. \A x : Explained(x) => Explained(x)'
  BY DEF Explained
<1>3. QED
  BY <1>1, <1>2, KeysFollow

\* The event sent for a key says only of that key whether it is down.
LEMMA OneKeySent ==
  ASSUME NEW type \in {"KEY_UP", "KEY_DOWN"}, NEW c \in KeyCodes, NEW x
  PROVE  /\ LastIs(Event(type, c), KeyEventsOf(x), KeyDowns)
                <=> x = get_xkeycode(c) /\ type = "KEY_DOWN"
         /\ NoneOf(Event(type, c), KeyEventsOf(x)) <=> x # get_xkeycode(c)
<1> DEFINE e == [type |-> type, key_code |-> c]
<1>1. e \in KeyEvents
  BY DEF KeyEvents
<1>2. e \in KeyEventsOf(x) <=> x = get_xkeycode(c)
  BY <1>1 DEF KeyEventsOf
<1>3. e \in KeyDowns <=> type = "KEY_DOWN"
  BY <1>1 DEF KeyDowns
<1>4. Event(type, c) = <<e>>
  BY DEF Event
<1> HIDE DEF e
<1>5. QED
  BY <1>2, <1>3, <1>4, ShortQueues

\* A key pressed: while the widget has the keyboard it is sent, and a digit that
\* changes its name is noted; the keys held when it gives the keyboard away too.
LEMMA KeyPressed ==
  ASSUME InputInv, KeysExplained, NEW k \in Keys, PressKey(k)
  PROVE  KeysExplained'
<1>1. held' = held \cup {k} /\ UNCHANGED <<down, disordered, dropped>>
  BY DEF PressKey, xVars
<1>2. UserTyped
  BY DEF InputInv, TypeOK
<1>3. CASE ~grab
  <2>1. UNCHANGED <<tcp, kcp, kcp_enable>> /\ unsent \subseteq unsent'
    BY <1>3 DEF PressKey, netVars
  <2>2. Adds(<<>>) /\ \A S, T : ~LastIs(<<>>, S, T)
    BY <2>1, KeysSent, ShortQueues DEF OnlyKeys
  <2>3. \A x : Explained(x) => Explained(x)'
    BY <1>3, <2>1 DEF Explained
  <2>4. QED
    BY <1>1, <2>2, <2>3, KeysFollow
<1>4. CASE grab /\ k = Key_G /\ {Key_Control, Key_Alt} \subseteq modifiers'
  <2> DEFINE a == Event("KEY_UP", Key_Control)
             b == Event("KEY_UP", Key_Alt)
  <2>1. /\ modifiers' = held' \cap Modifiers /\ Send(a \o b)
        /\ unsent' = unsent \cup XKeys(held \ {Key_Control})
    BY <1>4 DEF PressKey
  <2>2. Key_Control \in KeyCodes /\ Key_Alt \in KeyCodes
    BY <1>1, <1>2, <1>4, <2>1, CodesTyped DEF UserTyped
  <2>3. a \in Seq(Events) /\ b \in Seq(Events)
    BY <2>2, EventsTyped
  <2> DEFINE u == a \o b
  <2>4. u \in Seq(Events)
    BY <2>3, ConcatProperties
  <2>5. \A x : /\ ~LastIs(a, KeyEventsOf(x), KeyDowns) /\ ~LastIs(b, KeyEventsOf(x), KeyDowns)
               /\ NoneOf(a, KeyEventsOf(x)) <=> x # XK_Control_L
    BY <2>2, OneKeySent, RawIsControl DEF Modifiers
  <2> HIDE DEF a, b
  <2>6. \A x : /\ ~LastIs(u, KeyEventsOf(x), KeyDowns)
               /\ NoneOf(u, KeyEventsOf(x)) => x # XK_Control_L
    BY <2>3, <2>5, AfterSending
  <2> HIDE DEF u
  <2>7. Adds(u)
    BY <2>1, <2>4, SendAdds DEF u
  <2>8. ASSUME NEW x, Explained(x), x # XK_Control_L PROVE x \in unsent'
    BY <2>1, <2>8, KeysNamed DEF Explained
  <2>9. \A x : Explained(x) /\ NoneOf(u, KeyEventsOf(x)) => Explained(x)'
    BY <2>6, <2>8 DEF Explained
  <2>10. QED
    BY <1>1, <2>6, <2>7, <2>9, KeysFollow
<1>5. CASE grab /\ ~(k = Key_G /\ {Key_Control, Key_Alt} \subseteq modifiers')
  <2> DEFINE c == get_key_code(QtKey(k, held))
             u == Event("KEY_DOWN", c)
  <2>1. /\ modifiers' = held' \cap Modifiers /\ Send(u) /\ grab' = grab
        /\ unsent' = unsent \cup Renamed(k)
    BY <1>5 DEF PressKey
  <2>2. c \in KeyCodes
    BY CodesTyped
  <2>3. u \in Seq(Events)
    BY <2>2, EventsTyped
  <2>4. \A x : LastIs(u, KeyEventsOf(x), KeyDowns) => x = KeyIn(k, held)
    BY <2>2, OneKeySent DEF KeyIn
  <2> HIDE DEF c, u
  <2>5. Adds(u)
    BY <2>1, <2>3, SendAdds
  <2>6. KeyIn(k, held') = KeyIn(k, held)
    <3>1. CASE k = Key_Shift
      BY <3>1, KeysNamed DEF Key_Shift, Key_1
    <3>2. CASE k # Key_Shift
      BY <1>1, <3>2, KeysNamed
    <3>3. QED
      BY <3>1, <3>2
  <2>7. Key_Control \in Modifiers
    BY DEF Modifiers
  <2>8. \A x : LastIs(u, KeyEventsOf(x), KeyDowns) => Explained(x)'
    BY <1>1, <1>5, <2>1, <2>4, <2>6, <2>7 DEF Explained
  <2>9. ASSUME NEW x, Explained(x) PROVE Explained(x)'
    <3>1. CASE x \in unsent
      BY <2>1, <3>1 DEF Explained
    <3>2. CASE \E j \in held : x = KeyIn(j, held)
      <4>1. PICK j \in held : x = KeyIn(j, held)
        BY <3>2
      <4>2. CASE KeyIn(j, held') = KeyIn(j, held)
        BY <1>1, <1>5, <2>1, <2>7, <4>1, <4>2 DEF Explained
      <4>3. CASE KeyIn(j, held') # KeyIn(j, held)
        <5>1. j = Key_1 /\ k = Key_Shift
          BY <1>1, <4>3, KeysNamed
        <5>2. x \in Renamed(k)
          BY <4>1, <5>1, KeysNamed DEF Renamed
        <5>3. QED
          BY <2>1, <5>2 DEF Explained
      <4>4. QED
        BY <4>2, <4>3
    <3>3. QED
      BY <2>9, <3>1, <3>2 DEF Explained
  <2>10. QED
    BY <1>1, <2>5, <2>8, <2>9, KeysFollow
<1>6. QED
  BY <1>3, <1>4, <1>5

\* A key released is let go by the name it has now.
LEMMA KeyReleased ==
  ASSUME InputInv, KeysExplained, NEW k \in Keys, ReleaseKey(k)
  PROVE  KeysExplained'
<1>1. /\ held' = held \ {k} /\ grab' = grab /\ unsent' = unsent \cup Renamed(k)
      /\ UNCHANGED <<down, disordered, dropped>>
  BY DEF ReleaseKey, xVars
<1>2. CASE ~grab
  <2>1. UNCHANGED <<tcp, kcp, kcp_enable>>
    BY <1>2 DEF ReleaseKey, netVars
  <2>2. Adds(<<>>) /\ \A S, T : ~LastIs(<<>>, S, T)
    BY <2>1, KeysSent, ShortQueues DEF OnlyKeys
  <2>3. \A x : Explained(x) => Explained(x)'
    BY <1>1, <1>2 DEF Explained
  <2>4. QED
    BY <1>1, <2>2, <2>3, KeysFollow
<1>3. CASE grab
  <2> DEFINE c == get_key_code(QtKey(k, held))
             u == Event("KEY_UP", c)
  <2>1. modifiers' = held' \cap Modifiers /\ Send(u)
    BY <1>3 DEF ReleaseKey
  <2>2. c \in KeyCodes
    BY CodesTyped
  <2>3. u \in Seq(Events)
    BY <2>2, EventsTyped
  <2>4. \A x : /\ ~LastIs(u, KeyEventsOf(x), KeyDowns)
               /\ NoneOf(u, KeyEventsOf(x)) => x # KeyIn(k, held)
    BY <2>2, OneKeySent DEF KeyIn
  <2> HIDE DEF c, u
  <2>5. Adds(u)
    BY <2>1, <2>3, SendAdds
  <2>6. Key_Control \in Modifiers
    BY DEF Modifiers
  <2>7. ASSUME NEW x, Explained(x), x # KeyIn(k, held) PROVE Explained(x)'
    <3>1. CASE x \in unsent
      BY <1>1, <3>1 DEF Explained
    <3>2. CASE \E j \in held : x = KeyIn(j, held)
      <4>1. PICK j \in held : x = KeyIn(j, held)
        BY <3>2
      <4>2. j \in held'
        BY <1>1, <2>7, <4>1
      <4>3. CASE KeyIn(j, held') = KeyIn(j, held)
        BY <1>1, <1>3, <2>1, <2>6, <4>1, <4>2, <4>3 DEF Explained
      <4>4. CASE KeyIn(j, held') # KeyIn(j, held)
        <5>1. j = Key_1 /\ k = Key_Shift
          BY <1>1, <4>4, KeysNamed
        <5>2. x \in Renamed(k)
          BY <4>1, <5>1, KeysNamed DEF Renamed
        <5>3. QED
          BY <1>1, <5>2 DEF Explained
      <4>5. QED
        BY <4>3, <4>4
    <3>3. QED
      BY <2>7, <3>1, <3>2 DEF Explained
  <2>8. QED
    BY <1>1, <2>4, <2>5, <2>7, KeysFollow
<1>4. QED
  BY <1>2, <1>3

\* Who loses the keyboard lets go of Control alone.
LEMMA KeysLeft ==
  ASSUME InputInv, KeysExplained, Leave \/ FocusOut
  PROVE  KeysExplained'
<1>1. UserTyped
  BY DEF InputInv, TypeOK
<1>2. UNCHANGED <<down, held, modifiers, disordered, dropped>>
  BY DEF Leave, FocusOut, xVars
<1>3. CASE Leave \/ ~grab
  <2>1. /\ UNCHANGED <<tcp, kcp, kcp_enable>> /\ unsent \subseteq unsent'
        /\ grab => XKeys(held) \subseteq unsent'
    BY <1>3 DEF Leave, FocusOut, netVars
  <2>2. Adds(<<>>) /\ \A S, T : ~LastIs(<<>>, S, T)
    BY <2>1, KeysSent, ShortQueues DEF OnlyKeys
  <2>3. ASSUME NEW x, Explained(x) PROVE x \in unsent'
    BY <2>1, <2>3, KeysNamed DEF Explained
  <2>4. \A x : Explained(x) => Explained(x)'
    BY <2>3 DEF Explained
  <2>5. QED
    BY <1>2, <2>2, <2>4, KeysFollow
<1>4. CASE FocusOut /\ grab
  <2> DEFINE u == RawModifiers
  <2>1. Send(u) /\ unsent' = unsent \cup XKeys(held \ {Key_Control})
    BY <1>4 DEF FocusOut
  <2>2. /\ u \in Seq(KeyEvents)
        /\ \A i \in DOMAIN u : u[i].type = "KEY_UP"
        /\ Key_Control \in modifiers => \E i \in DOMAIN u : u[i].key_code = Key_Control
    BY <1>1, RawTyped
  <2> HIDE DEF u
  <2>3. Adds(u)
    BY <2>1, <2>2, SendAdds, EventsTyped
  <2>4. \A x : ~LastIs(u, KeyEventsOf(x), KeyDowns)
    BY <2>2 DEF LastIs, KeyDowns
  <2>5. ASSUME Key_Control \in modifiers PROVE ~NoneOf(u, KeyEventsOf(XK_Control_L))
    <3>1. PICK i \in DOMAIN u : u[i].key_code = Key_Control
      BY <2>2, <2>5
    <3>2. u[i] \in KeyEvents
      BY <2>2, ElementOfSeq, LenProperties
    <3>3. get_xkeycode(Key_Control) = XK_Control_L
      BY RawIsControl DEF Modifiers
    <3>4. QED
      BY <3>1, <3>2, <3>3 DEF NoneOf, KeyEventsOf
  <2>6. ASSUME NEW x, Explained(x), NoneOf(u, KeyEventsOf(x)) PROVE x \in unsent'
    <3>1. CASE x \in unsent
      BY <2>1, <3>1
    <3>2. CASE \E k \in held : x = KeyIn(k, held) /\ (k = Key_Control => k \in modifiers)
      <4>1. PICK k \in held : x = KeyIn(k, held) /\ (k = Key_Control => k \in modifiers)
        BY <3>2
      <4>2. k # Key_Control
        BY <2>5, <2>6, <4>1, KeysNamed
      <4>3. QED
        BY <2>1, <4>1, <4>2, KeysNamed
    <3>3. QED
      BY <2>6, <3>1, <3>2 DEF Explained
  <2>7. \A x : Explained(x) /\ NoneOf(u, KeyEventsOf(x)) => Explained(x)'
    BY <2>6 DEF Explained
  <2>8. QED
    BY <1>2, <2>3, <2>4, <2>7, KeysFollow
<1>5. QED
  BY <1>3, <1>4

\* The key event that arrives was counted with already.
LEMMA KeyDelivered ==
  ASSUME InputInv, KeysExplained, TcpDeliver \/ KcpDeliver
  PROVE  KeysExplained'
<1>1. PICK e \in Events :
          /\ Handle(e)
          /\ ~disordered' => /\ ~disordered /\ Q \in Seq(Events) /\ Q # <<>>
                             /\ e = Head(Q) /\ Q' = Tail(Q)
  BY Delivery
<1>2. UNCHANGED <<held, modifiers, grab, unsent>>
  BY <1>1, HandleDoes DEF userVars, widgetVars
<1> SUFFICES ASSUME InOrder', NEW x \in XKeys(Keys) \cup {XK_Control_L}, KeyStays(x)'
             PROVE  Explained(x)'
  BY DEF KeysExplained
<1> DEFINE S == KeyEventsOf(x)
           T == KeyDowns
<1>3. InOrder /\ in_obj
  BY <1>1, HandleDoes DEF InOrder
<1>4. Q \in Seq(Events) /\ Q # <<>> /\ e = Head(Q) /\ Q' = Tail(Q)
  BY <1>1 DEF InOrder
<1>5. LastIs(Q', S, T) \/ (NoneOf(Q', S) /\ x \in down')
  BY DEF KeyStays
<1>6. ASSUME e \in S, e \notin T PROVE x \notin down'
  <2>1. e \in KeyEvents /\ get_xkeycode(e.key_code) = x /\ e.type # "KEY_DOWN"
    BY <1>6 DEF KeyEventsOf, KeyDowns
  <2>2. down' = down \ {x}
    BY <1>1, <1>3, <2>1, HandleDoes
  <2>3. QED
    BY <2>2
<1>7. ASSUME e \notin S, x \in down' PROVE x \in down
  <2>1. CASE e \in KeyEvents
    <3>1. get_xkeycode(e.key_code) # x
      BY <1>7, <2>1 DEF KeyEventsOf
    <3>2. \/ down' = down \cup {get_xkeycode(e.key_code)}
          \/ down' = down \ {get_xkeycode(e.key_code)}
      BY <1>1, <1>3, <2>1, HandleDoes
    <3>3. QED
      BY <1>7, <3>1, <3>2
  <2>2. CASE e \notin KeyEvents
    BY <1>1, <1>3, <1>7, <2>2, HandleDoes DEF Events
  <2>3. QED
    BY <2>1, <2>2
<1> HIDE DEF S, T
<1>8. LastIs(Q, S, T) \/ (NoneOf(Q, S) /\ x \in down)
  BY <1>4, <1>5, <1>6, <1>7, AfterDelivery
<1>9. KeyStays(x)
  BY <1>8 DEF KeyStays, S, T
<1>10. Explained(x)
  BY <1>3, <1>9 DEF KeysExplained
<1>11. QED
  BY <1>2, <1>10 DEF Explained

\* Every step leaves the keys explained.
LEMMA KeysStep == InputInv /\ KeysExplained /\ [Next]_vars => KeysExplained'
<1> SUFFICES ASSUME InputInv, KeysExplained, [Next]_vars PROVE KeysExplained'
  OBVIOUS
<1>1. ASSUME UNCHANGED <<down, unsent, held, modifiers, disordered, dropped, tcp, kcp>>,
             grab => grab', kcp_enable' \in BOOLEAN, kcp_enable => kcp_enable'
      PROVE  KeysExplained'
  BY <1>1, NothingAdded, ShortQueues, KeysQuiet
<1>2. ASSUME NEW k \in Keys, PressKey(k) \/ ReleaseKey(k) PROVE KeysExplained'
  BY <1>2, KeyPressed, KeyReleased
<1>3. CASE Leave \/ FocusOut
  BY <1>3, KeysLeft
<1>4. CASE Enter
  <2>1. /\ UNCHANGED <<down, unsent, held, modifiers, disordered, dropped, tcp, kcp, kcp_enable>>
        /\ grab'
    BY <1>4 DEF Enter, netVars, xVars, histVars
  <2>2. QED
    BY <1>1, <2>1 DEF InputInv, TypeOK, NetTyped
<1>5. ASSUME NEW b \in Buttons, ReleaseButton(b) \/ \E p \in BOOLEAN : PressButton(b, p)
      PROVE  KeysExplained'
  <2>1. PICK u : OnlyButtons(u)
    BY <1>5, ButtonSends
  <2>2. UNCHANGED <<down, unsent, held, modifiers, grab, disordered, dropped>>
    BY <1>5, ButtonSends DEF xVars, histVars
  <2>3. QED
    BY <2>1, <2>2, KeysQuiet DEF OnlyButtons
<1>6. CASE FocusIn
  <2>1. PICK u : OnlyTexts(u)
    BY <1>6, FocusInSends
  <2>2. (grab => grab') /\ UNCHANGED <<down, unsent, held, modifiers, disordered, dropped>>
    BY <1>6, FocusInSends DEF xVars, histVars
  <2>3. QED
    BY <2>1, <2>2, KeysQuiet DEF OnlyTexts
<1>7. ASSUME NEW t \in Texts, Copy(t) PROVE KeysExplained'
  <2>1. UNCHANGED <<down, unsent, held, modifiers, grab, disordered, dropped, tcp, kcp, kcp_enable>>
    BY <1>7 DEF Copy, netVars, xVars, userVars, widgetVars, histVars
  <2>2. QED
    BY <1>1, <2>1 DEF InputInv, TypeOK, NetTyped
<1>8. CASE DeviceStep
  BY <1>1, <1>8, DeviceDoes DEF userVars, widgetVars, histVars
<1>9. CASE TcpDeliver \/ KcpDeliver
  BY <1>9, KeyDelivered
<1>10. CASE UNCHANGED vars
  <2>1. UNCHANGED <<down, unsent, held, modifiers, grab, disordered, dropped, tcp, kcp, kcp_enable>>
    BY <1>10 DEF vars, netVars, xVars, userVars, widgetVars, histVars
  <2>2. QED
    BY <1>1, <2>1 DEF InputInv, TypeOK, NetTyped
<1>11. QED
  BY <1>2, <1>3, <1>4, <1>5, <1>6, <1>7, <1>8, <1>9, <1>10
     DEF Next, User, Main, Clip, DeviceStep

\* Nothing stuck: when all has arrived, in order and at a device, a key is down
\* at the server only if the user holds it or if it is known that the client may
\* not send its release, and a button only if the widget believes it pressed.
THEOREM NothingStaysDown == Spec => []NothingStuck
<1>1. Init => KeysExplained /\ ButtonsExplained
  <2> SUFFICES ASSUME Init PROVE KeysExplained /\ ButtonsExplained
    OBVIOUS
  <2>1. down = {} /\ buttons = {} /\ \A S, T : ~LastIs(Q, S, T)
    BY AllArrived DEF Init
  <2>2. QED
    BY <2>1 DEF KeysExplained, ButtonsExplained, KeyStays, ButtonStays
<1>2. Spec => [](InputInv /\ KeysExplained /\ ButtonsExplained)
  BY <1>1, InputInit, InputStep, KeysStep, ButtonsStep, PTL DEF Spec
<1>3. InputInv /\ KeysExplained /\ ButtonsExplained => NothingStuck
  <2> SUFFICES ASSUME InputInv, KeysExplained, ButtonsExplained, tcp = <<>>, kcp = <<>>,
                      ~disordered, ~dropped
               PROVE  down \subseteq XKeys(held) \cup unsent /\ buttons \subseteq {mouse_key}
    BY DEF NothingStuck
  <2>1. down \subseteq XKeys(Keys) \cup {XK_Control_L} /\ buttons \subseteq Buttons \cup {1}
    BY DEF InputInv, TypeOK, DevTyped
  <2>2. \A S : NoneOf(Q, S)
    BY AllArrived
  <2>3. \A x \in down : Explained(x)
    BY <2>1, <2>2 DEF KeysExplained, KeyStays, InOrder
  <2>4. \A x : Explained(x) => x \in XKeys(held) \cup unsent
    BY KeysNamed DEF Explained
  <2>5. \A b \in buttons : b = mouse_key
    BY <2>1, <2>2 DEF ButtonsExplained, ButtonStays, InOrder
  <2>6. QED
    BY <2>3, <2>4, <2>5
<1>4. QED
  BY <1>2, <1>3, PTL
=============================================================================
