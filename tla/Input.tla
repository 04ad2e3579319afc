------------------------------- MODULE Input -------------------------------
(***************************************************************************)
(* Input events from the Python client's window to the server's X display: *)
(* the widget (clients/pyqt/RenderWidget.py) translates and sends what it  *)
(* sees while it has the keyboard, over TCP and from some point on over    *)
(* KCP; the server (on_server_pkt, input_dev/xlib_input.c) replays it with *)
(* XTest, on an input device that every restart of the pipeline replaces.  *)
(*                                                                         *)
(* The pressed keys belong to the X server, so what is pressed there and   *)
(* never released stays pressed.  Pointer positions and wheel turns leave  *)
(* nothing pressed: they are not put into the queues.  Three histories say *)
(* why a key may stay down.  The clipboard belongs to the device: texts go *)
(* the way of the keys when the window gets the focus, and the device's    *)
(* own thread gives them to the applications that paste.                   *)
(***************************************************************************)
EXTENDS Integers, Sequences

CONSTANTS
    Keys,           \* the keys of the keyboard that are used, as Qt key codes
    Buttons,        \* the mouse buttons, as the widget numbers them
    MaxInput,       \* bound: keys and buttons pressed
    MaxFlight,      \* bound: events on their way over a transport as the user acts
    MaxLeaves,      \* bound: times the pointer or the focus leaves, once
                    \* more for each copy
    MaxCopies,      \* bound: texts copied
    MaxRestarts     \* bound: restarts of the pipeline

Key_Shift == 16777248
Key_Control == 16777249
Key_Alt == 16777251
Key_G == 71
Key_1 == 49
Key_Exclam == 33
Modifiers == {Key_Shift, Key_Control, Key_Alt}

XK_Shift_L == 65505
XK_Control_L == 65507
XK_Alt_L == 65513
XK_Page_Up == 65365

ASSUME BoundsAssumption ==
    /\ Keys \subseteq Modifiers \cup {Key_G, Key_1}
    /\ Buttons \subseteq 1..3
    /\ MaxInput \in Nat /\ MaxFlight \in Nat
    /\ MaxLeaves \in Nat /\ MaxCopies \in Nat /\ MaxRestarts \in Nat

\* Texts: ASCII, with wider characters, and of more than 10200 characters.
Plain == 1
Wide == 2
Long == 3
Texts == {Plain, Wide, Long}

VARIABLES
    held, pressed,  \* keys and buttons the user holds
    inside,         \* the pointer is over the widget
    active,         \* the window has the focus
    grab,           \* the widget has grabbed the keyboard
    modifiers,      \* the modifiers of the last key event it handled
    mouse_key,      \* the button it believes pressed, 0 for none
    tcp, kcp,       \* events on their way
    kcp_enable,     \* the client sends over KCP
    mpc,            \* where the server's main thread is
    in_obj,         \* the input device is there
    clip,           \* where the device's clipboard thread is
    root_win,       \* it has made its window
    message,        \* the message that ends it has been sent to that window
    down, buttons,  \* X key symbols and buttons pressed at the server
    text,           \* the text in the user's clipboard, 0 for none
    text_clip,      \* the text the widget sent last
    clip_data,      \* the text in the device's clipboard ...
    clip_len,       \* ... cut to the length of this one
    owner,          \* its window owns the selection
    pushing,        \* a handler is between clip_data and clip_len
    inputs, leaves, restarts, copies,
    unsent,         \* history: X keys whose release the client may not send
    disordered,     \* history: a KCP event overtook a TCP one
    dropped         \* history: an event came while there was no device

userVars == <<held, pressed, inside, active>>
widgetVars == <<grab, modifiers, mouse_key>>
netVars == <<tcp, kcp, kcp_enable>>
devVars == <<mpc, in_obj, clip, root_win, message>>
xVars == <<down, buttons>>
clipVars == <<text, text_clip, clip_data, clip_len, owner, pushing>>
boundVars == <<inputs, leaves, restarts, copies>>
histVars == <<unsent, disordered, dropped>>
vars == <<userVars, widgetVars, netVars, devVars, xVars, clipVars, boundVars, histVars>>
-----------------------------------------------------------------------------
(* Codes.  What Qt calls a key depends on Shift: with it, 1 is an exclam.   *)

QtKey(k, keys) == IF k = Key_1 /\ Key_Shift \in keys THEN Key_Exclam ELSE k

\* The rest of this table is of the same kind, or passes the code on.
get_key_code(code) ==
    CASE code = Key_Shift   -> 16
      [] code = Key_Control -> 17
      [] code = Key_Alt     -> 18
      [] OTHER              -> code

\* Key codes of the protocol from 33 on stand for themselves, but for those
\* in the table; what is out of range becomes a Control.
get_xkeycode(keycode) ==
    CASE keycode = 16        -> XK_Shift_L
      [] keycode = 17        -> XK_Control_L
      [] keycode = 18        -> XK_Alt_L
      [] keycode = 33        -> XK_Page_Up
      [] keycode \in 34..200 -> keycode
      [] OTHER               -> XK_Control_L

\* The names Qt may have for these keys, and the X keys they may have pressed at
\* the server.
Names(keys) == keys \cup IF Key_1 \in keys THEN {Key_Exclam} ELSE {}
XKeys(keys) == {get_xkeycode(get_key_code(c)) : c \in Names(keys)}

Event(type, code) == <<[type |-> type, key_code |-> code]>>
KeyCodes == Keys \cup {get_key_code(c) : c \in Names(Keys)}
KeyEvents == [type : {"KEY_UP", "KEY_DOWN"}, key_code : KeyCodes]
ButtonEvents == [type : {"MOUSE_UP", "MOUSE_DOWN"}, key_code : Buttons \cup {0, 1}]
ClipEvents == [type : {"CLIP"}, key_code : Texts]
Events == KeyEvents \cup ButtonEvents \cup ClipEvents

Init ==
    /\ held = {} /\ pressed = {} /\ inside = TRUE /\ active = TRUE
    /\ grab = FALSE /\ modifiers = {} /\ mouse_key = 0
    /\ tcp = <<>> /\ kcp = <<>> /\ kcp_enable = FALSE
    /\ mpc = "init" /\ in_obj = FALSE
    /\ clip = "exit" /\ root_win = FALSE /\ message = FALSE
    /\ down = {} /\ buttons = {}
    /\ text = 0 /\ text_clip = 0 /\ clip_data = 0 /\ clip_len = 0
    /\ owner = FALSE /\ pushing = FALSE
    /\ inputs = 0 /\ leaves = 0 /\ restarts = 0 /\ copies = 0
    /\ unsent = {} /\ disordered = FALSE /\ dropped = FALSE
-----------------------------------------------------------------------------
(* The widget.                                                              *)

\* client_send_pkt over the transport of the moment.
Send(events) ==
    /\ IF kcp_enable THEN kcp' = kcp \o events /\ UNCHANGED tcp
                     ELSE tcp' = tcp \o events /\ UNCHANGED kcp
    /\ UNCHANGED kcp_enable

\* A digit changes its name when Shift moves while it is down.
Renamed(k) == IF k = Key_Shift THEN XKeys(held \cap {Key_1}) ELSE {}

\* keyPressEvent; Ctrl+Alt+G gives the keyboard back, with raw codes.
PressKey(k) ==
    /\ k \notin held /\ inputs < MaxInput /\ copies = 0
    /\ held' = held \cup {k} /\ inputs' = inputs + 1
    /\ IF ~grab THEN UNCHANGED <<modifiers, grab, netVars>> /\ unsent' = unsent \cup Renamed(k)
       ELSE /\ modifiers' = held' \cap Modifiers
            /\ IF k = Key_G /\ {Key_Control, Key_Alt} \subseteq modifiers'
               THEN /\ Send(Event("KEY_UP", Key_Control) \o Event("KEY_UP", Key_Alt))
                    /\ grab' = FALSE
                    /\ unsent' = unsent \cup XKeys(held \ {Key_Control})
               ELSE /\ Send(Event("KEY_DOWN", get_key_code(QtKey(k, held))))
                    /\ unsent' = unsent \cup Renamed(k) /\ UNCHANGED grab
    /\ UNCHANGED <<pressed, inside, active, mouse_key, devVars, xVars, leaves, restarts, copies, clipVars,
                   disordered, dropped>>

\* keyReleaseEvent
ReleaseKey(k) ==
    /\ k \in held /\ held' = held \ {k}
    /\ IF ~grab THEN UNCHANGED <<modifiers, netVars>>
       ELSE /\ modifiers' = held' \cap Modifiers
            /\ Send(Event("KEY_UP", get_key_code(QtKey(k, held))))
    /\ unsent' = unsent \cup Renamed(k)
    /\ UNCHANGED <<pressed, inside, active, grab, mouse_key, devVars, xVars, clipVars, boundVars,
                   disordered, dropped>>

\* mousePressEvent: one button at a time, and only inside the picture.
PressButton(b, in_picture) ==
    /\ inside /\ b \notin pressed /\ inputs < MaxInput /\ copies = 0
    /\ pressed' = pressed \cup {b} /\ inputs' = inputs + 1
    /\ IF mouse_key # 0 THEN UNCHANGED <<mouse_key, netVars>>
       ELSE /\ mouse_key' = (IF pressed' = {b} THEN b ELSE 1)
            /\ IF in_picture THEN Send(Event("MOUSE_DOWN", mouse_key')) ELSE UNCHANGED netVars
    /\ UNCHANGED <<held, inside, active, grab, modifiers, devVars, xVars, leaves, restarts, copies, clipVars,
                   histVars>>

\* Mutant: the button released is the one the user names.
ReleaseButtonNamed(b) ==
    /\ b \in pressed /\ pressed' = pressed \ {b}
    /\ Send(Event("MOUSE_UP", b)) /\ mouse_key' = 0
    /\ UNCHANGED <<held, inside, active, grab, modifiers, devVars, xVars, clipVars, boundVars,
                   histVars>>

\* mouseReleaseEvent: whichever button it is, the one pressed first is let go.
ReleaseButton(b) ==
    /\ b \in pressed /\ pressed' = pressed \ {b}
    /\ Send(Event("MOUSE_UP", mouse_key)) /\ mouse_key' = 0
    /\ UNCHANGED <<held, inside, active, grab, modifiers, devVars, xVars, clipVars, boundVars,
                   histVars>>

\* enterEvent, and _ui_grab from mouseMoveEvent and _focus_in
Enter ==
    /\ inside' = TRUE /\ grab' = TRUE
    /\ UNCHANGED <<held, pressed, active, modifiers, mouse_key, netVars, devVars, xVars,
                   clipVars, boundVars, histVars>>

\* leaveEvent gives the keyboard back and tells the server nothing.
Leave ==
    /\ inside /\ leaves < MaxLeaves + copies /\ leaves' = leaves + 1
    /\ inside' = FALSE /\ grab' = FALSE
    /\ unsent' = unsent \cup IF grab THEN XKeys(held) ELSE {}
    /\ UNCHANGED <<held, pressed, active, modifiers, mouse_key, netVars, devVars, xVars,
                   inputs, restarts, copies, clipVars, disordered, dropped>>

\* send_clip_event refuses a text that is too long.
SendClip(t) == IF t = Long THEN UNCHANGED netVars ELSE Send(Event("CLIP", t))

\* _focus_in: a text that is not the last one goes to the server.  It counts
\* as sent even if it is not.
FocusIn ==
    /\ ~active /\ active' = TRUE
    /\ grab' = (grab \/ inside)
    /\ text_clip' = text
    /\ IF text = text_clip THEN UNCHANGED netVars ELSE SendClip(text)
    /\ UNCHANGED <<held, pressed, inside, modifiers, mouse_key, devVars, xVars, text, clip_data,
                   clip_len, owner, pushing, boundVars, histVars>>

\* Bound: a user copies texts or types.
Copy(t) ==
    /\ inputs = 0 /\ copies < MaxCopies /\ copies' = copies + 1
    /\ text' = t
    /\ UNCHANGED <<userVars, widgetVars, netVars, devVars, xVars, text_clip, clip_data, clip_len,
                   owner, pushing, inputs, leaves, restarts, histVars>>

\* Mutant: the window loses the focus without a word.
RawModifiersNone == <<>>

\* The raw codes of the modifiers that are down, in this order.
RawModifiers ==
    LET Up(k) == IF k \in modifiers THEN Event("KEY_UP", k) ELSE <<>>
    IN  Up(Key_Shift) \o Up(Key_Control) \o Up(Key_Alt)

\* _focus_out
FocusOut ==
    /\ active /\ leaves < MaxLeaves + copies /\ leaves' = leaves + 1
    /\ active' = FALSE
    /\ IF ~grab THEN UNCHANGED <<grab, netVars, unsent>>
       ELSE /\ Send(RawModifiers) /\ grab' = FALSE
            /\ unsent' = unsent \cup XKeys(held \ {Key_Control})
    /\ UNCHANGED <<held, pressed, inside, modifiers, mouse_key, devVars, xVars, inputs,
                   restarts, copies, clipVars, disordered, dropped>>

\* The server has answered over KCP, or the client was told its id.
KcpEnable ==
    /\ ~kcp_enable /\ kcp_enable' = TRUE
    /\ UNCHANGED <<userVars, widgetVars, tcp, kcp, devVars, xVars, clipVars, boundVars, histVars>>
-----------------------------------------------------------------------------
(* The server.                                                              *)

\* xlib_push_key
PushKey(e) ==
    LET key == get_xkeycode(e.key_code)
    IN  /\ down' = CASE e.type = "KEY_DOWN" -> down \cup {key}
                     [] e.type = "KEY_UP"   -> down \ {key}
                     [] OTHER               -> down
        /\ buttons' = CASE e.type = "MOUSE_DOWN" -> buttons \cup {e.key_code}
                        [] e.type = "MOUSE_UP"   -> buttons \ {e.key_code}
                        [] OTHER                 -> buttons

\* xlib_push_clip, from the type and the data ...
PushClip(t) == clip_data' = t /\ pushing' = TRUE /\ UNCHANGED <<clip_len, owner>>

\* Mutant: the length of the text before stays.
PushClipEndShort ==
    /\ pushing /\ pushing' = FALSE
    /\ owner' = (owner \/ root_win)
    /\ UNCHANGED <<userVars, widgetVars, netVars, devVars, xVars, text, text_clip, clip_data,
                   clip_len, boundVars, histVars>>

\* ... to the length, which the client counted in characters, and to the
\* selection, which the window takes if the thread has made it.
PushClipEnd ==
    /\ pushing /\ pushing' = FALSE
    /\ clip_len' = clip_data
    /\ owner' = (owner \/ root_win)
    /\ UNCHANGED <<userVars, widgetVars, netVars, devVars, xVars, text, text_clip, clip_data,
                   boundVars, histVars>>

\* on_server_pkt runs under net_cb_lock, which the tear-down holds.
LockFree == mpc \notin {"release", "join", "null"} /\ ~pushing

input_push_key(e) ==
    IF in_obj /\ e.key_code # 0 THEN PushKey(e) ELSE UNCHANGED xVars

input_push_clip(t) ==
    IF in_obj THEN PushClip(t) /\ UNCHANGED <<text, text_clip>> ELSE UNCHANGED clipVars

\* on_key and on_clip
Handle(e) ==
    /\ LockFree
    /\ dropped' = (dropped \/ ~in_obj)
    /\ \/ e.type = "CLIP" /\ input_push_clip(e.key_code) /\ UNCHANGED xVars
       \/ e.type # "CLIP" /\ input_push_key(e) /\ UNCHANGED clipVars
    /\ UNCHANGED <<userVars, widgetVars, kcp_enable, devVars, boundVars, unsent>>

TcpDeliver ==
    /\ tcp # <<>> /\ Handle(Head(tcp)) /\ tcp' = Tail(tcp)
    /\ UNCHANGED <<kcp, disordered>>

KcpDeliver ==
    /\ kcp # <<>> /\ Handle(Head(kcp)) /\ kcp' = Tail(kcp)
    /\ disordered' = (disordered \/ tcp # <<>>)
    /\ UNCHANGED tcp

\* server_start: input_init makes a device with an empty clipboard and starts
\* its thread.
InitInput ==
    /\ mpc = "init" /\ mpc' = "run"
    /\ in_obj' = TRUE
    /\ clip' = "start" /\ root_win' = FALSE /\ message' = FALSE
    /\ clip_data' = 0 /\ clip_len' = 0
    /\ UNCHANGED <<userVars, widgetVars, netVars, xVars, text, text_clip, owner, pushing,
                   boundVars, histVars>>

\* A change of the settings: the capture loop ends, net_cb_lock is taken.
Restart ==
    /\ mpc = "run" /\ LockFree /\ restarts < MaxRestarts
    /\ mpc' = "release" /\ restarts' = restarts + 1
    /\ UNCHANGED <<userVars, widgetVars, netVars, in_obj, clip, root_win, message, xVars,
                   inputs, leaves, copies, clipVars, histVars>>

\* Mutant: the message is not sent.
ReleaseInputSilent ==
    /\ mpc = "release" /\ mpc' = "join"
    /\ UNCHANGED <<userVars, widgetVars, netVars, in_obj, clip, root_win, message, xVars,
                   clipVars, boundVars, histVars>>

\* xlib_dev_release sends the message to the window, which may not be there
\* yet: window 0 is then that of somebody else ...
ReleaseInput ==
    /\ mpc = "release" /\ mpc' = "join"
    /\ message' = root_win
    /\ UNCHANGED <<userVars, widgetVars, netVars, in_obj, clip, root_win, xVars, clipVars, boundVars,
                   histVars>>

\* ... joins the thread and destroys the window.
JoinClip ==
    /\ mpc = "join" /\ clip = "exit" /\ mpc' = "null"
    /\ root_win' = FALSE /\ owner' = FALSE
    /\ UNCHANGED <<userVars, widgetVars, netVars, in_obj, clip, message, xVars, text, text_clip,
                   clip_data, clip_len, pushing, boundVars, histVars>>

\* Mutant: the pointer to the released device stays.
NullInputKeeps ==
    /\ mpc = "null" /\ mpc' = "init"
    /\ UNCHANGED <<userVars, widgetVars, netVars, in_obj, clip, root_win, message, xVars,
                   clipVars, boundVars, histVars>>

\* in_obj = NULL, net_cb_lock is released, server_start begins again.
NullInput ==
    /\ mpc = "null" /\ mpc' = "init"
    /\ in_obj' = FALSE
    /\ UNCHANGED <<userVars, widgetVars, netVars, clip, root_win, message, xVars, clipVars, boundVars,
                   histVars>>

\* The clipboard thread makes its window and waits for messages to it.
ClipWindow ==
    /\ clip = "start" /\ clip' = "loop"
    /\ root_win' = TRUE
    /\ UNCHANGED <<userVars, widgetVars, netVars, mpc, in_obj, message, xVars, clipVars, boundVars,
                   histVars>>

ClipExit ==
    /\ clip = "loop" /\ message /\ clip' = "exit"
    /\ UNCHANGED <<userVars, widgetVars, netVars, mpc, in_obj, root_win, message, xVars,
                   clipVars, boundVars, histVars>>
\* Another application of the server's display takes the selection.
SelectionClear ==
    /\ clip = "loop" /\ owner /\ owner' = FALSE
    /\ UNCHANGED <<userVars, widgetVars, netVars, devVars, xVars, text, text_clip, clip_data,
                   clip_len, pushing, boundVars, histVars>>

\* What an application that asks for the selection is given.
Pasted == [data |-> clip_data, whole |-> clip_len = clip_data /\ clip_data # Wide]
-----------------------------------------------------------------------------
\* Bounds: a user who sees what is sent arrive, stops when it does not, and
\* waits while the server restarts: events on their way then meet the restart.
User ==
    /\ ~disordered /\ ~dropped
    /\ Len(IF kcp_enable THEN kcp ELSE tcp) < MaxFlight
    /\ mpc = "run" /\ root_win
    /\ \/ \E k \in Keys : PressKey(k) \/ ReleaseKey(k)
       \/ \E b \in Buttons : (\E p \in BOOLEAN : PressButton(b, p)) \/ ReleaseButton(b)
       \/ Enter \/ Leave \/ FocusIn \/ FocusOut
       \/ \E t \in Texts : Copy(t)

Main == InitInput \/ ReleaseInput \/ JoinClip \/ NullInput
Clip == ClipWindow \/ ClipExit

Next ==
    \/ User \/ KcpEnable \/ TcpDeliver \/ KcpDeliver \/ PushClipEnd
    \/ Main \/ Restart \/ Clip \/ SelectionClear

Spec == Init /\ [][Next]_vars

\* The server's main and clipboard threads run; the user, the network and
\* changes of the settings need do nothing.  Weak fairness, with the enabling
\* conditions written out.
FairSpec ==
    /\ Spec
    /\ []<>(mpc = "run" \/ (mpc = "join" /\ clip # "exit")) \/ []<><<Main>>_vars
    /\ []<>(clip = "exit" \/ (clip = "loop" /\ ~message)) \/ []<><<Clip>>_vars
-----------------------------------------------------------------------------
(* Properties.                                                              *)

UserTyped ==
    /\ held \subseteq Keys /\ pressed \subseteq Buttons
    /\ modifiers \subseteq Keys \cap Modifiers /\ mouse_key \in Buttons \cup {0, 1}
    /\ inside \in BOOLEAN /\ active \in BOOLEAN /\ grab \in BOOLEAN
    /\ unsent \subseteq XKeys(Keys)

NetTyped ==
    /\ tcp \in Seq(Events) /\ kcp \in Seq(Events) /\ kcp_enable \in BOOLEAN
    /\ disordered \in BOOLEAN /\ dropped \in BOOLEAN

DevTyped ==
    /\ mpc \in {"init", "run", "release", "join", "null"}
    /\ clip \in {"start", "loop", "exit"}
    /\ in_obj \in BOOLEAN /\ root_win \in BOOLEAN /\ message \in BOOLEAN
    /\ in_obj <=> mpc # "init"
    /\ down \subseteq XKeys(Keys) \cup {XK_Control_L}
    /\ buttons \subseteq Buttons \cup {1}

ClipTyped ==
    /\ {text, text_clip, clip_data, clip_len} \subseteq Texts \cup {0}
    /\ owner \in BOOLEAN /\ pushing \in BOOLEAN /\ (pushing => in_obj)

TypeOK == UserTyped /\ NetTyped /\ DevTyped /\ ClipTyped

\* When every event has arrived, a key is down at the server only if the user
\* holds it, or if its release was not sent: the widget lost the keyboard while
\* it was down, or it changed its name.  Control is always let go when the focus
\* or the keyboard is given away, if only because raw codes mean Control.  A
\* button is down only if the widget believes so.  All this as long as no event
\* overtook another or found no device.
NothingStuck ==
    tcp = <<>> /\ kcp = <<>> /\ ~disordered /\ ~dropped
        => /\ down \subseteq XKeys(held) \cup unsent
           /\ buttons \subseteq {mouse_key}

\* When nothing is on its way and the device still owns the selection, it gives
\* the text the widget sent last, and no older one, nor a new text cut to the
\* length of an old one: but one with wide characters lacks its end, and one
\* that is too long leaves its predecessor there.
PasteCurrent ==
    tcp = <<>> /\ kcp = <<>> /\ ~pushing /\ ~disordered /\ ~dropped
    /\ owner /\ text_clip # Long
        => Pasted = [data |-> text_clip, whole |-> text_clip = Plain]

\* A device that is released is gone in the end, and the server goes on: if
\* the clipboard thread has its window by then.  If not, the message that ends
\* it is lost and the server hangs.
ReleaseEnds == mpc = "release" /\ root_win ~> mpc = "run"
=============================================================================
