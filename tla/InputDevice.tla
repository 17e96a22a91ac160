----------------------------- MODULE InputDevice ----------------------------
(***************************************************************************)
(* Mouse buttons and keys of src/sunshine/input.cpp.  Every session sends  *)
(* packets, which the one worker of the task pool handles in order; so are *)
(* the delayed release of the left button, the repetition of a key and the *)
(* task of reset().  reset() itself runs on the thread that joins the      *)
(* session and cancels timers while others may be handled.  What is        *)
(* pressed is kept for the whole host, the delay for each session.         *)
(* A timer is known by its address, which may be used again as soon as the *)
(* timer has run or been cancelled.  Times are left out: a timer that is   *)
(* pending may run at any moment.  So are the modifiers of a session: a    *)
(* key may be taken for a shortcut at any moment.  Moves change nothing    *)
(* but the delay.  Of the buttons that mouse_press has a place for there   *)
(* are two, and one of those it has none for, which the host takes all the *)
(* same (5, and every other number, for which the host presses 5).         *)
(***************************************************************************)
EXTENDS Integers

CONSTANTS
    Sessions,      \* the clients' input_t
    Leaving,       \* those that may be joined; bounds the calls of reset()
    Keys,          \* key codes
    Binding,       \* map_keycode()
    Ids,           \* the addresses of timers; bounds how many may be pending
    Nil            \* no timer

ASSUME LeavingAssumption == Leaving \subseteq Sessions
ASSUME BindingAssumption == Binding \in [Keys -> Keys]
ASSUME IdsAssumption == Nil \notin Ids /\ {"enable", "disable"} \cap Ids = {}

VARIABLES
    mousePress,   \* mouse_press
    keyPress,     \* the keys that key_press maps to true
    keySeen,      \* the keys in key_press
    hostButtons,  \* the buttons and
    hostKeys,     \* the keys that are down on the host
    timer,        \* what is pending at each address
    repeatId,     \* key_press_repeat_id
    timeout,      \* mouse_left_button_timeout of each session
    phase,        \* how far each session is in reset()
    read,         \* the address that its reset() is about to pass to cancel()
    cut           \* history: the last delayed release was cancelled

mouse == <<mousePress, hostButtons, timeout, cut>>
keyboard == <<keyPress, keySeen, hostKeys, repeatId>>
vars == <<mouse, keyboard, timer, phase, read>>

Buttons == {"left", "right", "extra"}

\* button > 0 && button < mouse_press.size()
Recorded == {"left", "right"}
Release == {"release"} \X Sessions
Repeat == {"repeat"} \X Keys

ASSUME NilAssumption == Nil \notin Release \cup Repeat

Pending(S) == {i \in Ids : timer[i] \in S}
Free == {i \in Ids : timer[i] = Nil}

Init ==
    /\ mousePress = {} /\ hostButtons = {}
    /\ keyPress = {} /\ keySeen = {} /\ hostKeys = {}
    /\ timer = [i \in Ids |-> Nil]
    /\ repeatId = Nil
    /\ timeout = [s \in Sessions |-> "enable"]
    /\ phase = [s \in Sessions |-> "live"]
    /\ read = [s \in Sessions |-> Nil]
    /\ cut = FALSE
-----------------------------------------------------------------------------
(* The conditions and updates a bug would get wrong, each preceded by the  *)
(* mutant that does.                                                       *)

RightKept(b) == mousePress \cup {b}
AfterClick(b) == mousePress

HeldOnly == "left" \in mousePress
NotPressedAgain == "left" \notin mousePress

StillPressed(k) == k \in keyPress

Nothing == Nil
Superseded == repeatId

\* task_pool.cancel(): whatever is pending at the address, if anything is
Cancelled(i) == [j \in Ids |-> IF j = i THEN Nil ELSE timer[j]]
-----------------------------------------------------------------------------
CutsRelease(i) == i \in Ids /\ timer[i] \in Release
Cut(i) == cut' = (cut \/ CutsRelease(i))

\* A packet is handled for a session until the task of its reset() has run.
Handles(s) == phase[s] # "gone" /\ UNCHANGED <<phase, read>>

MoveRel(s) ==
    /\ Handles(s)
    /\ timeout' = [timeout EXCEPT ![s] = "disable"]
    /\ UNCHANGED <<mousePress, hostButtons, cut, keyboard, timer>>

MoveAbs(s) ==
    /\ Handles(s) /\ timeout[s] = "disable"
    /\ timeout' = [timeout EXCEPT ![s] = "enable"]
    /\ UNCHANGED <<mousePress, hostButtons, cut, keyboard, timer>>

Press(s, b) ==
    /\ Handles(s) /\ b \notin mousePress
    /\ ~(b = "right" /\ timeout[s] \in Ids)
    /\ mousePress' = mousePress \cup ({b} \cap Recorded)
    /\ hostButtons' = hostButtons \cup {b}
    /\ UNCHANGED <<timeout, cut, keyboard, timer>>

\* With a delayed release, pending or past, the right button is clicked at once.
ClickRight(s) ==
    /\ Handles(s) /\ "right" \notin mousePress
    /\ timeout[s] \in Ids
    /\ mousePress' = AfterClick("right")
    /\ hostButtons' = hostButtons \ {"right"}
    /\ UNCHANGED <<timeout, cut, keyboard, timer>>

ReleaseNow(s, b) ==
    /\ Handles(s) /\ (b \in Recorded => b \in mousePress)
    /\ ~(b = "left" /\ timeout[s] = "enable")
    /\ mousePress' = mousePress \ {b}
    /\ hostButtons' = hostButtons \ {b}
    /\ cut' = (cut /\ b # "left")
    /\ UNCHANGED <<timeout, keyboard, timer>>

ReleaseLater(s, i) ==
    /\ Handles(s) /\ "left" \in mousePress /\ timeout[s] = "enable"
    /\ i \in Free
    /\ mousePress' = mousePress \ {"left"}
    /\ timer' = [timer EXCEPT ![i] = <<"release", s>>]
    /\ timeout' = [timeout EXCEPT ![s] = i]
    /\ cut' = FALSE
    /\ UNCHANGED <<hostButtons, keyboard>>

\* The delayed release runs, and does nothing when the button is pressed again.
ReleaseTimer(i) ==
    \E s \in Sessions :
        /\ timer[i] = <<"release", s>>
        /\ timer' = [timer EXCEPT ![i] = Nil]
        /\ IF NotPressedAgain
           THEN /\ hostButtons' = hostButtons \ {"left"}
                /\ timeout' = [timeout EXCEPT ![s] = "enable"]
                /\ cut' = FALSE
           ELSE UNCHANGED <<hostButtons, timeout, cut>>
        /\ UNCHANGED <<mousePress, keyboard, phase, read>>
-----------------------------------------------------------------------------
\* A key is pressed: its repetition takes the place of the one that is pending.
KeyPress(s, k, i) ==
    /\ Handles(s) /\ k \notin keyPress
    /\ Cancelled(Superseded)[i] = Nil
    /\ timer' = [Cancelled(Superseded) EXCEPT ![i] = <<"repeat", k>>]
    /\ Cut(Superseded)
    /\ repeatId' = i
    /\ keyPress' = keyPress \cup {k}
    /\ keySeen' = keySeen \cup {k}
    /\ hostKeys' = hostKeys \cup {Binding[k]}
    /\ UNCHANGED <<mousePress, hostButtons, timeout>>

\* A shortcut is not passed on, and the release of a key that is not pressed neither.
KeyIgnored(s, k) ==
    /\ Handles(s) /\ k \notin keyPress
    /\ keySeen' = keySeen \cup {k}
    /\ UNCHANGED <<mouse, keyPress, hostKeys, repeatId, timer>>

KeyRelease(s, k) ==
    /\ Handles(s) /\ k \in keyPress
    /\ keyPress' = keyPress \ {k}
    /\ hostKeys' = hostKeys \ {Binding[k]}
    /\ UNCHANGED <<mouse, keySeen, repeatId, timer>>

\* repeat_key(), whose own timer is freed when it returns
RepeatKey(i) ==
    \E k \in Keys :
        /\ timer[i] = <<"repeat", k>>
        /\ \/ /\ StillPressed(k)
              /\ \E j \in Free :
                    /\ timer' = [timer EXCEPT ![i] = Nil, ![j] = <<"repeat", k>>]
                    /\ repeatId' = j
              /\ hostKeys' = hostKeys \cup {Binding[k]}
           \/ /\ ~StillPressed(k)
              /\ timer' = [timer EXCEPT ![i] = Nil]
              /\ repeatId' = Nil
              /\ UNCHANGED hostKeys
        /\ UNCHANGED <<mouse, keyPress, keySeen, phase, read>>
-----------------------------------------------------------------------------
\* reset(): two addresses are read without a lock, each is then cancelled, and
\* with the second step of the second a task is pushed ...
ReadTimer(s, from, to, i) ==
    /\ phase[s] = from
    /\ phase' = [phase EXCEPT ![s] = to]
    /\ read' = [read EXCEPT ![s] = i]
    /\ UNCHANGED <<mouse, keyboard, timer>>

CancelTimer(s, from, to) ==
    /\ phase[s] = from
    /\ phase' = [phase EXCEPT ![s] = to]
    /\ timer' = Cancelled(read[s])
    /\ Cut(read[s])
    /\ read' = [read EXCEPT ![s] = Nil]
    /\ UNCHANGED <<mousePress, hostButtons, timeout, keyboard>>

Reset(s) ==
    \/ ReadTimer(s, "live", "repeat", repeatId)
    \/ CancelTimer(s, "repeat", "between")
    \/ ReadTimer(s, "between", "left", timeout[s])
    \/ CancelTimer(s, "left", "pushed")

\* ... which releases what is pressed: keys by their own codes, not the mapped ones.
ResetAll(s) ==
    /\ phase[s] = "pushed"
    /\ phase' = [phase EXCEPT ![s] = "gone"]
    /\ hostButtons' = hostButtons \ mousePress
    /\ mousePress' = {}
    /\ hostKeys' = hostKeys \ keySeen
    /\ keyPress' = {}
    /\ cut' = (cut /\ "left" \notin mousePress)
    /\ UNCHANGED <<timeout, keySeen, repeatId, timer, read>>

Packet(s) ==
    \/ MoveRel(s) \/ MoveAbs(s)
    \/ \E b \in Buttons : Press(s, b) \/ ReleaseNow(s, b)
    \/ ClickRight(s)
    \/ \E i \in Ids : ReleaseLater(s, i)
    \/ \E k \in Keys : KeyIgnored(s, k) \/ KeyRelease(s, k) \/ \E i \in Ids : KeyPress(s, k, i)

Timer(i) == ReleaseTimer(i) \/ RepeatKey(i)

Next ==
    \/ \E s \in Sessions : Packet(s)
    \/ \E s \in Leaving : Reset(s) \/ ResetAll(s)
    \/ \E i \in Ids : Timer(i)

\* The worker of the pool runs timers that are due.
Spec == Init /\ [][Next]_vars /\ \A i \in Ids : WF_vars(ReleaseTimer(i))
-----------------------------------------------------------------------------
(* Properties                                                              *)

\* The type of every variable.
TypeOK ==
    /\ mousePress \subseteq Recorded /\ hostButtons \subseteq Buttons
    /\ keyPress \subseteq keySeen /\ keySeen \subseteq Keys /\ hostKeys \subseteq Keys
    /\ timer \in [Ids -> Release \cup Repeat \cup {Nil}]
    /\ repeatId \in Ids \cup {Nil}
    /\ timeout \in [Sessions -> Ids \cup {"enable", "disable"}]
    /\ phase \in [Sessions -> {"live", "repeat", "between", "left", "pushed", "gone"}]
    /\ read \in [Sessions -> Ids \cup {Nil, "enable", "disable"}]
    /\ cut \in BOOLEAN

\* Of the buttons that are recorded, mouse_press and the host may differ only in the left
\* one, and only while a delayed release is pending or after one has been cancelled by
\* reset() or through an address that was used again. (Of the others nothing is known,
\* and reset() does not release them.)
HeldButtonsAreKnown ==
    /\ mousePress \subseteq hostButtons
    /\ \A b \in Recorded \cap (hostButtons \ mousePress) :
          b = "left" /\ (cut \/ Pending(Release) # {})

\* A key is held on the host only for a key that is pressed, or after reset()
\* has released a key that is bound to another by its own code.
HeldKeysAreKnown ==
    \A h \in hostKeys :
        \/ \E k \in keyPress : Binding[k] = h
        \/ \E k \in keySeen : Binding[k] = h /\ k # h

\* Whatever the host holds of keys and recorded buttons, somebody knows of it and can let
\* it go.
WhatIsHeldIsKnown == TypeOK /\ HeldButtonsAreKnown /\ HeldKeysAreKnown

\* At most one key is repeated, and key_press_repeat_id is its timer: a newly
\* pressed key ends the repetition of the one before, whatever was reset or
\* released in between.
OneRepeat == Pending(Repeat) \subseteq {repeatId}

\* A left button that the client has let go is released on the host in the end,
\* unless it is pressed again or the release was cancelled.
LeftIsReleased ==
    "left" \in hostButtons \ mousePress ~> "left" \notin hostButtons \ mousePress \/ cut
=============================================================================
