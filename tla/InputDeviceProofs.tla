-------------------------- MODULE InputDeviceProofs -------------------------
(* What TLAPS proves of InputDevice, for any sessions, keys, bindings and  *)
(* addresses.  The four properties together are inductive.                 *)
EXTENDS InputDevice, TLAPS

IInv == TypeOK /\ HeldButtonsAreKnown /\ HeldKeysAreKnown /\ OneRepeat

-----------------------------------------------------------------------------
(* task_pool.cancel() frees at most its own address, and task_pool.push-   *)
(* Delayed() fills one that is free.                                       *)
LEMMA CancelledType ==
    ASSUME TypeOK, NEW i
    PROVE  Cancelled(i) \in [Ids -> Release \cup Repeat \cup {Nil}]
BY DEF TypeOK, Cancelled

\* Nothing is pressed and no timer is pending when the server starts.
LEMMA InitEstablishes == Init => IInv
<1> SUFFICES ASSUME Init PROVE IInv
    OBVIOUS
<1>1. TypeOK
    <2>1. cut \in BOOLEAN
        BY Zenon DEF Init
    <2> QED BY <2>1 DEF Init, TypeOK
<1>2. HeldButtonsAreKnown /\ HeldKeysAreKnown
    BY DEF Init, HeldButtonsAreKnown, HeldKeysAreKnown
<1>3. OneRepeat
    BY NilAssumption DEF Init, OneRepeat, Pending, Repeat
<1> QED BY <1>1, <1>2, <1>3 DEF IInv

\* The mouse moves and packets that change nothing but what is known of keys.
LEMMA MovesPreserve ==
    ASSUME IInv, NEW s \in Sessions, MoveRel(s) \/ MoveAbs(s)
    PROVE  IInv'
<1> USE DEF IInv, MoveRel, MoveAbs, Handles, keyboard
<1>1. (cut \in BOOLEAN)'
    BY Zenon DEF TypeOK
<1>2. TypeOK'
    BY <1>1 DEF TypeOK
<1>3. HeldButtonsAreKnown' /\ HeldKeysAreKnown' /\ OneRepeat'
    BY DEF HeldButtonsAreKnown, HeldKeysAreKnown, OneRepeat, Pending
<1> QED BY <1>2, <1>3

\* A button that is pressed, clicked or released at once.
LEMMA ButtonsPreserve ==
    ASSUME IInv, NEW s \in Sessions, NEW b \in Buttons,
           Press(s, b) \/ ReleaseNow(s, b) \/ ClickRight(s)
    PROVE  IInv'
<1> USE DEF IInv, Press, ReleaseNow, ClickRight, AfterClick, Handles, keyboard
<1>1. (cut \in BOOLEAN)'
    BY Zenon DEF TypeOK
<1>2. TypeOK'
    BY <1>1 DEF TypeOK, Buttons, Recorded
<1>3. HeldButtonsAreKnown'
    <2>1. CASE Press(s, b)
        BY <2>1 DEF HeldButtonsAreKnown, Pending, Buttons, Recorded, TypeOK
    <2>2. CASE ReleaseNow(s, b) /\ b = "left"
        BY <2>2 DEF HeldButtonsAreKnown, Pending, Buttons, Recorded, TypeOK
    <2>3. CASE ReleaseNow(s, b) /\ b # "left"
        BY <2>3 DEF HeldButtonsAreKnown, Pending, Buttons, Recorded, TypeOK
    <2>4. CASE ClickRight(s)
        BY <2>4 DEF HeldButtonsAreKnown, Pending, Buttons, Recorded, TypeOK
    <2> QED BY <2>1, <2>2, <2>3, <2>4
<1>4. HeldKeysAreKnown' /\ OneRepeat'
    BY DEF HeldKeysAreKnown, OneRepeat, Pending
<1> QED BY <1>2, <1>3, <1>4

\* A left button that is released later leaves a timer behind.
LEMMA ReleaseLaterPreserves ==
    ASSUME IInv, NEW s \in Sessions, NEW i \in Ids, ReleaseLater(s, i)
    PROVE  IInv'
<1> USE DEF IInv, ReleaseLater, Handles, keyboard, Free, Release
<1>1. (cut \in BOOLEAN)'
    BY Zenon DEF TypeOK
<1>2. TypeOK'
    BY <1>1 DEF TypeOK
<1>3. i \in Pending(Release)'
    BY DEF Pending, TypeOK
<1>4. HeldButtonsAreKnown'
    BY <1>3 DEF HeldButtonsAreKnown, TypeOK
<1>5. HeldKeysAreKnown'
    BY DEF HeldKeysAreKnown
<1>6. OneRepeat'
    BY DEF OneRepeat, Pending, Repeat, TypeOK
<1> QED BY <1>2, <1>4, <1>5, <1>6

\* The delayed release runs: nothing is owed when the button is down again.
LEMMA ReleaseTimerPreserves ==
    ASSUME IInv, NEW i \in Ids, ReleaseTimer(i)
    PROVE  IInv'
<1> USE DEF IInv, ReleaseTimer, keyboard, NotPressedAgain
<1>1. (cut \in BOOLEAN)'
    BY Zenon DEF TypeOK
<1>2. TypeOK'
    BY <1>1 DEF TypeOK
<1>3. HeldButtonsAreKnown'
    <2>1. CASE "left" \in mousePress
        BY <2>1 DEF HeldButtonsAreKnown
    <2>2. CASE "left" \notin mousePress
        BY <2>2 DEF HeldButtonsAreKnown
    <2> QED BY <2>1, <2>2
<1>4. HeldKeysAreKnown'
    BY DEF HeldKeysAreKnown
<1>5. OneRepeat'
    BY NilAssumption DEF OneRepeat, Pending, Repeat, TypeOK
<1> QED BY <1>2, <1>3, <1>4, <1>5

\* A key is pressed: the repetition that it cancels is the only one.
LEMMA KeyPressPreserves ==
    ASSUME IInv, NEW s \in Sessions, NEW k \in Keys, NEW i \in Ids, KeyPress(s, k, i)
    PROVE  IInv'
<1> USE DEF IInv, KeyPress, Handles, Superseded
<1>1. (cut \in BOOLEAN)'
    BY Zenon DEF TypeOK, Cut, CutsRelease
<1>2. Cancelled(repeatId) \in [Ids -> Release \cup Repeat \cup {Nil}]
    BY CancelledType
<1>3. TypeOK'
    BY <1>1, <1>2, BindingAssumption DEF TypeOK, Repeat
<1>4. HeldButtonsAreKnown'
    <2>1. cut' \/ Pending(Release) \subseteq Pending(Release)'
        BY <1>2, NilAssumption DEF Cut, CutsRelease, Pending, Cancelled, TypeOK
    <2>2. cut => cut'
        BY DEF Cut
    <2> QED BY <2>1, <2>2 DEF HeldButtonsAreKnown
<1>5. HeldKeysAreKnown'
    BY DEF HeldKeysAreKnown
<1>6. OneRepeat'
    BY <1>2, NilAssumption DEF OneRepeat, Pending, Repeat, Cancelled, TypeOK
<1> QED BY <1>3, <1>4, <1>5, <1>6

\* A key is let go, or its packet changes nothing.
LEMMA KeyReleasePreserves ==
    ASSUME IInv, NEW s \in Sessions, NEW k \in Keys, KeyRelease(s, k) \/ KeyIgnored(s, k)
    PROVE  IInv'
<1> USE DEF IInv, KeyRelease, KeyIgnored, Handles, mouse
<1>1. (cut \in BOOLEAN)'
    BY Zenon DEF TypeOK
<1>2. TypeOK'
    BY <1>1 DEF TypeOK
<1>3. HeldButtonsAreKnown' /\ OneRepeat'
    BY DEF HeldButtonsAreKnown, OneRepeat, Pending
<1>4. HeldKeysAreKnown'
    <2>1. CASE KeyRelease(s, k)
        BY <2>1 DEF HeldKeysAreKnown
    <2>2. CASE KeyIgnored(s, k)
        BY <2>2 DEF HeldKeysAreKnown
    <2> QED BY <2>1, <2>2
<1> QED BY <1>2, <1>3, <1>4

\* A key is repeated, or its repetition ends.
LEMMA RepeatKeyPreserves ==
    ASSUME IInv, NEW i \in Ids, RepeatKey(i)
    PROVE  IInv'
<1> USE DEF IInv, mouse
<1> PICK k \in Keys :
        /\ timer[i] = <<"repeat", k>>
        /\ \/ /\ k \in keyPress
              /\ \E j \in Free :
                    /\ timer' = [timer EXCEPT ![i] = Nil, ![j] = <<"repeat", k>>]
                    /\ repeatId' = j
              /\ hostKeys' = hostKeys \cup {Binding[k]}
           \/ /\ k \notin keyPress
              /\ timer' = [timer EXCEPT ![i] = Nil]
              /\ repeatId' = Nil
              /\ UNCHANGED hostKeys
        /\ UNCHANGED <<mouse, keyPress, keySeen, phase, read>>
    BY DEF RepeatKey, StillPressed
<1>1. (cut \in BOOLEAN)'
    BY Zenon DEF TypeOK
<1>2. TypeOK'
    BY <1>1, BindingAssumption DEF TypeOK, Repeat, Free
<1>3. Pending(Release) \subseteq Pending(Release)'
    BY NilAssumption DEF Pending, Release, Free, TypeOK
<1>4. HeldButtonsAreKnown'
    BY <1>3 DEF HeldButtonsAreKnown
<1>5. HeldKeysAreKnown'
    BY DEF HeldKeysAreKnown
<1>6. repeatId = i
    <2>1. <<"repeat", k>> \in Repeat
        BY DEF Repeat
    <2> QED BY <2>1 DEF OneRepeat, Pending
<1>7. OneRepeat'
    BY <1>6, NilAssumption DEF OneRepeat, Pending, Repeat, Free, TypeOK
<1> QED BY <1>2, <1>4, <1>5, <1>7

\* reset() reads and cancels timers, whichever they have become.
LEMMA ResetPreserves ==
    ASSUME IInv, NEW s \in Leaving, Reset(s)
    PROVE  IInv'
<1> USE DEF IInv, mouse, keyboard
<1> s \in Sessions
    BY LeavingAssumption
<1>1. ASSUME NEW from, NEW to \in {"repeat", "left"},
             NEW a \in Ids \cup {Nil, "enable", "disable"}, ReadTimer(s, from, to, a)
      PROVE  IInv'
    <2>1. (cut \in BOOLEAN)'
        BY <1>1, Zenon DEF TypeOK, ReadTimer
    <2>2. TypeOK'
        BY <1>1, <2>1 DEF TypeOK, ReadTimer
    <2>3. HeldButtonsAreKnown' /\ HeldKeysAreKnown' /\ OneRepeat'
        BY <1>1 DEF HeldButtonsAreKnown, HeldKeysAreKnown, OneRepeat, Pending, ReadTimer
    <2> QED BY <2>2, <2>3
<1>2. ASSUME NEW from, NEW to \in {"between", "pushed"}, CancelTimer(s, from, to)
      PROVE  IInv'
    <2> USE <1>2 DEF CancelTimer
    <2>1. (cut \in BOOLEAN)'
        BY Zenon DEF TypeOK, Cut, CutsRelease
    <2>2. Cancelled(read[s]) \in [Ids -> Release \cup Repeat \cup {Nil}]
        BY CancelledType
    <2>3. TypeOK'
        BY <2>1, <2>2 DEF TypeOK
    <2>4. HeldButtonsAreKnown'
        <3>1. cut' \/ Pending(Release) \subseteq Pending(Release)'
            BY <2>2 DEF Cut, CutsRelease, Pending, Cancelled, TypeOK
        <3>2. cut => cut'
            BY DEF Cut
        <3> QED BY <3>1, <3>2 DEF HeldButtonsAreKnown
    <2>5. HeldKeysAreKnown'
        BY DEF HeldKeysAreKnown
    <2>6. OneRepeat'
        BY <2>2, NilAssumption DEF OneRepeat, Pending, Repeat, Cancelled, TypeOK
    <2> QED BY <2>3, <2>4, <2>5, <2>6
<1>3. repeatId \in Ids \cup {Nil} /\ timeout[s] \in Ids \cup {"enable", "disable"}
    BY DEF TypeOK
<1> QED BY <1>1, <1>2, <1>3 DEF Reset

\* The task of reset() releases whatever is recorded as pressed.
LEMMA ResetAllPreserves ==
    ASSUME IInv, NEW s \in Leaving, ResetAll(s)
    PROVE  IInv'
<1> USE DEF IInv, ResetAll
<1>1. (cut \in BOOLEAN)'
    BY Zenon DEF TypeOK
<1>2. TypeOK'
    BY <1>1, LeavingAssumption DEF TypeOK
<1>3. HeldButtonsAreKnown'
    BY DEF HeldButtonsAreKnown, Pending
<1>4. HeldKeysAreKnown'
    BY DEF HeldKeysAreKnown, TypeOK
<1>5. OneRepeat'
    BY DEF OneRepeat, Pending
<1> QED BY <1>2, <1>3, <1>4, <1>5

\* Every step preserves the four properties.
LEMMA NextPreserves == IInv /\ [Next]_vars => IInv'
<1> SUFFICES ASSUME IInv, [Next]_vars PROVE IInv'
    OBVIOUS
<1>1. ASSUME NEW s \in Sessions, Packet(s) PROVE IInv'
    BY <1>1, MovesPreserve, ButtonsPreserve, ReleaseLaterPreserves,
       KeyPressPreserves, KeyReleasePreserves DEF Packet, Buttons
<1>2. ASSUME NEW s \in Leaving, Reset(s) \/ ResetAll(s) PROVE IInv'
    BY <1>2, ResetPreserves, ResetAllPreserves
<1>3. ASSUME NEW i \in Ids, Timer(i) PROVE IInv'
    BY <1>3, ReleaseTimerPreserves, RepeatKeyPreserves DEF Timer
<1>4. CASE UNCHANGED vars
    <2> USE <1>4 DEF IInv, vars, mouse, keyboard
    <2>1. (cut \in BOOLEAN)'
        BY Zenon DEF TypeOK
    <2>2. TypeOK'
        BY <2>1 DEF TypeOK
    <2> QED BY <2>2 DEF HeldButtonsAreKnown, HeldKeysAreKnown, OneRepeat, Pending
<1> QED BY <1>1, <1>2, <1>3, <1>4 DEF Next

-----------------------------------------------------------------------------
(* The invariant of input.cpp, whatever the order of packets, timers and   *)
(* reset(), and whichever addresses are used again.                        *)
THEOREM Invariance == Spec => []IInv
<1> QED BY InitEstablishes, NextPreserves, PTL DEF Spec

\* Every variable of input.cpp keeps its type.
THEOREM TypeCorrect == Spec => []TypeOK
<1>1. IInv => TypeOK
    BY DEF IInv
<1> QED BY <1>1, Invariance, PTL

\* mouse_press and the host agree on the buttons that it has a place for (input.cpp:306),
\* but for a left one whose delayed release is pending or was cancelled, and the host holds no key but those that are
\* pressed, or that reset() released by a code that is bound to another.
THEOREM HeldIsKnown == Spec => []WhatIsHeldIsKnown
<1>1. IInv => WhatIsHeldIsKnown
    BY DEF IInv, WhatIsHeldIsKnown
<1> QED BY <1>1, Invariance, PTL

\* repeat_key() is pending at most once, where key_press_repeat_id says.
THEOREM RepeatsOnce == Spec => []OneRepeat
<1>1. IInv => OneRepeat
    BY DEF IInv
<1> QED BY <1>1, Invariance, PTL
=============================================================================
