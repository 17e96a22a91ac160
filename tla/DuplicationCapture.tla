-------------------------- MODULE DuplicationCapture --------------------------
(***************************************************************************)
(* Duplicating a desktop of Windows (display_base.cpp, display_ram.cpp,    *)
(* display_vram.cpp).  DXGI tells once what is new, the picture, the place *)
(* of the pointer or its shape, and the display puts the image together    *)
(* from that and from what it was told before.                             *)
(***************************************************************************)
EXTENDS Integers, Sequences

CONSTANTS
    Width, PointerWidth,   \* of the desktop, and of the pointer
    Places, Shapes,        \* of the pointer; a shape is its pixels, row by row
    Columns,               \* of a shape
    MaxChanges,            \* bound on what happens on the desktop
    Nil

VARIABLES
    kind,         \* "ram" or "vram"
    attached,     \* the output belongs to the desktop
    lost,         \* the desktop has been switched: every call says so
    acquired,     \* DXGI has given a frame that has not come back
    news,         \* what the next frame tells
    desktop,      \* its picture and its pointer
    wanted,       \* *cursor: clients want the pointer
    disp,         \* the display: what it knows, or Nil
    hasFrame,     \* duplication_t::has_frame
    shown,        \* the image that was delivered last, or Nil
    hidden,       \* history: the pointer was hidden, or not wanted any more, without a new image
    changes

vars == <<kind, attached, lost, acquired, news, desktop, wanted, disp, hasFrame, shown, hidden,
          changes>>
host == <<kind, attached, lost, desktop, wanted, changes>>

Everything == {"picture", "place", "shape"}
Init ==
    /\ kind \in {"ram", "vram"} /\ attached = TRUE /\ lost = FALSE /\ acquired = FALSE /\ news = {}
    /\ desktop \in [picture : {0}, place : Places, visible : BOOLEAN, shape : Shapes]
    /\ wanted = TRUE /\ disp = Nil /\ hasFrame = FALSE /\ shown = Nil /\ hidden = FALSE /\ changes = 0

-----------------------------------------------------------------------------
(* The desktop.                                                            *)

Happens(d, n) ==
    /\ changes < MaxChanges /\ changes' = changes + 1 /\ desktop' = d
    /\ news' = IF disp = Nil THEN news ELSE news \cup {n}
    /\ UNCHANGED <<kind, attached, lost, acquired, wanted, disp, hasFrame, shown, hidden>>
Scene(picture, place, visible, shape) ==
    [picture |-> picture, place |-> place, visible |-> visible, shape |-> shape]
Present ==
    Happens(Scene(desktop.picture + 1, desktop.place, desktop.visible, desktop.shape), "picture")
Move(x, v) == Happens(Scene(desktop.picture, x, v, desktop.shape), "place")
Shape(s) == Happens(Scene(desktop.picture, desktop.place, desktop.visible, s), "shape")
Switch(a) ==
    /\ changes < MaxChanges /\ changes' = changes + 1 /\ attached' = a /\ lost' = (disp # Nil)
    /\ UNCHANGED <<kind, acquired, news, desktop, wanted, disp, hasFrame, shown, hidden>>
\* A client asks for its pointer to be shown, or not.
Toggle ==
    /\ changes < MaxChanges /\ changes' = changes + 1 /\ wanted' = ~wanted /\ hidden' = TRUE
    /\ UNCHANGED <<kind, attached, lost, acquired, news, desktop, disp, hasFrame, shown>>

-----------------------------------------------------------------------------
(* The display.                                                            *)

\* display_base_t::init(): an output of that name must belong to the desktop.  The first frame
\* of a duplication tells everything.
Located == attached
Known(picture, place, visible, shape, over) ==
    [picture |-> picture, place |-> place, visible |-> visible, shape |-> shape, over |-> over]
Over == disp' = Known(disp.picture, disp.place, disp.visible, disp.shape, TRUE)   \* capture() returns
Blank == Known(Nil, 0, FALSE, Nil, FALSE)
OpenDisplay ==
    /\ disp = Nil /\ Located /\ disp' = Blank /\ lost' = FALSE /\ news' = Everything
    /\ hasFrame' = FALSE
    /\ UNCHANGED <<kind, attached, acquired, desktop, wanted, shown, hidden, changes>>

\* release_frame(), before the next frame and in ~duplication_t(): DXGI keeps the frame if it
\* answers with a timeout or an unknown error.
ReleaseFrame(answer) ==
    /\ disp # Nil /\ hasFrame /\ (answer = "lost") = lost
    /\ acquired' = (answer \in {"timeout", "error"})
    /\ hasFrame' = (answer \in {"timeout", "error"})
    /\ IF answer \in {"lost", "error"} THEN Over ELSE UNCHANGED disp
    /\ UNCHANGED <<host, news, shown, hidden>>
CloseDisplay ==
    /\ disp # Nil /\ disp' = Nil /\ acquired' = FALSE /\ hasFrame' = FALSE /\ news' = {}
    /\ UNCHANGED <<host, shown, hidden>>

\* next_frame() without a frame
Idle == disp # Nil /\ ~disp.over /\ ~hasFrame
NoFrame ==
    /\ Idle /\ (lost \/ news = {}) /\ IF lost THEN Over ELSE UNCHANGED disp
    /\ UNCHANGED <<host, news, acquired, hasFrame, shown, hidden>>

\* snapshot(), both: what is told replaces what is known.  The one of the graphics card
\* makes the cursor visible when it moves, if clients want it then, the other when it makes
\* an image.
Told(n) ==
    Known(IF "picture" \in n THEN desktop.picture ELSE disp.picture,
          IF "place" \in n THEN desktop.place ELSE disp.place,
          IF "place" \in n THEN desktop.visible /\ (kind = "vram" => wanted) ELSE disp.visible,
          IF "shape" \in n THEN desktop.shape ELSE disp.shape,
          FALSE)
Pointed(n) == Told(n).visible /\ (kind = "ram" => wanted)
Updates(n) == "picture" \in n \/ (n # {} /\ (kind = "ram" => Pointed(n)))
AcquireFrame == Idle /\ ~lost /\ acquired' = TRUE /\ hasFrame' = TRUE /\ news' = {}
Snapshot ==
    /\ AcquireFrame /\ disp' = Told(news)
    /\ IF Updates(news)
       THEN /\ shown' = Known(disp'.picture, disp'.place, Pointed(news), disp'.shape, FALSE)
            /\ hidden' = (hidden /\ kind = "vram" /\ "place" \notin news)
       ELSE UNCHANGED shown /\ hidden' = (hidden \/ (kind = "ram" /\ news # {}))
    /\ UNCHANGED host
\* A call of Direct3D fails.
SnapshotFails == AcquireFrame /\ Over /\ UNCHANGED <<host, shown, hidden>>

-----------------------------------------------------------------------------
(* blend_cursor_color(), in one dimension.                                 *)

Least(a, b) == IF a < b THEN a ELSE b
Most(a, b) == IF a < b THEN b ELSE a
Skip(x) == -Least(0, x)
Truncate(x) == Most(0, x - Width)
ImageSkip(x) == Most(0, x)
CursorWidth(x) == PointerWidth - Skip(x) - Truncate(x)
Delta(x) == Least(CursorWidth(x) - Truncate(x), Most(0, Width - ImageSkip(x)))
Written(x) == {ImageSkip(x) + i : i \in 0 .. Delta(x) - 1}
Read(x) == {Skip(x) + i : i \in 0 .. Delta(x) - 1}

\* make_cursor_image(), of a monochrome pointer, in the order of its pixels: one that inverts
\* becomes white on black.
Column(p) == IF (p - 1) % Columns # 0 THEN 1 ELSE 0   \* not which column, but whether it is not the first
Draw(s, img, p) ==
    IF s[p] # "inverse" THEN [img EXCEPT ![p] = s[p]]
    ELSE [q \in DOMAIN img |->
            CASE q = p -> "white"
              [] q = p + Columns \/ (q = p + 1 /\ Column(p) # Columns - 1) -> "black"
              [] (q = p - Columns \/ (q = p - 1 /\ Column(p) # 0)) /\ img[q] = "transparent" -> "black"
              [] OTHER -> img[q]]
DrawnUpTo(s) ==
    LET drawn[n \in 0 .. Len(s)] ==
            IF n = 0 THEN [p \in DOMAIN s |-> "unset"] ELSE Draw(s, drawn[n - 1], n)
    IN  drawn
CursorImage(s) == DrawnUpTo(s)[Len(s)]

Next ==
    \/ Present \/ Toggle \/ OpenDisplay \/ CloseDisplay \/ NoFrame \/ Snapshot \/ SnapshotFails
    \/ \E x \in Places, v \in BOOLEAN : Move(x, v)
    \/ \E s \in Shapes : Shape(s)
    \/ \E a \in BOOLEAN : Switch(a)
    \/ \E a \in {"ok", "timeout", "lost", "error"} : ReleaseFrame(a)

Spec == Init /\ [][Next]_vars

-----------------------------------------------------------------------------
TypeOK ==
    /\ kind \in {"ram", "vram"} /\ news \subseteq Everything
    /\ {attached, lost, acquired, hasFrame, wanted, hidden} \subseteq BOOLEAN
    /\ desktop \in [picture : Nat, place : Places, visible : BOOLEAN, shape : Shapes]
    /\ disp \in {Nil} \cup [picture : Nat \cup {Nil}, place : Places \cup {0}, visible : BOOLEAN,
                          shape : Shapes \cup {Nil}, over : BOOLEAN]
    /\ shown \in {Nil} \cup [picture : Nat, place : Places, visible : BOOLEAN, shape : Shapes, over : {FALSE}]

\* duplication_t: no frame is asked for while DXGI has one outside, however ReleaseFrame() has
\* answered, and none stays outside when the display is gone.
FramesAreReturned == (acquired <=> hasFrame) /\ (disp = Nil => ~acquired)

\* snapshot(): when DXGI has nothing new, clients see the desktop as it is, although it told
\* each thing once and some of its frames were no reason for an image.  A pointer that has
\* gone may still be seen.
ShownIsCurrent ==
    disp # Nil /\ ~disp.over /\ ~lost /\ news = {} =>
        /\ shown # Nil /\ shown.picture = desktop.picture
        /\ ~hidden => (shown.visible <=> desktop.visible /\ wanted)
        /\ ~hidden /\ shown.visible => shown.place = desktop.place /\ shown.shape = desktop.shape

\* blend_cursor_color(): wherever the pointer is, just that part of it is drawn that is on the
\* desktop, and nothing is read or written beyond.
PointerIsClipped ==
    kind = "ram" /\ shown # Nil =>
        /\ Written(shown.place) = {c \in 0 .. Width - 1 : c - shown.place \in 0 .. PointerWidth - 1}
        /\ Read(shown.place) \subseteq 0 .. PointerWidth - 1 /\ Delta(shown.place) >= 0

\* make_cursor_image(): on the graphics card a pixel that inverts is white, its neighbours to
\* the left and above are seen, and nothing else changes.  Those to the right and below are
\* made black before their own turn, which undoes it.
InverseIsOutlined ==
    kind = "vram" /\ disp # Nil /\ disp.shape # Nil =>
        LET s == disp.shape
            Inverts(p) == p \in DOMAIN s /\ s[p] = "inverse"
        IN CursorImage(s) = [p \in DOMAIN s |->
                CASE Inverts(p) -> "white"
                  [] s[p] = "transparent" /\ (Inverts(p + Columns) \/ (Inverts(p + 1) /\ p % Columns # 0)) -> "black"
                  [] OTHER -> s[p]]

-----------------------------------------------------------------------------
(* What the properties rest on.                                            *)

\* A display that goes on knows the desktop, but for what DXGI will still tell.
KnownIsCurrent == disp # Nil /\ ~disp.over =>
    /\ "picture" \notin news => disp.picture = desktop.picture
    /\ "shape" \notin news => disp.shape = desktop.shape
    /\ "place" \notin news =>
        /\ disp.place = desktop.place
        /\ kind = "ram" => (disp.visible <=> desktop.visible)
        /\ kind = "vram" /\ ~hidden => (disp.visible <=> desktop.visible /\ wanted)

\* ... and clients have seen it.
ShownFollows == disp # Nil /\ ~disp.over =>
    /\ "picture" \notin news => shown # Nil /\ shown.picture = desktop.picture
    /\ "shape" \notin news /\ ~hidden /\ shown.visible => shown.shape = desktop.shape
    /\ "place" \notin news /\ ~hidden =>
        /\ shown.visible <=> desktop.visible /\ wanted
        /\ shown.visible => shown.place = desktop.place

IInv == TypeOK /\ FramesAreReturned /\ KnownIsCurrent /\ ShownFollows
=============================================================================
