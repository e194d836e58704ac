------------------------------- MODULE Panels -------------------------------
(***************************************************************************)
(* One window of the page: its two buttons, dragging, resizing, hiding,    *)
(* cloning, and the chat window's habit of hanging from its bottom edge    *)
(* (src/main.js).                                                          *)
(*                                                                         *)
(* Windows do not interact, so one is followed, of any kind; when a clone  *)
(* is opened the model goes on with the clone.  Only the vertical axis has *)
(* coordinates, in units of a header's height: 0 is the top of the screen. *)
(***************************************************************************)
EXTENDS Integers

CONSTANTS ScreenH,     \* height of the screen
          ContentCap,  \* tallest content that nobody has resized
          PanelKinds   \* of "chat" (the original chat-box), "panel", "clone"

ASSUME PanelConstants ==
    /\ ContentCap \in Nat /\ ScreenH \in Nat /\ ContentCap + 2 <= ScreenH
    /\ PanelKinds \subseteq {"chat", "panel", "clone"}

VARIABLE panel   \* the window: the fields of PanelTypeOK
panelVars == <<panel>>

Unset   == "none"
Modes   == {"normal", "minimized", "maximized"}
Buttons == {"minimize", "maximize"}
Widths  == {"plain", "px", "auto"}   \* style.width: unset, set by hand, auto
Rects   == [top : -ScreenH .. 2 * ScreenH, width : Widths]

\* isRectFullscreen
IsFull(mode, minRestore) ==
    mode = "maximized" \/ (mode = "minimized" /\ minRestore = "maximized")
Full(x) == IsFull(x.mode, x.minRestore)

\* The height of .panel-content that applyContentForMode and
\* applyNormalContentSize amount to.
Content(x) == CASE x.mode = "minimized" -> 0
                [] x.mode = "maximized" -> IF x.pinned THEN ScreenH - 1 ELSE x.rows
                [] OTHER -> IF x.tall # 0 THEN x.tall ELSE x.rows
Height(x) == 1 + Content(x)
Rect(x)   == [top |-> x.top, width |-> x.width]

\* reanchorChatBottom, run by a ResizeObserver after every change of size.
Settled(x) ==
    IF x.kind = "chat" /\ x.shown /\ ~Full(x)
    THEN [x EXCEPT !.top = x.anchor - Height(x), !.pinned = FALSE] ELSE x

-----------------------------------------------------------------------------
(* The two buttons.                                                        *)

Mine(button) == IF button = "minimize" THEN "minimized" ELSE "maximized"

\* A mode is entered: the button's own map keeps what is left behind.
Remembering(x, button) ==
    IF button = "minimize"
    THEN [x EXCEPT !.minRestore = x.mode, !.mode = "minimized"]
    ELSE [x EXCEPT !.maxRestore = x.mode, !.mode = "maximized"]

Restored(x, button) ==
    LET back == IF button = "minimize" THEN x.minRestore ELSE x.maxRestore
    IN  [x EXCEPT !.mode = IF back = Unset THEN "normal" ELSE back]

\* The span follows from the screen to the home rect and back only when the
\* step from x to y goes from one family to the other.
Spanned(x, y) ==
    CASE ~Full(x) /\ Full(y) ->
           [y EXCEPT !.saved = {Rect(x)}, !.top = 0, !.wide = TRUE, !.width = "auto"]
      [] Full(x) /\ ~Full(y) ->
           LET r == IF x.saved = {} THEN [top |-> 0, width |-> "plain"]
                    ELSE CHOOSE s \in x.saved : TRUE
           IN  [y EXCEPT !.top = r.top, !.wide = FALSE, !.width = r.width, !.saved = {}]
      [] OTHER -> y

\* transitionPanel
Transition(x, button) ==
    LET y == IF x.mode = Mine(button) THEN Restored(x, button) ELSE Remembering(x, button)
        z == Spanned(x, y)
    IN  Settled([z EXCEPT !.pinned = (z.mode = "maximized"), !.reopened = @ /\ Full(z)])

\* What is not on the screen cannot be clicked or dragged.
OnScreen(y) == panel.shown /\ y \in 0 .. ScreenH - 1

Click(button) == OnScreen(panel.top) /\ panel' = Transition(panel, button)

-----------------------------------------------------------------------------
(* The mouse.  home is where the user last put the window: history.        *)

Homed(x) == [x EXCEPT !.home = Rect(x)]
Anchored(x) == IF x.kind = "chat" THEN [x EXCEPT !.anchor = x.top + Height(x)] ELSE x
Forgetting(x) == [x EXCEPT !.minRestore = Unset, !.maxRestore = Unset, !.saved = {},
                           !.reopened = FALSE]

\* Dragging leaves the maximized mode, and severs a collapsed header's memory.
Freed(x) ==
    CASE x.mode = "maximized" ->
           [Forgetting(x) EXCEPT !.tall = Content(x), !.mode = "normal", !.width = "px"]
      [] x.mode = "minimized" -> Forgetting(x)
      [] OTHER -> x

\* The cursor asks for t; the header is kept on the screen.
DragTop(t) == CASE t < 0 -> 0 [] t > ScreenH - 1 -> ScreenH - 1 [] OTHER -> t

\* Mutated form of Moved: the chat window is not told where it hangs now.
MovedUnanchored(x, t) ==
    Homed([Freed(x) EXCEPT !.top = DragTop(t), !.wide = FALSE, !.pinned = FALSE])

Moved(x, t) ==
    Homed(Anchored([Freed(x) EXCEPT !.top = DragTop(t), !.wide = FALSE, !.pinned = FALSE]))

\* makeDraggable
Drag(t) == OnScreen(panel.top) /\ panel' = Settled(Moved(panel, t))

\* makeResizable, the lower edge: c is the content's new height; the cursor
\* that drags an edge is on the screen.
ResizeBottom(c) ==
    LET room == ScreenH - panel.top - 1
    IN  /\ OnScreen(panel.top + Height(panel) - 1) /\ panel.mode = "normal"
        /\ c <= (IF room > 1 THEN room ELSE 1) /\ panel.top + c >= 0
        /\ panel' = Settled(Homed(Anchored([panel EXCEPT !.tall = c])))

\* makeResizable, the upper edge.
ResizeTop(c) ==
    LET bottom == panel.top + Height(panel)
    IN  /\ OnScreen(panel.top) /\ panel.mode = "normal"
        /\ c <= (IF bottom - 1 > 1 THEN bottom - 1 ELSE 1) /\ bottom - 1 - c <= ScreenH - 1
        /\ panel' = Settled(Homed(Anchored([panel EXCEPT !.tall = c, !.pinned = FALSE,
                                        !.top = IF bottom - 1 - c > 0 THEN bottom - 1 - c ELSE 0])))

\* makeResizable, a side.
ResizeSide == /\ panel.shown /\ panel.mode = "normal"
              /\ panel' = Homed([panel EXCEPT !.width = "px"])

\* What the window shows grows or shrinks.
Rows(r) == panel.shown /\ panel' = Settled([panel EXCEPT !.rows = r])

-----------------------------------------------------------------------------
(* The menu and the close button.                                          *)

\* closePanelInstance: the original is hidden, a clone removed.
Close == panel.shown /\ panel' = [panel EXCEPT !.shown = FALSE]

Spawned(x, t) == [x EXCEPT !.shown = TRUE, !.top = t, !.wide = FALSE, !.pinned = FALSE]

\* setPanelVisible: a checkbox of the menu; the chat window has none.  The mode a
\* window was closed in stays: reopened, history, is one closed in a full mode.
Show(t) == /\ panel.kind = "panel" /\ ~panel.shown
           /\ panel' = IF Full(panel) THEN [Spawned(panel, t) EXCEPT !.reopened = TRUE]
                       ELSE Homed(Spawned(panel, t))

\* openNewPanelInstance: a clone of the original; classes and the content's
\* sizes are stripped, the window's own style is not.
Clone(t) == /\ panel.kind \in {"chat", "panel"} /\ "clone" \in PanelKinds
            /\ panel' = Homed(Spawned([Forgetting(panel) EXCEPT !.kind = "clone", !.mode = "normal",
                                                         !.tall = 0], t))

Tops  == 0 .. 1            \* where windows spawn, staggered
Sizes == 1 .. ScreenH - 1        \* of a content, by hand

PanelInit == \E kind \in PanelKinds \ {"clone"} :
    panel = [kind |-> kind, shown |-> TRUE, mode |-> "normal", minRestore |-> Unset,
             maxRestore |-> Unset, wide |-> FALSE, pinned |-> FALSE, top |-> ScreenH - 2,
             width |-> "plain", saved |-> {}, reopened |-> FALSE, tall |-> 0, rows |-> 0,
             anchor |-> ScreenH - 1,
             home |-> [top |-> ScreenH - 2, width |-> "plain"]]

DragAny   == \E t \in -1 .. ScreenH : Drag(t)
ResizeAny == \/ \E c \in Sizes : ResizeBottom(c) \/ ResizeTop(c)
             \/ ResizeSide

PanelNext == \/ \E button \in Buttons : Click(button)
             \/ DragAny \/ ResizeAny
             \/ \E r \in 0 .. ContentCap : Rows(r)
             \/ Close
             \/ \E t \in Tops : Show(t) \/ Clone(t)

PanelSpec == PanelInit /\ [][PanelNext]_panelVars

-----------------------------------------------------------------------------
PanelTypeOK ==
    panel \in [kind : {"chat", "panel", "clone"}, shown : BOOLEAN, mode : Modes,
           minRestore : {Unset, "normal", "maximized"},
           maxRestore : {Unset, "normal", "minimized"}, wide : BOOLEAN,
           pinned : BOOLEAN, top : -ScreenH .. 2 * ScreenH, width : Widths, saved : SUBSET Rects,
           reopened : BOOLEAN,
           tall : 0 .. ScreenH - 1, rows : 0 .. ContentCap, anchor : 0 .. 2 * ScreenH, home : Rects]

\* A window spans the screen exactly in the modes that are full ones, and its
\* lower edge is pinned exactly while it is maximized: the comment at the end
\* of transitionPanel's first part, "else the span is already correct for the
\* new mode - left untouched".  One that was closed in such a mode and shown again
\* does neither until it leaves it: setPanelVisible puts it where windows spawn and
\* leaves its mode alone.
SpanFits == /\ panel.wide => Full(panel) /\ panel.top = 0
            /\ panel.pinned => panel.mode = "maximized"
            /\ Full(panel) /\ ~panel.reopened =>
                   panel.wide /\ (panel.mode = "maximized" => panel.pinned)
            /\ panel.reopened => Full(panel) /\ panel.kind = "panel"

\* However the two buttons, drags and resizes follow each other, leaving the
\* screen brings the window back to where the user last put it (a chat window,
\* which moves of its own accord, hangs from there: BottomStays).
HomeIsKept ==
    panel.shown /\ panel.kind # "chat" =>
        IF Full(panel) THEN panel.saved = {panel.home} ELSE Rect(panel) = panel.home

\* The states the buttons lead to from those of xs, by one click or none.
Clicked(xs) == xs \cup {Transition(x, button) : x \in xs, button \in Buttons}

\* One pair of memories, and no other, keeps the buttons from ever leading back
\* to the small window: each of them remembers the other one's mode.
OnlyLoopTraps == panel.shown =>
    \/ \E x \in Clicked(Clicked({panel})) : x.mode = "normal"
    \/ panel.mode # "normal" /\ panel.minRestore = "maximized" /\ panel.maxRestore = "minimized"

\* A window that does not hang from its lower edge always leaves its header on
\* the screen, where it can be dragged and clicked: makeDraggable's "clamped so
\* the header can't be dragged fully offscreen".
HeaderStays == panel.shown /\ panel.kind # "chat" => panel.top \in 0 .. ScreenH - 1

\* What a window looks like and what it remembers fit, and it can be got at.
WindowsComeHome == PanelTypeOK /\ SpanFits /\ HomeIsKept /\ OnlyLoopTraps /\ HeaderStays

\* Nothing but the user's mouse moves the lower edge of the chat window:
\* "should always grow/shrink from that fixed bottom edge".
BottomStays ==
    panel.kind = "chat" /\ panel'.kind = "chat" /\ ~Full(panel) /\ ~Full(panel') =>
        panel'.top + Height(panel') = panel.top + Height(panel) \/ DragAny \/ ResizeAny

\* A dragged header stays where the cursor left it, at every kind of window in
\* every mode, and the buttons lead home again.
DraggedStays ==
    \A t \in 0 .. ScreenH - 1 : Drag(t) /\ ~ResizeAny =>
        /\ panel'.top = t /\ ~panel'.wide
        /\ \E x \in {panel'} \cup {Transition(panel', button) : button \in Buttons} : x.mode = "normal"

\* Windows move where the mouse moves them, and nowhere else.
MouseMoves == BottomStays /\ DraggedStays

\* A window of the page comes back to where it was put, and moves only by the
\* mouse (transitionPanel, makeDraggable and reanchorChatBottom of main.js).
WindowsBehave == []WindowsComeHome /\ [][panel' # panel => MouseMoves]_panelVars
=============================================================================
