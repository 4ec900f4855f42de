----------------------------- MODULE ScrolledShot -----------------------------
(***************************************************************************)
(* A scrolled screenshot of the desktop app on macOS: the job that          *)
(* TodoApp::apply_agent moves on by one step a frame (apps/todo/src/app.rs, *)
(* scrolled_shot.rs), with the plan and the stitching of crates/gpui-agent/ *)
(* src/scroll_capture.rs.                                                   *)
(*                                                                         *)
(* Lengths are whole pixels and the scale is one.  The list is a sequence   *)
(* of marks, one per row of pixels.  A frame renders (which moves the job   *)
(* on), lays out (which clamps the offset) and paints; what screencapture   *)
(* sees is that frame's predecessor or the one before, since a frame needs  *)
(* the time of another to get on screen.                                    *)
(***************************************************************************)
EXTENDS Integers, Sequences, SequencesExt

CONSTANTS
    MaxContent,      \* bound: rows of pixels the list may have
    MaxView,         \* bound: height of its viewport
    Caps,            \* max_height_px of the requests
    MaxTiles,        \* MAX_SCROLL_TILES
    MetricsWait,     \* METRICS_WAIT_FRAMES
    MaxTouches,      \* bound: what the human does
    Blank, Other     \* a row below the list, and a row of another page

ASSUME ShotAssumption ==
    /\ MaxContent \in Nat /\ MaxView \in Nat
    /\ Caps \subseteq Nat \ {0}
    /\ MaxTiles \in Nat \ {0}
    /\ MetricsWait \in Nat
    /\ MaxTouches \in Nat
    /\ {Blank, Other} \cap Nat = {}

VARIABLES
    rows,            \* the list as the store has it
    view,            \* height of the list's viewport
    page,            \* what the window shows: "todos" or "settings"
    offset,          \* ScrollHandle::offset, positive down
    handle,          \* what the ScrollHandle last saw painted: [view, max]
    screen,          \* the two last frames, the older first, as rows of the clip
    job,             \* scrolled_job
    answer,          \* the last reply: "none", "ok" or "err"
    file,            \* the last image written
    home,            \* where the list was before the job first moved it, or -1
    touched,         \* the human did something since the job was asked for
    touches

listVars == <<rows, view, page>>
shotVars == <<rows, view, page, offset, handle, screen, job, answer, file, home, touched, touches>>

Lesser(a, b) == IF a < b THEN a ELSE b
Greater(a, b) == IF a > b THEN a ELSE b

-----------------------------------------------------------------------------
(* scroll_capture.rs                                                        *)

\* Fault: an offset is not held back at the end of the content.
TileLoose(content, height, covered) ==
    [offset |-> covered, skip |-> 0, take |-> Lesser(height, content - covered)]

Tile(content, height, covered) ==
    LET at == Lesser(covered, content - height)
        skip == covered - at
    IN [offset |-> at, skip |-> skip, take |-> Lesser(content - covered, height - skip)]

\* plan_scroll_tiles, where <<>> stands for each of its errors.  The loop takes a
\* whole viewport each time but the last, so tile k starts where k - 1 of them end.
Plan(metrics, cap) ==
    LET content == Greater(metrics.content, metrics.view)
        count == (content + metrics.view - 1) \div metrics.view
    IN IF metrics.view < 1 \/ content > cap \/ count > MaxTiles THEN <<>>
       ELSE [k \in 1..count |-> Tile(content, metrics.view, (k - 1) * metrics.view)]

\* crop_window_png and crop_rgba, on what the window shows of the clip
Crop(shown, tile) == SubSeq(shown, tile.skip + 1, Lesser(tile.skip + tile.take, Len(shown)))

\* stitch_tiles_vertically
Stitch(slices) == FlattenSeq(slices)

-----------------------------------------------------------------------------
(* The window                                                               *)

Clamped(y) == Greater(0, Lesser(y, Len(rows) - view))

\* The rows of the list's place in the window, painted from offset y
Painted(y) ==
    [k \in 1..view |-> IF page # "todos" THEN Other
                       ELSE IF y + k <= Len(rows) THEN rows[y + k] ELSE Blank]

\* Layout and paint close a frame: they clamp what render left in the handle.  The
\* list is not part of the settings page, whose frames leave the handle alone.
Paint(y) ==
    /\ offset' = IF page = "todos" THEN Clamped(y) ELSE y
    /\ handle' = IF page = "todos" THEN [view |-> view, max |-> Greater(0, Len(rows) - view)]
                 ELSE handle
    /\ screen' = <<screen[2], Painted(offset')>>

\* scroll_metrics: of the last frame painted, and the offset as it is now
Measurable == handle.view >= 1
Metrics == [view |-> handle.view, content |-> handle.view + handle.max, offset |-> offset]

-----------------------------------------------------------------------------
(* The job                                                                  *)

NoJob == [phase |-> "none"]

ShotInit ==
    /\ rows \in {[k \in 1..n |-> k] : n \in 0..MaxContent}
    /\ view \in 0..MaxView
    /\ page = "todos"
    /\ offset = 0
    /\ handle = [view |-> 0, max |-> 0]
    /\ screen = <<<<>>, <<>>>>
    /\ job = NoJob
    /\ answer = "none"
    /\ file = <<>>
    /\ home = -1
    /\ touched = FALSE
    /\ touches = 0

\* start_scrolled_job of a request that is in order, from render
Start(cap) ==
    /\ job.phase = "none"
    /\ job' = [phase |-> "metrics", cap |-> cap, plan |-> <<>>, captured |-> <<>>,
               clip |-> 0, original |-> IF Measurable THEN offset ELSE 0,
               waited |-> 0, awaiting |-> FALSE]
    /\ home' = -1
    /\ touched' = FALSE
    /\ answer' = "none"
    /\ Paint(offset)
    /\ UNCHANGED <<listVars, file, touches>>

\* finish_scrolled_job
Finish(what) ==
    /\ job' = NoJob
    /\ answer' = what
    /\ Paint(job.original)

WaitForMetrics ==
    /\ job.phase = "metrics"
    /\ ~Measurable
    /\ IF job.waited + 1 < MetricsWait
       THEN /\ job' = [job EXCEPT !.waited = @ + 1]
            /\ Paint(offset)
            /\ UNCHANGED answer
       ELSE Finish("err")
    /\ UNCHANGED <<listVars, file, home, touched, touches>>

\* Fault: the offset read when the request came is kept.
BeginKeepsOffset ==
    LET plan == Plan(Metrics, job.cap) IN
    /\ job.phase = "metrics"
    /\ Measurable
    /\ IF plan = <<>>
       THEN Finish("err") /\ UNCHANGED home
       ELSE /\ job' = [job EXCEPT !.phase = "tiles", !.plan = plan, !.clip = Metrics.view,
                                  !.awaiting = TRUE]
            /\ home' = offset
            /\ Paint(plan[1].offset)
            /\ UNCHANGED answer
    /\ UNCHANGED <<listVars, file, touched, touches>>

Begin ==
    LET plan == Plan(Metrics, job.cap) IN
    /\ job.phase = "metrics"
    /\ Measurable
    /\ IF plan = <<>>
       THEN Finish("err") /\ UNCHANGED home
       ELSE /\ job' = [job EXCEPT !.phase = "tiles", !.plan = plan, !.clip = Metrics.view,
                                  !.original = Metrics.offset, !.awaiting = TRUE]
            /\ home' = offset
            /\ Paint(plan[1].offset)
            /\ UNCHANGED answer
    /\ UNCHANGED <<listVars, file, touched, touches>>

\* The frame after set_scroll_offset_y is let pass: it is not on screen yet.
LetPass ==
    /\ job.phase = "tiles" /\ job.awaiting
    /\ job' = [job EXCEPT !.awaiting = FALSE]
    /\ Paint(offset)
    /\ UNCHANGED <<listVars, answer, file, home, touched, touches>>

\* A tile is cropped from what is on screen; then on to the next one, or all are
\* stitched, written and reported.
Capture(frame) ==
    LET n == Len(job.captured) + 1
        captured == Append(job.captured, Crop(frame, job.plan[n]))
    IN
    /\ job.phase = "tiles" /\ ~job.awaiting
    /\ IF n < Len(job.plan)
       THEN /\ job' = [job EXCEPT !.captured = captured, !.awaiting = TRUE]
            /\ Paint(job.plan[n + 1].offset)
            /\ UNCHANGED <<answer, file>>
       ELSE Finish("ok") /\ file' = Stitch(captured)
    /\ UNCHANGED <<listVars, home, touched, touches>>

\* screencapture, the crop, the encoder, its size limit, the path or the write fails.
CaptureFails ==
    /\ job.phase = "tiles" /\ ~job.awaiting
    /\ Finish("err")
    /\ UNCHANGED <<listVars, file, home, touched, touches>>

\* A frame without a job
IdleFrame ==
    /\ job.phase = "none"
    /\ Paint(offset)
    /\ UNCHANGED <<listVars, job, answer, file, home, touched, touches>>

-----------------------------------------------------------------------------
(* The human, between frames                                                *)

Touch ==
    /\ touches < MaxTouches
    /\ touches' = touches + 1
    /\ touched' = TRUE
    /\ UNCHANGED <<handle, screen, job, answer, file, home>>

Scroll ==
    /\ Touch /\ page = "todos"
    /\ offset' \in 0..handle.max
    /\ UNCHANGED listVars

Resize == Touch /\ view' \in 0..MaxView /\ UNCHANGED <<rows, page, offset>>

AddRow ==
    /\ Touch
    /\ Len(rows) < MaxContent
    /\ rows' = Append(rows, MaxContent + touches + 1)
    /\ UNCHANGED <<view, page, offset>>

DeleteRow ==
    /\ Touch
    /\ rows # <<>>
    /\ rows' = Tail(rows)
    /\ UNCHANGED <<view, page, offset>>

Navigate == Touch /\ page' \in {"todos", "settings"} \ {page} /\ UNCHANGED <<rows, view, offset>>

-----------------------------------------------------------------------------
\* The frames are 16 ms apart for as long as the window lives (TodoApp::new).
Frame ==
    \/ \E cap \in Caps : Start(cap)
    \/ WaitForMetrics
    \/ Begin
    \/ LetPass
    \/ \E k \in 1..2 : Capture(screen[k])
    \/ CaptureFails
    \/ IdleFrame

Human == Scroll \/ Resize \/ AddRow \/ DeleteRow \/ Navigate

ShotNext == Frame \/ Human
ShotSpec == ShotInit /\ [][ShotNext]_shotVars /\ WF_shotVars(Frame)

-----------------------------------------------------------------------------
(* Properties                                                              *)

\* With the list in the window and nobody at it, the image that is reported is the
\* list, every row of it once and in order, however the tiles overlap at its end
\* and whichever of the last frames each capture saw (plan_scroll_tiles,
\* awaiting_paint, stitch_tiles_vertically).
ImageIsList ==
    answer = "ok" /\ ~touched /\ page = "todos" =>
        file = rows \o [k \in 1 .. Greater(0, view - Len(rows)) |-> Blank]

\* A job that moved the list puts it back where it was, done or failed, whatever
\* the human did meanwhile, as far as the list still reaches there
\* (finish_scrolled_job; Begin's `job.original_offset = metrics.offset_y`).
OffsetRestored ==
    [][job.phase # "none" /\ job'.phase = "none" /\ home >= 0 =>
          offset' = IF page = "todos" THEN Clamped(home) ELSE home]_shotVars

\* A job ends, so what waits in the mailbox behind it gets its turn: the wait for
\* metrics is bounded and so is the plan.
JobEnds == job.phase # "none" ~> job.phase = "none"

\* A screenshot of `target` shows that target, or is refused: "the host cannot
\* resolve or drive `target`" is scroll_unavailable.
ImageIsOfTheList ==
    answer = "ok" /\ ~touched => Other \notin ToSet(file)

\* A job that never moved the list leaves it where it is.
UnmovedStays ==
    [][job.phase # "none" /\ job'.phase = "none" /\ home < 0 /\ page = "todos" =>
          offset' = Clamped(offset)]_shotVars
===============================================================================
