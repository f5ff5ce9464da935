------------------------------ MODULE VltContext ------------------------------
(***************************************************************************)
(* The barriers, render passes and deferred clears of a Violet context.    *)
(* Commands are recorded without knowing what comes next: each registers   *)
(* what it touched in the barrier set m_execBarriers, and the command that *)
(* touches it again, or a render pass, records the barrier.  Clears wait   *)
(* for the render pass they can be part of.                                *)
(*                                                                         *)
(* The record context holds the fields of VltContext and, from layout on,  *)
(* what the recorded commands have done to the resources.  Images are one  *)
(* subresource with one view.  A recorded barrier holds back everything    *)
(* after it: the stages it names as its second half are abstracted.        *)
(*                                                                         *)
(* Source: Graphics/Violet/VltContext.cpp, VltBarrier.cpp,                 *)
(* VltFramebuffer.cpp; image layouts and callers from Graphics/Gnm.        *)
(***************************************************************************)
EXTENDS Naturals, Sequences, FiniteSets

CONSTANTS
  Colors,   \* colour images
  Depths,   \* depth-stencil images
  Sides,    \* image -> length of its side
  Buffers,  \* buffers
  Units,    \* bound: a buffer has this many units
  MaxSlices \* bound: slices registered when a command begins

VARIABLE context

ASSUME ContextAssumption ==
  /\ Colors \cap Depths = {}
  /\ (Colors \cup Depths) \cap Buffers = {}
  /\ Units \in Nat \ {0}

Images == Colors \cup Depths
Aspects(i) == IF i \in Colors THEN {"color"} ELSE {"depth", "stencil"}

\* VltImageCreateInfo::layout, the layout an image is kept in between uses.
InfoLayout(i) == IF i \in Colors THEN "general" ELSE "depth stencil read only"
\* The layout the targets are bound with.
BoundLayout(i) == IF i \in Colors THEN "color attachment" ELSE "depth attachment"
InfoLayouts == [i \in Images |-> InfoLayout(i)]
BoundLayouts == [i \in Images |-> BoundLayout(i)]
PickLayout(i, layout) == IF InfoLayout(i) = "general" THEN "general" ELSE layout
\* A depth attachment layout without stencil is not among the known ones.
WritableAspects(layout) == IF layout = "color attachment" THEN {"color"} ELSE {}
ClearLayout(i) ==
  PickLayout(i, IF i \in Colors THEN "color attachment" ELSE "depth stencil attachment")
TransferLayout(i) == PickLayout(i, "transfer dst")
Layouts == {InfoLayout(i) : i \in Images} \cup {BoundLayout(i) : i \in Images}
           \cup {"undefined", "transfer dst", "depth stencil attachment"}

Slice(r, first, size) == [resource |-> r, first |-> first, size |-> size]
Whole(i) == Slice(i, 0, 1)
BufferUnits == {Slice(b, n, 1) : b \in Buffers, n \in 0..Units - 1}
WholeBuffers == {Slice(b, 0, Units) : b \in Buffers}
Overlap(a, b) ==
  /\ a.resource = b.resource
  /\ a.first + a.size > b.first
  /\ a.first < b.first + b.size

PassStage(i) == IF i \in Colors THEN "color" ELSE "depth"
\* The stages of which a barrier must wait for one to wait for a stage: a
\* stage of a draw is over when a later one is.
WaitedBy == [transfer |-> {"transfer"}, compute |-> {"compute"},
             shader |-> {"depth", "color"}, depth |-> {"depth", "color"}, color |-> {"color"}]

NoBarriers == [stages |-> {}, slices |-> {}, moves |-> {}]

ContextInit ==
  context =
    [targets |-> {}, framebuffer |-> {}, dirty |-> TRUE, bound |-> FALSE,
     rtLayouts |-> InfoLayouts,
     loads |-> BoundLayouts,   \* loadLayout of renderPassOps
     clears |-> [i \in Images |-> {}],              \* aspects whose loadOp is CLEAR
     deferred |-> <<>>,
     barriers |-> NoBarriers,
     layout |-> [i \in Images |-> IF i \in Colors THEN InfoLayout(i) ELSE "undefined"],
     pending |-> {},      \* accesses no barrier has waited for
     raced |-> {},        \* resources used before a barrier waited
     misplaced |-> {},    \* images used in a layout they are not in
     stale |-> {},        \* aspects of images whose contents are not those called for
     overtaken |-> {},    \* images used while stale
     late |-> {}]         \* images used while a clear of them was put off

------------------------------------------------------------------------------
\* Commands and their effect.

\* A command accesses the slices; conflicting accesses still pending race.
Use(s, accesses) ==
  [s EXCEPT !.pending = @ \cup accesses,
            !.raced = @ \cup {a.slice.resource : a \in {a \in accesses :
                        \E p \in s.pending : Overlap(p.slice, a.slice) /\ (p.write \/ a.write)}}]
Accessing(slice, write, stage) == [slice |-> slice, write |-> write, stage |-> stage]

\* A command uses the images in the layouts given.
InLayouts(s, images, layoutOf(_)) ==
  [s EXCEPT !.misplaced =
     @ \cup {i \in images : s.layout[i] # "undefined" /\ s.layout[i] # layoutOf(i)}]

AspectsOf(images) == UNION {{i} \X Aspects(i) : i \in images}

\* A command uses the images for their contents.
See(s, images) ==
  [s EXCEPT !.overtaken = @ \cup {i \in images \ s.late : s.stale \cap AspectsOf({i}) # {}}]

\* A barrier that waits for the stages and moves images between layouts.  An
\* image moved from the undefined layout loses its contents.
Barrier(s, stages, moves) ==
  LET left == {p \in s.pending : WaitedBy[p.stage] \cap stages = {}}
      moved == {m.image : m \in moves}
      MoveOf(i) == CHOOSE m \in moves : m.image = i
  IN  [s EXCEPT
        !.pending = left,
        !.layout = [i \in Images |-> IF i \in moved THEN MoveOf(i).new ELSE s.layout[i]],
        !.stale = @ \cup AspectsOf({i \in moved : MoveOf(i).old = "undefined"}),
        !.misplaced = @ \cup {i \in moved :
            MoveOf(i).old # "undefined" /\ s.layout[i] \notin {"undefined", MoveOf(i).old}},
        !.raced = @ \cup {i \in moved : \/ \E p \in left : p.slice.resource = i
                                        \/ \E m, n \in moves : m.image = i /\ n.image = i /\ m # n}]

------------------------------------------------------------------------------
\* VltBarrierSet.

\* isBufferDirty, isImageDirty; and getBufferAccess, getImageAccess of
\* commitComputePrevBarriers.
Dirty(s, slice, write) ==
  \E e \in s.barriers.slices : Overlap(slice, e.slice) /\ (write \/ e.write)

\* recordCommands of m_execBarriers.
RecordCommands(s) ==
  IF s.barriers.stages = {} THEN s
  ELSE [Barrier(s, s.barriers.stages, s.barriers.moves) EXCEPT !.barriers = NoBarriers]

Moves(i, old, new) == IF old = new THEN {} ELSE {[image |-> i, old |-> old, new |-> new]}

Entry(slice, write) == [slice |-> slice, write |-> write]

\* What accessBuffer and accessImage add to the barrier set.
Register(s, stages, slices, moves) ==
  [s EXCEPT !.barriers = [stages |-> @.stages \cup stages, slices |-> @.slices \cup slices,
                          moves |-> @.moves \cup moves]]

\* accessBuffer, of one slice or several, and accessImage.
AccessSlice(s, slice, write, stage) == Register(s, {stage}, {Entry(slice, write)}, {})
AccessSlices(s, slices, write, stage) ==
  Register(s, {stage : slice \in slices}, {Entry(slice, write) : slice \in slices}, {})
AccessImage(s, i, old, new, write, stage) ==
  Register(s, {stage}, {Entry(Whole(i), write \/ old # new)}, Moves(i, old, new))

\* The attachments of a pass move between layouts.
AccessAttachments(s, images, old, new) ==
  Register(s, {PassStage(i) : i \in images}, {Entry(Whole(i), TRUE) : i \in images},
           UNION {Moves(i, old[i], new[i]) : i \in images})

\* m_execAcquires: accessImage and recordCommands at once.
Acquire(s, i, old, new, stages) == Barrier(s, stages, Moves(i, old, new))

\* Barriers that are recorded if one of the slices is dirty.
RecordIfDirty(s, reads, writes) ==
  IF (\E r \in reads : Dirty(s, r, FALSE)) \/ (\E w \in writes : Dirty(s, w, TRUE))
  THEN RecordCommands(s) ELSE s

------------------------------------------------------------------------------
\* Deferred clears and render passes.

FullSize(s, i) == \A j \in s.framebuffer : Sides[i] <= Sides[j]
Attached(s, i) == i \in s.framebuffer /\ FullSize(s, i)

\* A recorded clear of some aspects of an image.
Cleared(s, i, aspects) == [s EXCEPT !.stale = @ \ ({i} \X aspects)]

\* A temporary render pass that clears one image.
ClearInPass(s, clear, load, store) ==
  LET i == clear.image
      layout == ClearLayout(i)
      clean == RecordIfDirty(s, {}, {Whole(i)})
      moved == IF load = layout THEN clean
               ELSE Acquire(clean, i, load, layout, {PassStage(i)})
      done == Cleared(Use(InLayouts(moved, {i}, ClearLayout),
                          {Accessing(Whole(i), TRUE, PassStage(i))}), i, clear.aspects)
  IN  AccessImage(done, i, layout, store, TRUE, PassStage(i))

\* performClear: folded into the render pass that is about to start where the
\* image is an attachment it may write, else in a pass of its own.
PerformClear(s, clear, attached) ==
  LET i == clear.image
      fold == attached /\ clear.aspects \subseteq WritableAspects(BoundLayout(i))
      full == clear.aspects = Aspects(i)
      load == IF full THEN "undefined"
              ELSE IF attached THEN s.loads[i] ELSE InfoLayout(i)
  IN  IF fold
      THEN [s EXCEPT !.clears[i] = clear.aspects, !.loads[i] = IF full THEN "undefined" ELSE @]
      ELSE IF attached
      THEN ClearInPass([s EXCEPT !.loads[i] = BoundLayout(i)], clear, load, BoundLayout(i))
      ELSE ClearInPass(s, clear, load, InfoLayout(i))

FlushClears(s, useRenderPass) ==
  LET flushed[n \in 0 .. Len(s.deferred)] ==
        IF n = 0 THEN s
        ELSE PerformClear(flushed[n - 1], s.deferred[n],
                          useRenderPass /\ Attached(s, s.deferred[n].image))
  IN  [flushed[Len(s.deferred)] EXCEPT !.deferred = <<>>]

\* transitionRenderTargetLayouts.
TransitionLayouts(s) ==
  LET moving == {i \in s.framebuffer : s.rtLayouts[i] # InfoLayout(i)}
  IN  [AccessAttachments(s, moving, s.rtLayouts, InfoLayouts) EXCEPT
         !.rtLayouts = InfoLayouts]

\* Fault: the attachments are left in the layout of the pass.
SpillInPlace(s) ==
  IF s.bound
  THEN LET ended == [s EXCEPT !.bound = FALSE]
       IN  RecordCommands(ended)
  ELSE FlushClears(s, FALSE)

\* spillRenderPass.  A pass that is bound ends, and deferred clears stay.
Spill(s) ==
  IF s.bound
  THEN LET ended == [s EXCEPT !.bound = FALSE]
           emptied == IF s.barriers.slices # {} THEN RecordCommands(ended) ELSE ended
       IN  RecordCommands(TransitionLayouts(emptied))
  ELSE FlushClears(s, FALSE)

\* resetRenderPassOps.
ResetOps(s) == [s EXCEPT !.loads = BoundLayouts,
                         !.clears = [i \in Images |-> {}]]

\* renderPassEmitInitBarriers.
InitBarriers(s) ==
  LET clean == RecordIfDirty(s, {}, {Whole(i) : i \in s.framebuffer})
      moving == {i \in s.framebuffer : s.loads[i] # BoundLayout(i)}
  IN  RecordCommands(AccessAttachments(clean, moving, s.loads, BoundLayouts))

\* renderPassEmitPostBarriers: attachments are stored in the layout they are
\* bound with, so only memory barriers are left for the end of the pass.
PostBarriers(s) ==
  Register(s, {PassStage(i) : i \in s.framebuffer}, {}, {})

\* renderPassBindFramebuffer: the pass begins with the clears folded into it.
BindFramebuffer(s) ==
  LET begun == Use(InLayouts(PostBarriers(InitBarriers(s)), s.framebuffer, BoundLayout),
                   {Accessing(Whole(i), TRUE, PassStage(i)) : i \in s.framebuffer})
  IN  [begun EXCEPT !.stale = @ \ UNION {{i} \X s.clears[i] : i \in s.framebuffer}]

\* Fault: deferred clears are performed with the next spill.
StartRenderPassUncleared(s) ==
  LET begun == BindFramebuffer([s EXCEPT !.loads = s.rtLayouts])
  IN  ResetOps([begun EXCEPT !.bound = TRUE,
                             !.rtLayouts = [i \in Images |-> IF i \in s.framebuffer
                                              THEN BoundLayout(i) ELSE InfoLayout(i)]])

\* startRenderPass.
StartRenderPass(s) ==
  LET begun == BindFramebuffer(FlushClears([s EXCEPT !.loads = s.rtLayouts], TRUE))
  IN  ResetOps([begun EXCEPT !.bound = TRUE,
                             !.rtLayouts = [i \in Images |-> IF i \in s.framebuffer
                                              THEN BoundLayout(i) ELSE InfoLayout(i)]])

\* updateFramebuffer: the layouts of images bound before are kept.
UpdateFramebuffer(s) ==
  LET spilled == Spill([s EXCEPT !.dirty = FALSE])
  IN  [spilled EXCEPT
        !.framebuffer = s.targets,
        !.rtLayouts = [i \in Images |-> IF i \in s.framebuffer \cap s.targets
                                        THEN @[i] ELSE InfoLayout(i)]]

\* A command comes to images whose clear is deferred and stays so.
PutOff(s, images) ==
  [s EXCEPT !.late = @ \cup (images \cap {s.deferred[k].image : k \in DOMAIN s.deferred})]

------------------------------------------------------------------------------
\* The operations of the context.

Targets == (SUBSET Images) \ {{}}

\* bindRenderTargets.
BindRenderTargets(targets) ==
  context' = [ResetOps(context) EXCEPT !.targets = targets,
                                       !.dirty = context.framebuffer # targets]

\* deferClear: a clear of an image with a clear deferred is merged into it.
DeferClear(s, i, aspects) ==
  LET merged == [k \in DOMAIN s.deferred |->
                   IF s.deferred[k].image = i
                   THEN [s.deferred[k] EXCEPT !.aspects = @ \cup aspects] ELSE s.deferred[k]]
      added == Append(s.deferred, [image |-> i, aspects |-> aspects])
  IN  [s EXCEPT !.stale = @ \cup ({i} \X aspects),
                !.deferred = IF \E k \in DOMAIN @ : @[k].image = i THEN merged ELSE added]

\* clearRenderTarget.
ClearRenderTarget(i, aspects) ==
  context' = IF Attached(context, i) /\ context.bound THEN Cleared(context, i, aspects)
             ELSE DeferClear(context, i, aspects)

\* draw, drawIndexed: commitGraphicsState and the command.  What draws of a
\* pass read is not registered; images are read in the layout they are kept in.
Draw(images, buffers) ==
  LET s == IF context.dirty THEN UpdateFramebuffer(context) ELSE context
      inPass == IF s.bound THEN PutOff(s, s.framebuffer \cup images) ELSE StartRenderPass(s)
      drawn == See(InLayouts(Use(inPass, {Accessing(slice, FALSE, "shader") :
                                   slice \in {Whole(i) : i \in images} \cup buffers}),
                             images, InfoLayout),
                   s.framebuffer \cup images)
  IN  /\ images \cap s.framebuffer = {}
      /\ context' = drawn

\* dispatch: commitComputeState, which ends a bound pass but does not flush
\* clears when none is bound; commitComputePrevBarriers; the command;
\* commitComputePostBarriers.
Dispatch(images, slices, write) ==
  LET s == PutOff(IF context.bound THEN Spill(context) ELSE context, images)
      used == {Whole(i) : i \in images} \cup slices
      clean == IF write THEN RecordIfDirty(s, {}, used) ELSE RecordIfDirty(s, used, {})
      run == See(InLayouts(Use(clean, {Accessing(u, write, "compute") : u \in used}),
                           images, InfoLayout), images)
  IN  context' = AccessSlices(run, used, write, "compute")

\* The spill at the beginning of a transfer.
SpillFor(images) == Spill(IF context.bound THEN PutOff(context, images) ELSE context)

\* Fault: only the destination is looked at.
CopyBufferIntoClean(src, dst) ==
  LET clean == RecordIfDirty(SpillFor({}), {}, {dst})
      copied == Use(clean, {Accessing(src, FALSE, "transfer"), Accessing(dst, TRUE, "transfer")})
  IN  context' = AccessSlice(AccessSlice(copied, src, FALSE, "transfer"), dst, TRUE, "transfer")

\* copyBuffer.
CopyBuffer(src, dst) ==
  LET clean == RecordIfDirty(SpillFor({}), {src}, {dst})
      copied == Use(clean, {Accessing(src, FALSE, "transfer"), Accessing(dst, TRUE, "transfer")})
  IN  context' = AccessSlice(AccessSlice(copied, src, FALSE, "transfer"), dst, TRUE, "transfer")

\* updateBuffer.
UpdateBuffer(slice) ==
  LET clean == RecordIfDirty(SpillFor({}), {}, {slice})
      updated == Use(clean, {Accessing(slice, TRUE, "transfer")})
  IN  context' = AccessSlice(updated, slice, TRUE, "transfer")

\* copyBufferToImage of all aspects of an image, all of it or a part.  The
\* source is a slice of length 0: it is overlapped only by slices that begin
\* before it, and what the copy reads of it is not an access here.
CopyBufferToImage(i, full, src) ==
  LET empty == [src EXCEPT !.size = 0]
      clean == RecordIfDirty(SpillFor({i}), {empty}, {Whole(i)})
      transfer == TransferLayout(i)
      moved == Acquire(clean, i, IF full THEN "undefined" ELSE InfoLayout(i), transfer, {})
      copied == Use(InLayouts(moved, {i}, TransferLayout),
                    {Accessing(Whole(i), TRUE, "transfer")})
      seen == IF full THEN Cleared(copied, i, Aspects(i)) ELSE See(copied, {i})
  IN  context' = AccessSlice(AccessImage(seen, i, transfer, InfoLayout(i), TRUE, "transfer"),
                             empty, FALSE, "transfer")

\* emitRenderTargetReadbackBarrier, emitMemoryBarrier.
EmitReadbackBarrier == context' = Barrier(SpillFor({}), {"color"}, {})

\* endRecording, the submission, which waits for the GPU, and beginRecording.
\* Deferred clears are carried over to the next command list.
FlushCommandList ==
  LET ended == RecordCommands(Spill(context))
  IN  context' = [ended EXCEPT !.pending = {}, !.dirty = TRUE]

\* Commands use one buffer, a unit of it or an image.
Command ==
  \/ /\ context.targets # {}
     /\ \/ \E i \in Images : Draw({i}, {})
        \/ \E b \in WholeBuffers : Draw({}, {b})
  \/ \E i \in Images, write \in BOOLEAN : (write => i \in Colors) /\ Dispatch({i}, {}, write)
  \/ \E b \in WholeBuffers, write \in BOOLEAN : Dispatch({}, {b}, write)
  \/ \E src, dst \in BufferUnits : src # dst /\ CopyBuffer(src, dst)
  \/ \E dst \in BufferUnits : UpdateBuffer(dst)
  \/ \E i \in Images, full \in BOOLEAN, src \in WholeBuffers : CopyBufferToImage(i, full, src)

ContextNext ==
  \/ \E targets \in Targets : BindRenderTargets(targets)
  \/ \E i \in context.targets : \E aspects \in (SUBSET Aspects(i)) \ {{}} :
       ClearRenderTarget(i, aspects)
  \/ Cardinality(context.barriers.slices) <= MaxSlices /\ Command
  \/ EmitReadbackBarrier
  \/ FlushCommandList

ContextSpec == ContextInit /\ [][ContextNext]_context

------------------------------------------------------------------------------
\* The fields keep their types.
ContextTypeOK ==
  /\ context.targets \cup context.framebuffer \subseteq Images
  /\ context.dirty \in BOOLEAN /\ context.bound \in BOOLEAN
  /\ context.rtLayouts \in [Images -> Layouts]
  /\ context.loads = BoundLayouts
  /\ context.clears = [i \in Images |-> {}]
  /\ context.layout \in [Images -> Layouts]
  /\ \A k \in DOMAIN context.deferred : context.deferred[k].image \in Images
  /\ context.barriers.stages \subseteq DOMAIN WaitedBy

\* No command is executed while an access it conflicts with may still be under
\* way: a barrier in between has waited for it.
NoCommandRaces == context.raced = {}

\* Barriers, render passes, copies and descriptors name the layout the image
\* is in, whatever passes, clears and copies it went through.  A depth image
\* is not initialised: the first use of it is not counted.
LayoutsAreTracked == context.misplaced = {}

\* Putting off clears changes nothing a command sees: an image that a command
\* uses holds what was called for, in order and in every aspect.  Not so when
\* a pass is bound for which the clear is too large or whose attachment it is
\* not, or when a dispatch comes first (see late).
ClearsKeepTheirPlace == context.overtaken = {}
==============================================================================
