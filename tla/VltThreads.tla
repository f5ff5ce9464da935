----------------------------- MODULE VltThreads -----------------------------
(* The threads that record command lists, each with a context of its own:    *)
(* the graphics and compute queues, the initializer, the swapchain           *)
(* (Graphics/Violet/VltContext.cpp).                                         *)

CONSTANTS
  Contexts,  \* recording contexts, one thread each
  Nil        \* the null Rc

ASSUME ContextsAssumption == Nil \notin Contexts

=============================================================================
