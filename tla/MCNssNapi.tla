------------------------------ MODULE MCNssNapi ------------------------------
(* Causes for the model-checking runs of NssNapi. *)
EXTENDS NssNapi

\* A queue of high and one of low priority.
TwoQueues == {EMPTY_QUEUE, DATA_QUEUE_0}

\* The only cause that masks itself.
OneNonQueue == {TX_UNBLOCKED}
=============================================================================
