--------------------------- MODULE InputContract ---------------------------
(***************************************************************************)
(* What the topology relies on from an Input (api.go): while Run is        *)
(* running it may send buffers, each chunk of the data at most once; once  *)
(* it has returned nothing is sent any more (Wait() closes the channel);   *)
(* and it returns without an error only when everything there was to read  *)
(* has been sent.  The process may also be ended by log.Fatal.             *)
(***************************************************************************)
EXTENDS Sequences

VARIABLES readable,     \* the chunks of data that can be read: fixed
          chunks,       \* chunks sent, in order
          run           \* "running", "ok" (returned nil), "error", "dead"

cvars == <<readable, chunks, run>>

SentChunks == {chunks[i] : i \in DOMAIN chunks}

Init == chunks = <<>> /\ run = "running"

Send(c) == /\ run = "running"
           /\ c \notin SentChunks
           /\ chunks' = Append(chunks, c)
           /\ UNCHANGED <<readable, run>>

ReturnOk == /\ run = "running"
            /\ SentChunks = readable
            /\ run' = "ok"
            /\ UNCHANGED <<readable, chunks>>

ReturnError == /\ run = "running"
               /\ run' \in {"error", "dead"}
               /\ UNCHANGED <<readable, chunks>>

Next == \/ \E c \in readable : Send(c)
        \/ ReturnOk
        \/ ReturnError

Spec == Init /\ [][Next]_cvars
=============================================================================
