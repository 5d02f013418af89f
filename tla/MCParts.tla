------------------------------ MODULE MCParts ------------------------------
(***************************************************************************)
(* The parts that stand on their own, for TLC: five of the muduo library   *)
(* and two of the C client.  They share no state: a behaviour picks one of *)
(* them and exercises that one, so the run visits the states of each and   *)
(* none of their product.                                                  *)
(***************************************************************************)
EXTENDS BufferClient, BlockingQueue, LogText, Singletons, SendFifo, ClientList,
        HttpRequest

VARIABLE unit   \* the part this behaviour exercises

\* "\r\n", with the byte 1 for "\n".
CRLF == <<0, 1>>

\* What StringPieces point into: prefixes, equal pieces and a shared middle.
Mem == <<1, 2, 1, 2>>

NullText == <<3, 3>>

\* Threads, workers, pushers and clients are interchangeable, each in its part.
\* As no behaviour mixes the parts, the two pushers also serve as threads, workers
\* and clients: exchanging them exchanges two of these in the part exercised.
PartsSymmetry == Permutations(Pusher)

Init ==
  /\ unit \in {"buffer", "queue", "text", "singletons", "fifo", "list", "http"}
  /\ BufInit /\ QueInit /\ TextInit /\ SglInit /\ FifoInit /\ ListInit
  /\ HttpInit
  /\ unit # "queue" => bounded

Next ==
  /\ UNCHANGED unit
  /\ \/ unit = "buffer" /\ BufNext
        /\ UNCHANGED <<queVars, textVars, sglVars, fifoVars, listVars, httpVars>>
     \/ unit = "queue" /\ QueNext
        /\ UNCHANGED <<bufVars, textVars, sglVars, fifoVars, listVars, httpVars>>
     \/ unit = "text" /\ TextNext
        /\ UNCHANGED <<bufVars, queVars, sglVars, fifoVars, listVars, httpVars>>
     \/ unit = "singletons" /\ SglNext
        /\ UNCHANGED <<bufVars, queVars, textVars, fifoVars, listVars, httpVars>>
     \/ unit = "fifo" /\ FifoNext
        /\ UNCHANGED <<bufVars, queVars, textVars, sglVars, listVars, httpVars>>
     \/ unit = "list" /\ ListNext
        /\ UNCHANGED <<bufVars, queVars, textVars, sglVars, fifoVars, httpVars>>
     \/ unit = "http" /\ HttpNext
        /\ UNCHANGED <<bufVars, queVars, textVars, sglVars, fifoVars, listVars>>

Spec ==
  Init /\ [][Next]_<<unit, bufVars, queVars, textVars, sglVars, fifoVars, listVars,
                    httpVars>>

============================================================================
