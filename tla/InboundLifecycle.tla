-------------------------- MODULE InboundLifecycle --------------------------
(***************************************************************************)
(* The inbound half over several lives of the bridge.  When the bridge is  *)
(* stopped the event loop ends, the goroutines it started are waited for,  *)
(* and what is queued or on hold is saved; the next life loads it.  The    *)
(* file is not removed, so a life that ends in a crash leaves the next one *)
(* the requests of an earlier shutdown.  The joltify chain goes on all the *)
(* while, with the transactions that were sent.                            *)
(***************************************************************************)
EXTENDS InboundBridge

CONSTANTS
    MaxStops,   \* bound: how often the bridge is stopped
    MaxCrashes  \* bound: how often it crashes

ASSUME LifecycleAssumption == MaxStops \in Nat /\ MaxCrashes \in Nat

VARIABLES
    mode,      \* "up", "stopping" once the context is cancelled, "down"
    file,      \* inboundtx.dat
    stops, crashes,
    crashedIn  \* a crash came while transactions were still to be executed

lifeVars == <<mode, file, stops, crashes, crashedIn>>
allVars == <<vars, lifeVars>>

LifeInit ==
    /\ Init
    /\ mode = "up" /\ file = {} /\ stops = 0 /\ crashes = 0
    /\ crashedIn = FALSE

\* What a new process starts with: the variables of addEventLoop, and the
\* requests q in the queue.
NewProcess(q) ==
    /\ queue' = q /\ onHold' = {} /\ reqChan' = <<>>
    /\ done' = TRUE /\ firstTime' = TRUE /\ failed' = 0 /\ wait' = FALSE
    /\ keygen' = FALSE
    /\ gapLeft' = GroupBlockGap + RollbackGap
    /\ pauseLeft' = 0 /\ backlog' = 0
    /\ pc' = [g \in Workers |-> "idle"]
    /\ batch' = [g \in Workers |-> NoBatch]
    /\ todo' = [g \in Workers |-> {}]
    /\ UNCHANGED <<seen, minted, accSeq, signed, faults>>

(* A signal cancels the context and the loop takes that branch of the       *)
(* select, whatever else is ready.                                          *)
Stop ==
    /\ mode = "up" /\ stops < MaxStops
    /\ mode' = "stopping" /\ stops' = stops + 1
    /\ UNCHANGED <<vars, file, crashes, crashedIn>>

\* wg.Wait() has returned.
AllEnded == Running = {} /\ ~keygen

\* Mutant: what is on hold is not put back before the queue is exported.
ExportQueueOnly == queue

\* DumpQueue puts what is on hold back, and ExportItems lists the queue.
ExportItems == queue \cup onHold

\* inboundtx.dat is written, and read.
SaveInBoundState == file' = ExportItems
LoadInBoundState == file

(* All goroutines have ended; the requests are saved and the process ends.  *)
Exit ==
    /\ mode = "stopping" /\ AllEnded
    /\ mode' = "down" /\ SaveInBoundState
    /\ NewProcess({}) /\ phase' = phase
    /\ UNCHANGED <<stops, crashes, crashedIn>>

(* The process is gone.  A file that was just being written is empty then.  *)
Crash ==
    /\ mode # "down" /\ crashes < MaxCrashes
    /\ mode' = "down" /\ crashes' = crashes + 1
    /\ \/ file' = file
       \/ mode = "stopping" /\ AllEnded /\ file' = {}
    /\ crashedIn' = (crashedIn \/ signed # {})
    /\ NewProcess({}) /\ phase' = phase
    /\ UNCHANGED stops

(* The bridge is started again, some blocks later, and loads the file.      *)
Restart ==
    /\ mode = "down" /\ mode' = "up"
    /\ NewProcess(LoadInBoundState) /\ phase' \in 0 .. RoundBlock - 1
    /\ UNCHANGED <<file, stops, crashes, crashedIn>>

\* What the chain does on its own, and what goroutines still do when the
\* event loop has ended.
ChainStep == \E t \in signed : ExecTx(t) \/ ExpireTx(t)
WorkerStep == KeygenEnd \/ \E g \in Workers : processInbound(g)

LifeNext ==
    \/ Stop \/ Exit \/ Crash \/ Restart
    \/ mode = "up" /\ Next /\ UNCHANGED lifeVars
    \/ mode = "stopping" /\ (WorkerStep \/ ChainStep) /\ UNCHANGED lifeVars
    \/ mode = "down" /\ ChainStep /\ UNCHANGED lifeVars

LifeSpec == LifeInit /\ [][LifeNext]_allVars
-----------------------------------------------------------------------------
\* What the node will still work on: in this life, or in the next.
Kept == IF mode = "down" THEN file ELSE Held

(* A clean shutdown costs at most the batch that was waiting in             *)
(* InboundReqChan: all other requests that are not minted are in the file.  *)
StopLosesOneBatch ==
    [][Exit => Cardinality(Kept \ (Kept' \cup minted)) <= GroupSign]_allVars

(* However lives end, a request that is loaded again is not minted again    *)
(* while a transaction for it can still be executed, unless a crash left    *)
(* transactions behind: only the record on joltify stops those.             *)
RestartMintsOnce == crashedIn \/ NoSecondMint
=============================================================================
