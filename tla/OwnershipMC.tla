---------------------------- MODULE OwnershipMC ----------------------------
(***************************************************************************)
(* Who owes a wake-up and who owns memory: the bounded queue with its      *)
(* threads, and the two programs of windows-io-lab with their kernel, in   *)
(* one run.  lab says which of them a behaviour belongs to.                *)
(***************************************************************************)
EXTENDS BoundedQueue

CONSTANTS HeaderSize, PayloadSize, AckSize, MaxFrame, Payload

VARIABLES
  lab,
  pc, kernel, port, late,
  store, phase, received, frame, claims, total, taken, got,
  rest, outstanding, open, freed, cq, armed, wire, sent, memory

io == <<pc, kernel, port, late>>
iocp == <<store, phase, received, frame, claims, total, taken, got>>
rio == <<rest, outstanding, open, freed, cq, armed, wire, sent, memory>>
allVars == <<lab, vars, io, iocp, rio>>

I == INSTANCE IocpServer
R == INSTANCE RioLoopback

ASSUME OwnershipAssumption == I!IocpAssumption /\ R!RioAssumption

NoIo == pc = "none" /\ kernel = {} /\ port = {} /\ late = FALSE
NoIocp ==
  /\ store = {} /\ phase = "none" /\ received = FALSE /\ frame = <<>>
  /\ claims = 0 /\ total = 0 /\ taken = 0 /\ got = <<>>
NoRio ==
  /\ rest = 0 /\ outstanding = 0 /\ open = 0 /\ freed = {} /\ cq = 0 /\ armed = {}
  /\ wire = <<>> /\ sent = 0 /\ memory = <<>>

InitLab ==
  /\ Init
  /\ \/ lab = "queue" /\ NoIo /\ NoIocp /\ NoRio
     \/ lab = "iocp" /\ I!Init /\ NoRio
     \/ lab = "rio" /\ R!Init /\ NoIocp

InQueue == lab = "queue" /\ UNCHANGED <<lab, io, iocp, rio>>
InIocp == lab = "iocp" /\ UNCHANGED <<lab, vars, rio>>
InRio == lab = "rio" /\ UNCHANGED <<lab, vars, iocp>>

NextLab ==
  \/ InQueue /\ Next
  \/ InIocp /\ I!Next
  \/ InRio /\ R!Next

\* Time passes and each program goes on; no operation has to complete.
FairLab ==
  /\ InitLab /\ [][NextLab]_allVars
  /\ WF_allVars(InQueue /\ NotifyClosed)
  /\ \A t \in Threads : WF_allVars(InQueue /\ Resume(t))
  /\ WF_allVars(InIocp /\ I!TimePasses) /\ WF_allVars(InIocp /\ I!Server)
  /\ WF_allVars(InRio /\ R!TimePasses) /\ WF_allVars(InRio /\ R!Program)
  /\ WF_allVars(InRio /\ R!TimesOut)
-----------------------------------------------------------------------------
\* Neither program gives memory back that the kernel may still use, also when an
\* operation failed, was canceled or timed out.
MemoryOwned ==
  /\ lab = "iocp" => I!OwnedUntilDequeued
  /\ lab = "rio" => R!RegisteredWhileUsed

\* Partial completions on either side neither lose, repeat nor reorder a byte.
BytesWhole ==
  /\ lab = "iocp" => I!FramesWhole
  /\ lab = "rio" => R!PayloadWhole

\* A kernel or peer that stays silent cannot keep either program: its deadlines end it.
ProgramsEnd == (lab = "iocp" => <>I!Ended) /\ (lab = "rio" => <>R!Ended)
=============================================================================
