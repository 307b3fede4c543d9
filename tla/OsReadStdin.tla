---------------------------- MODULE OsReadStdin ----------------------------
(***************************************************************************)
(* os_read_stdin of fs.c: bytes of any number arrive per read, the buffer  *)
(* grows in place by one step when the next read might not fit, and the    *)
(* loop ends at the end of the input, one byte past the limit, at a NUL or *)
(* at an error.                                                            *)
(***************************************************************************)
EXTENDS Naturals

CONSTANTS
  StepLen,     \* OS_READ_STDIN_STEP_LEN
  InputLenMax,  \* data_len_max
  MaxInput     \* Bound: length of the input

ASSUME OsReadStdinAssumption ==
  /\ StepLen \in Nat \ {0}
  /\ InputLenMax \in Nat /\ MaxInput \in Nat

VARIABLES
  inputLen,  \* Bytes that the writer sends before it closes the pipe
  nulAt,     \* Place of the first NUL among them, or 0
  stdinPc,        \* "grow" before a read, "read", "returned" or "oom"
  cap,       \* data_cap
  len,       \* data_len
  consumed,  \* Bytes taken from the pipe
  stdinCause,     \* The error logged, "ok" when there is none
  permLen    \* How far the caller's arena has moved

input == <<inputLen, nulAt>>
stdinVars == <<input, stdinPc, cap, len, consumed, stdinCause, permLen>>

StdinInit ==
  /\ inputLen \in 0..MaxInput
  /\ nulAt \in 0..inputLen
  /\ stdinPc = "grow" /\ cap = 0 /\ len = 0 /\ consumed = 0
  /\ stdinCause = "ok" /\ permLen = 0

\* At most one byte past the limit.
Want_UpToLimit == IF InputLenMax - len < StepLen THEN InputLenMax - len ELSE StepLen
Want == IF InputLenMax - len < StepLen THEN InputLenMax - len + 1 ELSE StepLen

NeedsRoom_WhenFull == cap = len
NeedsRoom == cap - len < Want

\* The arena may run out, which ends the process.
Grow ==
  /\ stdinPc = "grow"
  /\ \/ NeedsRoom /\ stdinPc' \in {"read", "oom"} /\ cap' = cap + StepLen
     \/ ~NeedsRoom /\ stdinPc' = "read" /\ UNCHANGED cap
  /\ UNCHANGED <<input, len, consumed, stdinCause, permLen>>

Return(c) ==
  /\ stdinPc' = "returned" /\ stdinCause' = c
  /\ permLen' = IF c = "ok" THEN cap ELSE permLen

\* read, which an interruption makes try again from the start.
Interrupted ==
  /\ stdinPc = "read"
  /\ stdinPc' = "grow"
  /\ UNCHANGED <<input, cap, len, consumed, stdinCause, permLen>>

ReadFails ==
  /\ stdinPc = "read"
  /\ Return("errno")
  /\ UNCHANGED <<input, cap, len, consumed>>

AtEnd == consumed = inputLen \/ Want = 0

ReadEnd_Again ==
  /\ stdinPc = "read" /\ AtEnd
  /\ stdinPc' = "grow"
  /\ UNCHANGED <<input, cap, len, consumed, stdinCause, permLen>>
\* read returns 0 at the end, and also when it is asked for nothing.
ReadEnd ==
  /\ stdinPc = "read"
  /\ AtEnd
  /\ Return("ok")
  /\ UNCHANGED <<input, cap, len, consumed>>

ChunkHasNul(n) == nulAt \in (len + 1)..(len + n)

InputLenAfter(n) == len + n

IsOverLimit(n) == len + n > InputLenMax

ReadSome ==
  /\ stdinPc = "read"
  /\ \E n \in 1..(inputLen - consumed) :
       /\ n <= Want
       /\ consumed' = consumed + n
       /\ \/ ChunkHasNul(n) /\ Return("nul") /\ UNCHANGED len
          \/ ~ChunkHasNul(n) /\ IsOverLimit(n) /\ Return("too_large") /\ len' = InputLenAfter(n)
          \/ /\ ~ChunkHasNul(n) /\ ~IsOverLimit(n)
             /\ stdinPc' = "grow" /\ len' = InputLenAfter(n) /\ UNCHANGED <<stdinCause, permLen>>
  /\ UNCHANGED <<input, cap>>

StdinStep == Grow \/ ReadFails \/ ReadEnd \/ ReadSome

StdinNext == StdinStep \/ Interrupted

\* The writer closes the pipe in the end, so a read always returns, and signals
\* do not interrupt every read.
StdinFairness == WF_stdinVars(Grow) /\ SF_stdinVars(ReadEnd \/ ReadSome)
StdinSpec == StdinInit /\ [][StdinNext]_stdinVars /\ StdinFairness

-----------------------------------------------------------------------------
(* Properties *)

StdinTypeOK ==
  /\ inputLen \in 0..MaxInput /\ nulAt \in 0..inputLen
  /\ stdinPc \in {"grow", "read", "returned", "oom"}
  /\ cap \in Nat /\ permLen \in Nat
  /\ consumed \in 0..inputLen /\ len \in 0..consumed
  /\ stdinCause \in {"ok", "errno", "nul", "too_large"}

\* A read never writes past the buffer, and always asks for a byte at least, so
\* that a read of nothing is the end of the input.
ReadFits == stdinPc = "read" => Want > 0 /\ len + Want <= cap

\* The input is taken whole exactly when it is within the limit and has no NUL,
\* and is refused for what it is.
VerdictIsExact ==
  stdinPc = "returned" =>
    /\ stdinCause = "ok" => len = inputLen /\ inputLen <= InputLenMax /\ nulAt = 0
    /\ stdinCause = "nul" => nulAt \in 1..(InputLenMax + 1)
    /\ stdinCause = "too_large" => inputLen > InputLenMax /\ nulAt \notin 1..InputLenMax

\* The limit bounds the bytes taken from the writer and the memory they take: one
\* byte past the limit, and less than two steps past the bytes kept. A failure
\* leaves the caller's arena as it was.
LimitBoundsMemory ==
  /\ consumed <= InputLenMax + 1
  /\ stdinPc # "oom" => cap < len + 2 * StepLen
  /\ stdinPc = "returned" /\ stdinCause # "ok" => permLen = 0

\* The two together: each read fits the buffer, and the buffer the limit.
BufferIsBounded == ReadFits /\ LimitBoundsMemory

\* A read that always gets an answer ends, however little each read returns.
ReadEnds == <>(stdinPc \in {"returned", "oom"})
=============================================================================
