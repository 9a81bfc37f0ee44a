---------------------------- MODULE JniHelpProofs ----------------------------
(***************************************************************************)
(* Proofs about JniHelp.  What a helper has taken, what may be pending and *)
(* what was logged is a matter of the step it is at.  The invariant says   *)
(* of every step                                                           *)
(*   CallInv, PcInv  which helper is there, and how it was called;         *)
(*   HeldInv         which references and buffers it may hold;             *)
(*   PendingInv      which exception may be pending;                       *)
(*   TextInv, LogInv which buffers are written, and what the log has.      *)
(* That the builds' logs differ in verbose messages only is about          *)
(* SelectSeq, which is recursive, and stays with TLC.                      *)
(***************************************************************************)
EXTENDS JniHelp, FiniteSetTheorems, TLAPS

Labels == {"summary", "nameChars", "getMessage", "messageChars", "copied", "summaryFails",
           "discard", "find", "new", "print", "printFails", "logged", "register"}

\* The steps of the helpers that throw, and of the one that logs.
ThrowLabels == {"summary", "nameChars", "getMessage", "messageChars", "copied", "summaryFails",
                "discard", "find", "new"}
LogLabels == {"summary", "nameChars", "getMessage", "messageChars", "copied", "summaryFails",
              "print", "printFails", "logged"}

\* Which helper is at which step, and what it was called with.
CallInv ==
    /\ helper \in Helpers \cup {NoHelper}
    /\ before \in {None, "caller's"}
    /\ before # None => helper \in Throwing \cup {"jniLogException"}
    /\ given => helper = "jniLogException" /\ before = None

PcInv ==
    /\ pc \in Helpers \cup Labels \cup {"returned", "aborted"}
    /\ pc \in Helpers => helper = pc \/ (pc = "jniThrowException" /\ helper = "jniThrowIOException")
    /\ pc \in Labels =>
         \/ helper \in Throwing /\ pc \in ThrowLabels
         \/ helper = "jniLogException" /\ pc \in LogLabels
         \/ helper = "jniRegisterNativeMethods" /\ pc = "register"

\* The references a step may find held; the discarded exception's is one of
\* them from ThrowBegins to Discard, and from LogBegins to LogEnds.
MayHold ==
    CASE pc \in {"summary", "discard", "printFails", "logged"} -> {"exception"}
      [] pc \in {"nameChars", "getMessage", "copied"} -> {"exception", "classNameStr"} \cup ClassRefs
      [] pc = "messageChars" -> {"exception", "classNameStr", "messageStr"} \cup ClassRefs
      [] pc = "summaryFails" -> {"exception"} \cup ClassRefs
      [] pc = "new" -> {"exceptionClass"}
      [] pc = "print" -> {"exception"} \cup PrintedRefs
      [] pc = "returned" /\ helper = "registerJniHelp" -> {"FileDescriptor"}
      [] OTHER -> {}

HeldInv ==
    pc # "aborted" =>
       /\ refs \subseteq MayHold
       /\ chars \subseteq IF pc \in {"getMessage", "messageChars", "copied"}
                          THEN {"classNameChars"} ELSE {}

\* What may be pending: only a getMessage that threw leaves something at a step
\* that calls JNI.
PendingInv ==
    /\ pc \in Helpers => pending = before
    /\ pc \in {"summary", "nameChars", "getMessage", "messageChars", "print", "register"} =>
         pending = None
    /\ pc \in {"copied", "discard", "find", "new", "logged"} =>
         pending = None \/ (pending = "nested" /\ strayed)
    /\ SomethingIsThrown /\ LoggingKeepsException /\ JniCallsAreLegal

IInv == CallInv /\ PcInv /\ HeldInv /\ PendingInv

------------------------------------------------------------------------------
(* Which helper is at which step.                                          *)

USE DEF None, NoHelper, Throwing, UsesCache, Helpers, callVars, JniCall, Succeeds, FailsWith,
        Keep, Write, GoTo, Return, AfterSummary

LEMMA CallNext == CallInv /\ [Next]_vars => CallInv'
<1> SUFFICES ASSUME CallInv, [Next]_vars PROVE CallInv'
  OBVIOUS
<1> USE DEF CallInv
<1>1. CASE UNCHANGED vars
  BY <1>1 DEF vars
<1>2. ASSUME NEW h \in Helpers, NEW exception \in {None, "caller's"}, NEW argument \in BOOLEAN,
             Call(h, exception, argument)
      PROVE CallInv'
  BY <1>2 DEF Call
<1>3. ASSUME NEW unit, NEW own, NEW name, NEW conditional, NEW cond,
             Log(unit, own, name, conditional, cond)
      PROVE CallInv'
  BY <1>3 DEF Log
<1>4. CASE Step
  <2>1. UNCHANGED <<helper, before, given>>
    BY <1>4 DEF Step, StrError, ThrowBegins, Discard, FindExceptionClass, ThrowNew, Summary,
       NameChars, GetMessage, MessageChars, SummarySucceeds, SummaryFails, LogBegins,
       PrintStackTrace, PrintSummary, LogEnds, RegisterJniHelp, RegisterBegins,
       RegisterNativeMethods, GetNonMovableArrayElements, CreateFileDescriptor,
       GetFDFromFileDescriptor, SetFileDescriptorOfFD
  <2> QED BY <2>1
<1> QED BY <1>1, <1>2, <1>3, <1>4 DEF Next

LEMMA PcNext == PcInv /\ [Next]_vars => PcInv'
<1> SUFFICES ASSUME PcInv, [Next]_vars PROVE PcInv'
  OBVIOUS
<1> USE DEF PcInv
<1>1. CASE UNCHANGED vars
  BY <1>1 DEF vars
<1>2. ASSUME NEW h \in Helpers, NEW exception \in {None, "caller's"}, NEW argument \in BOOLEAN,
             Call(h, exception, argument)
      PROVE PcInv'
  BY <1>2 DEF Call, Labels
<1>3. ASSUME NEW unit, NEW own, NEW name, NEW conditional, NEW cond,
             Log(unit, own, name, conditional, cond)
      PROVE PcInv'
  BY <1>3 DEF Log, Labels
<1> USE DEF Labels, ThrowLabels, LogLabels
<1>4. CASE StrError
  BY <1>4 DEF StrError
<1>5. CASE ThrowBegins
  BY <1>5 DEF ThrowBegins
<1>6. CASE Discard
  BY <1>6 DEF Discard
<1>7. CASE FindExceptionClass
  BY <1>7 DEF FindExceptionClass
<1>8. CASE ThrowNew
  BY <1>8 DEF ThrowNew
<1>9. CASE Summary
  BY <1>9 DEF Summary
<1>10. CASE NameChars
  BY <1>10 DEF NameChars
<1>11. CASE GetMessage
  BY <1>11 DEF GetMessage
<1>12. CASE MessageChars
  BY <1>12 DEF MessageChars
<1>13. CASE SummarySucceeds
  BY <1>13 DEF SummarySucceeds
<1>14. CASE SummaryFails
  BY <1>14 DEF SummaryFails
<1>15. CASE LogBegins
  BY <1>15 DEF LogBegins
<1>16. CASE PrintStackTrace
  BY <1>16 DEF PrintStackTrace, PrintFails
<1>17. CASE PrintSummary
  BY <1>17 DEF PrintSummary
<1>18. CASE LogEnds
  BY <1>18 DEF LogEnds
<1>19. CASE RegisterJniHelp
  BY <1>19 DEF RegisterJniHelp
<1>20. CASE RegisterBegins
  BY <1>20 DEF RegisterBegins
<1>21. CASE RegisterNativeMethods
  BY <1>21 DEF RegisterNativeMethods
<1>22. CASE GetNonMovableArrayElements
  BY <1>22 DEF GetNonMovableArrayElements
<1>23. CASE CreateFileDescriptor
  BY <1>23 DEF CreateFileDescriptor
<1>24. CASE GetFDFromFileDescriptor
  BY <1>24 DEF GetFDFromFileDescriptor
<1>25. CASE SetFileDescriptorOfFD
  BY <1>25 DEF SetFileDescriptorOfFD
<1> QED BY <1>1, <1>2, <1>3, <1>4, <1>5, <1>6, <1>7, <1>8, <1>9, <1>10, <1>11, <1>12, <1>13, <1>14, <1>15, <1>16, <1>17, <1>18, <1>19, <1>20, <1>21, <1>22, <1>23, <1>24, <1>25 DEF Next, Step

------------------------------------------------------------------------------
(* What is held.                                                           *)

LEMMA PrintedAre ==
  /\ Len(Printed) = 6 /\ DOMAIN Printed = 1 .. 6
  /\ \A i \in 1 .. 6 : Printed[i] \in PrintedRefs
  /\ IsFiniteSet(PrintedRefs)
  /\ "exception" \notin PrintedRefs
<1>1. Len(Printed) = 6 /\ DOMAIN Printed = 1 .. 6
  BY DEF Printed
<1>2. 1 .. 6 = {1, 2, 3, 4, 5, 6}
  OBVIOUS
<1>3. PrintedRefs = {Printed[i] : i \in 1 .. 6}
  BY <1>1 DEF PrintedRefs
<1>4. IsFiniteSet(PrintedRefs)
  <2>1. IsFiniteSet(1 .. 6)
    <3>1. 1 \in Int /\ 6 \in Int
      OBVIOUS
    <3> QED BY <3>1, FS_Interval
  <2> DEFINE f == [i \in 1 .. 6 |-> Printed[i]]
  <2>2. f \in Surjection(1 .. 6, PrintedRefs)
    BY <1>3 DEF Surjection
  <2> QED BY <2>1, <2>2, FS_Surjection
<1>5. "exception" \notin PrintedRefs
  BY <1>2, <1>3 DEF Printed
<1> QED BY <1>1, <1>3, <1>4, <1>5

\* The position of what printStackTrace makes next.
LEMMA MadeIsNat == Cardinality(refs \cap PrintedRefs) \in Nat
<1>1. IsFiniteSet(refs \cap PrintedRefs)
  BY PrintedAre, FS_Subset
<1> QED BY <1>1, FS_CardinalityType

LEMMA HeldNext == PcInv /\ HeldInv /\ [Next]_vars => HeldInv'
<1> SUFFICES ASSUME PcInv, HeldInv, [Next]_vars PROVE HeldInv'
  OBVIOUS
<1> USE DEF PcInv, HeldInv, MayHold, Labels, ThrowLabels, LogLabels, ClassRefs
<1>1. CASE UNCHANGED vars
  BY <1>1 DEF vars
<1>2. ASSUME NEW h \in Helpers, NEW exception \in {None, "caller's"}, NEW argument \in BOOLEAN,
             Call(h, exception, argument)
      PROVE HeldInv'
  BY <1>2 DEF Call, Anew
<1>3. ASSUME NEW unit, NEW own, NEW name, NEW conditional, NEW cond,
             Log(unit, own, name, conditional, cond)
      PROVE HeldInv'
  BY <1>3 DEF Log, Anew
<1>4. CASE StrError
  BY <1>4 DEF StrError
<1>5. CASE ThrowBegins
  BY <1>5 DEF ThrowBegins
<1>6. CASE Discard
  BY <1>6 DEF Discard
<1>7. CASE FindExceptionClass
  BY <1>7 DEF FindExceptionClass
<1>8. CASE ThrowNew
  BY <1>8 DEF ThrowNew
<1>9. CASE Summary
  BY <1>9 DEF Summary
<1>10. CASE NameChars
  BY <1>10 DEF NameChars
<1>11. CASE GetMessage
  BY <1>11 DEF GetMessage
<1>12. CASE MessageChars
  BY <1>12 DEF MessageChars
<1>13. CASE SummarySucceeds
  BY <1>13 DEF SummarySucceeds
<1>14. CASE SummaryFails
  BY <1>14 DEF SummaryFails
<1>15. CASE LogBegins
  BY <1>15 DEF LogBegins
<1>16. CASE PrintStackTrace
  <2>1. CASE pc' = "print"
    <3>1. Cardinality(refs \cap PrintedRefs) + 1 \in 1 .. 6
      BY <1>16, <2>1, MadeIsNat, PrintedAre DEF PrintStackTrace, PrintFails
    <3>2. \E ref \in PrintedRefs : refs' = refs \cup {ref}
      BY <1>16, <2>1, <3>1, PrintedAre DEF PrintStackTrace, PrintFails
    <3> QED BY <1>16, <2>1, <3>2 DEF PrintStackTrace
  <2>2. CASE pc' # "print"
    BY <1>16, <2>2 DEF PrintStackTrace, PrintFails
  <2> QED BY <2>1, <2>2
<1>17. CASE PrintSummary
  BY <1>17 DEF PrintSummary
<1>18. CASE LogEnds
  BY <1>18 DEF LogEnds
<1>19. CASE RegisterJniHelp
  BY <1>19 DEF RegisterJniHelp
<1>20. CASE RegisterBegins
  BY <1>20 DEF RegisterBegins
<1>21. CASE RegisterNativeMethods
  BY <1>21 DEF RegisterNativeMethods
<1>22. CASE GetNonMovableArrayElements
  BY <1>22 DEF GetNonMovableArrayElements
<1>23. CASE CreateFileDescriptor
  BY <1>23 DEF CreateFileDescriptor
<1>24. CASE GetFDFromFileDescriptor
  BY <1>24 DEF GetFDFromFileDescriptor
<1>25. CASE SetFileDescriptorOfFD
  BY <1>25 DEF SetFileDescriptorOfFD
<1> QED BY <1>1, <1>2, <1>3, <1>4, <1>5, <1>6, <1>7, <1>8, <1>9, <1>10, <1>11, <1>12, <1>13, <1>14, <1>15, <1>16, <1>17, <1>18, <1>19, <1>20, <1>21, <1>22, <1>23, <1>24, <1>25 DEF Next, Step

------------------------------------------------------------------------------
(* What is pending.                                                        *)

LEMMA PendingNext == CallInv /\ PcInv /\ PendingInv /\ [Next]_vars => PendingInv'
<1> SUFFICES ASSUME CallInv, PcInv, PendingInv, [Next]_vars PROVE PendingInv'
  OBVIOUS
<1> USE DEF CallInv, PcInv, PendingInv, Labels, ThrowLabels, LogLabels, SomethingIsThrown,
           LoggingKeepsException, JniCallsAreLegal, Returned
<1>1. CASE UNCHANGED vars
  BY <1>1 DEF vars
<1>2. ASSUME NEW h \in Helpers, NEW exception \in {None, "caller's"}, NEW argument \in BOOLEAN,
             Call(h, exception, argument)
      PROVE PendingInv'
  BY <1>2 DEF Call, Anew
<1>3. ASSUME NEW unit, NEW own, NEW name, NEW conditional, NEW cond,
             Log(unit, own, name, conditional, cond)
      PROVE PendingInv'
  BY <1>3 DEF Log, Anew
<1>4. CASE StrError
  BY <1>4 DEF StrError
<1>5. CASE ThrowBegins
  BY <1>5 DEF ThrowBegins
<1>6. CASE Discard
  BY <1>6 DEF Discard
<1>7. CASE FindExceptionClass
  <2>1. /\ pc = "find" /\ helper \in Throwing /\ helper' = helper /\ strayed' = strayed
        /\ pending = None \/ (pending = "nested" /\ strayed)
        /\ illegal' => illegal \/ strayed
    BY <1>7 DEF FindExceptionClass
  <2>2. \/ pc' = "new" /\ pending' = pending
        \/ pc' = "returned" /\ result' = -1 /\ pending' \in {"error", "nested"}
    BY <1>7, <2>1 DEF FindExceptionClass
  <2> QED BY <2>1, <2>2
<1>8. CASE ThrowNew
  <2>1. /\ pc = "new" /\ helper \in Throwing /\ helper' = helper /\ strayed' = strayed
        /\ illegal' => illegal \/ strayed
    BY <1>8 DEF ThrowNew
  <2>2. /\ pc' = "returned"
        /\ (pending' = "requested" /\ result' = 0) \/ (pending' = "error" /\ result' = -1)
    BY <1>8 DEF ThrowNew
  <2> QED BY <2>1, <2>2
<1>9. CASE Summary
  BY <1>9 DEF Summary
<1>10. CASE NameChars
  BY <1>10 DEF NameChars
<1>11. CASE GetMessage
  BY <1>11 DEF GetMessage
<1>12. CASE MessageChars
  BY <1>12 DEF MessageChars
<1>13. CASE SummarySucceeds
  BY <1>13 DEF SummarySucceeds
<1>14. CASE SummaryFails
  BY <1>14 DEF SummaryFails
<1>15. CASE LogBegins
  BY <1>15 DEF LogBegins
<1>16. CASE PrintStackTrace
  BY <1>16 DEF PrintStackTrace, PrintFails
<1>17. CASE PrintSummary
  BY <1>17 DEF PrintSummary
<1>18. CASE LogEnds
  BY <1>18 DEF LogEnds
<1>19. CASE RegisterJniHelp
  BY <1>19 DEF RegisterJniHelp
<1>20. CASE RegisterBegins
  BY <1>20 DEF RegisterBegins
<1>21. CASE RegisterNativeMethods
  BY <1>21 DEF RegisterNativeMethods
<1>22. CASE GetNonMovableArrayElements
  BY <1>22 DEF GetNonMovableArrayElements
<1>23. CASE CreateFileDescriptor
  BY <1>23 DEF CreateFileDescriptor
<1>24. CASE GetFDFromFileDescriptor
  BY <1>24 DEF GetFDFromFileDescriptor
<1>25. CASE SetFileDescriptorOfFD
  BY <1>25 DEF SetFileDescriptorOfFD
<1> QED BY <1>1, <1>2, <1>3, <1>4, <1>5, <1>6, <1>7, <1>8, <1>9, <1>10, <1>11, <1>12, <1>13, <1>14, <1>15, <1>16, <1>17, <1>18, <1>19, <1>20, <1>21, <1>22, <1>23, <1>24, <1>25 DEF Next, Step

------------------------------------------------------------------------------
(* What is written.                                                        *)

LEMMA MainMacrosAre ==
  /\ Macros("JNIHelp.c")["LOGW"] = [log |-> "MAIN", priority |-> "VERBOSE", stripped |-> FALSE]
  /\ Macros("JNIHelp.c")["LOGE"] = [log |-> "MAIN", priority |-> "ERROR", stripped |-> FALSE]
  /\ Macros("JNIHelp.c")["ALOGV"] = [log |-> "MAIN", priority |-> "VERBOSE", stripped |-> TRUE]
<1>1. DOMAIN MainMacros = {"ALOGV", "LOGW", "LOGE"}
  BY DEF MainMacros
<1>2. \A name \in {"ALOGV", "LOGW", "LOGE"} :
         name \notin DOMAIN SystemMacros \cup DOMAIN Assertions \cup DOMAIN EventMacros
  BY DEF SystemMacros, Assertions, EventMacros
<1>3. \A name \in {"ALOGV", "LOGW", "LOGE"} : Macros("JNIHelp.c")[name] = MainMacros[name]
  BY <1>1, <1>2 DEF Macros
<1> QED BY <1>3 DEF MainMacros, Kept, Stripped, LOG_WARN, LOG_ERROR, LOG_VERBOSE

\* What the helpers' three calls of a macro write.
LEMMA WrittenByHelpers ==
  ASSUME NEW b \in Builds
  PROVE  /\ Written(b, "JNIHelp.c", "unset", "LOGW") = <<Message("LOGW", "MAIN", "VERBOSE")>>
         /\ Written(b, "JNIHelp.c", "unset", "LOGE") = <<Message("LOGE", "MAIN", "ERROR")>>
         /\ Written(b, "JNIHelp.c", "unset", "ALOGV") \in {<<>>, <<Message("ALOGV", "MAIN", "VERBOSE")>>}
  BY MainMacrosAre DEF Written, Compiled

\* What a helper writes before it returns.
LogMessages ==
    [name : {"LOGW", "LOGE", "ALOGV"}, log : {"MAIN"}, priority : {"VERBOSE", "ERROR"}]

Warned(log) == \E i \in DOMAIN log : log[i].name = "LOGW"
Erred(log) == \E i \in DOMAIN log : log[i].priority = "ERROR"

\* What is written where: the buffers from the step that fills them, the log
\* from the step that says why an exception was lost.
TextInv ==
    /\ pc \in {"copied", "discard", "logged"} => "summary" \in texts
    /\ helper = "jniThrowIOException" /\ pc \notin {"jniThrowIOException", "returned", "aborted"} =>
         "message" \in texts

LogInv ==
    /\ helper = "jniLogException" /\ pc \in LogLabels => given \/ before # None
    /\ pc \notin {"returned", "aborted"} => logs \in [Builds -> Seq(LogMessages)]
    /\ \A b \in Builds \ stopped :
         /\ helper \in Throwing /\ before # None /\ pc \in {"find", "new", "returned"} => Warned(logs[b])
         /\ helper \in Throwing /\ pc = "returned" /\ result # 0 => Erred(logs[b])
         /\ helper = "jniLogException" =>
              IF pc = "returned" /\ (given \/ before # None)
              THEN logs[b] = <<Message("jniLogException", "MAIN", priority)>>
              ELSE logs[b] = <<>>

LEMMA AppendKeeps ==
  ASSUME NEW log \in Seq(LogMessages), NEW m \in LogMessages
  PROVE  /\ log \o <<m>> \in Seq(LogMessages)
         /\ Warned(log) \/ m.name = "LOGW" => Warned(log \o <<m>>)
         /\ Erred(log) \/ m.priority = "ERROR" => Erred(log \o <<m>>)
<1>1. log \o <<m>> \in Seq(LogMessages) /\ Len(log \o <<m>>) = Len(log) + 1
  OBVIOUS
<1>2. \A i \in 1 .. Len(log) : (log \o <<m>>)[i] = log[i]
  OBVIOUS
<1>3. (log \o <<m>>)[Len(log) + 1] = m
  OBVIOUS
<1>4. DOMAIN log = 1 .. Len(log) /\ DOMAIN (log \o <<m>>) = 1 .. Len(log) + 1 /\ Len(log) \in Nat
  BY <1>1
<1> QED BY <1>1, <1>2, <1>3, <1>4 DEF Warned, Erred

LEMMA CallsAreLogged ==
  ASSUME NEW name \in {"LOGW", "LOGE", "ALOGV"}, LogCall(name), logs \in [Builds -> Seq(LogMessages)]
  PROVE  /\ logs' \in [Builds -> Seq(LogMessages)]
         /\ \A b \in Builds \ stopped :
              /\ Warned(logs[b]) \/ name = "LOGW" => Warned(logs'[b])
              /\ Erred(logs[b]) \/ name = "LOGE" => Erred(logs'[b])
<1>1. logs' = [b \in Builds |-> IF b \in stopped THEN logs[b]
                                ELSE logs[b] \o Written(b, "JNIHelp.c", "unset", name)]
  BY DEF LogCall, Logs
<1>2. ASSUME NEW b \in Builds
      PROVE /\ logs[b] \o Written(b, "JNIHelp.c", "unset", name) \in Seq(LogMessages)
            /\ Warned(logs[b]) \/ name = "LOGW" => Warned(logs[b] \o Written(b, "JNIHelp.c", "unset", name))
            /\ Erred(logs[b]) \/ name = "LOGE" => Erred(logs[b] \o Written(b, "JNIHelp.c", "unset", name))
  <2>1. CASE Written(b, "JNIHelp.c", "unset", name) = <<>>
    <3>1. name = "ALOGV"
      <4>1. name = "ALOGV" \/ \E m : Written(b, "JNIHelp.c", "unset", name) = <<m>>
        BY WrittenByHelpers
      <4>2. \A m : <<m>> # <<>>
        OBVIOUS
      <4> QED BY <2>1, <4>1, <4>2
    <3>2. logs[b] \in Seq(LogMessages) /\ logs[b] \o <<>> = logs[b]
      OBVIOUS
    <3> QED BY <2>1, <3>1, <3>2
  <2>2. CASE Written(b, "JNIHelp.c", "unset", name) # <<>>
    <3>1. PICK priority_ \in {"VERBOSE", "ERROR"} :
            /\ Written(b, "JNIHelp.c", "unset", name) = <<Message(name, "MAIN", priority_)>>
            /\ name = "LOGE" => priority_ = "ERROR"
      <4>1. CASE name = "LOGE"
        BY <4>1, WrittenByHelpers
      <4>2. CASE name = "LOGW"
        BY <4>2, WrittenByHelpers
      <4>3. CASE name = "ALOGV"
        BY <2>2, <4>3, WrittenByHelpers
      <4> QED BY <4>1, <4>2, <4>3
    <3>2. /\ Message(name, "MAIN", priority_) \in LogMessages
          /\ Message(name, "MAIN", priority_).name = name
          /\ Message(name, "MAIN", priority_).priority = priority_
      BY DEF Message, LogMessages
    <3>3. logs[b] \in Seq(LogMessages)
      OBVIOUS
    <3> QED BY <3>1, <3>2, <3>3, AppendKeeps
  <2> QED BY <2>1, <2>2
<1> QED BY <1>1, <1>2

LEMMA TextNext == PcInv /\ TextInv /\ [Next]_vars => TextInv'
<1> SUFFICES ASSUME PcInv, TextInv, [Next]_vars PROVE TextInv'
  OBVIOUS
<1> USE DEF PcInv, TextInv, Labels, ThrowLabels, LogLabels
<1>1. CASE UNCHANGED vars
  BY <1>1 DEF vars
<1>2. ASSUME NEW h \in Helpers, NEW exception \in {None, "caller's"}, NEW argument \in BOOLEAN,
             Call(h, exception, argument)
      PROVE TextInv'
  BY <1>2 DEF Call, Anew
<1>3. ASSUME NEW unit, NEW own, NEW name, NEW conditional, NEW cond,
             Log(unit, own, name, conditional, cond)
      PROVE TextInv'
  BY <1>3 DEF Log
<1>4. CASE StrError \/ ThrowBegins \/ Discard
  BY <1>4 DEF StrError, ThrowBegins, Discard
<1>5. CASE FindExceptionClass \/ ThrowNew
  BY <1>5 DEF FindExceptionClass, ThrowNew
<1>6. CASE Summary \/ NameChars
  BY <1>6 DEF Summary, NameChars
<1>7. CASE GetMessage \/ MessageChars
  BY <1>7 DEF GetMessage, MessageChars
<1>8. CASE SummarySucceeds \/ SummaryFails
  BY <1>8 DEF SummarySucceeds, SummaryFails
<1>9. CASE LogBegins \/ PrintStackTrace \/ PrintSummary \/ LogEnds
  <2>1. helper = "jniLogException" /\ helper' = helper
    BY <1>9 DEF LogBegins, PrintStackTrace, PrintSummary, LogEnds
  <2>2. pc' \in {"returned", "print", "printFails", "summary"} \/ (pc' = "logged" /\ "summary" \in texts')
    BY <1>9 DEF LogBegins, PrintStackTrace, PrintFails, PrintSummary, LogEnds
  <2> QED BY <2>1, <2>2
<1>10. CASE RegisterJniHelp \/ RegisterBegins \/ RegisterNativeMethods \/ GetNonMovableArrayElements
            \/ CreateFileDescriptor \/ GetFDFromFileDescriptor \/ SetFileDescriptorOfFD
  <2>1. helper # "jniThrowIOException" /\ helper' = helper
    BY <1>10 DEF RegisterJniHelp, RegisterBegins, RegisterNativeMethods, GetNonMovableArrayElements,
       CreateFileDescriptor, GetFDFromFileDescriptor, SetFileDescriptorOfFD
  <2>2. pc' \in {"returned", "register", "aborted"}
    BY <1>10 DEF RegisterJniHelp, RegisterBegins, RegisterNativeMethods, GetNonMovableArrayElements,
       CreateFileDescriptor, GetFDFromFileDescriptor, SetFileDescriptorOfFD
  <2> QED BY <2>1, <2>2
<1> QED BY <1>1, <1>2, <1>3, <1>4, <1>5, <1>6, <1>7, <1>8, <1>9, <1>10 DEF Next, Step

LEMMA LogNext == CallInv /\ PcInv /\ PendingInv /\ LogInv /\ [Next]_vars => LogInv'
<1> SUFFICES ASSUME CallInv, PcInv, PendingInv, LogInv, [Next]_vars PROVE LogInv'
  OBVIOUS
<1> USE DEF CallInv, PcInv, Labels, ThrowLabels, LogLabels
<1>a. ASSUME UNCHANGED <<helper, before, given, stopped, logs>>, pc \notin {"returned", "aborted"},
             helper \in Throwing => pc' # "returned"
                                      /\ (pc' \in {"find", "new"} /\ before # None => pc \in {"find", "new"}),
             helper = "jniLogException" =>
                IF pc' = "returned" THEN ~given /\ before = None ELSE pc \in LogLabels \/ given \/ before # None
      PROVE LogInv'
  BY <1>a DEF LogInv
<1>b. ASSUME pc \notin {"returned", "aborted"}, helper \notin Throwing \cup {"jniLogException"},
             UNCHANGED <<helper, stopped>>, NEW name \in {"LOGE", "ALOGV"}, LogCall(name) \/ logs' = logs
      PROVE LogInv'
  <2>1. logs' \in [Builds -> Seq(LogMessages)]
    BY <1>b, CallsAreLogged DEF LogInv
  <2> QED BY <1>b, <2>1 DEF LogInv
<1>1. CASE UNCHANGED vars
  BY <1>1 DEF vars, LogInv
<1>2. ASSUME NEW h \in Helpers, NEW exception \in {None, "caller's"}, NEW argument \in BOOLEAN,
             Call(h, exception, argument)
      PROVE LogInv'
  <2>1. pc' = h /\ helper' = h /\ logs' = [b \in Builds |-> <<>>] /\ <<>> \in Seq(LogMessages)
    BY <1>2 DEF Call
  <2>2. logs' \in [Builds -> Seq(LogMessages)] /\ \A b \in Builds : logs'[b] = <<>>
    BY <2>1
  <2> QED BY <2>1, <2>2 DEF LogInv
<1>3. ASSUME NEW unit, NEW own, NEW name, NEW conditional, NEW cond,
             Log(unit, own, name, conditional, cond)
      PROVE LogInv'
  BY <1>3 DEF Log, LogInv
<1>4. CASE StrError
  BY <1>4, <1>a DEF StrError
<1>5. CASE ThrowBegins
  <2>1. pc' = "find" => before = None
    BY <1>5 DEF ThrowBegins, PendingInv
  <2>2. helper \in Throwing /\ pc' \in {"find", "summary"}
    BY <1>5 DEF ThrowBegins
  <2> QED BY <1>5, <1>a, <2>1, <2>2 DEF ThrowBegins
<1>6. CASE Discard
  <2>1. /\ pc = "discard" /\ pc' = "find" /\ LogCall("LOGW") /\ helper \in Throwing
        /\ UNCHANGED <<helper, before, given, stopped>>
    BY <1>6 DEF Discard
  <2>2. /\ logs' \in [Builds -> Seq(LogMessages)]
        /\ \A b \in Builds \ stopped : Warned(logs'[b])
    BY <2>1, CallsAreLogged DEF LogInv
  <2> QED BY <2>1, <2>2 DEF LogInv
<1>7. CASE FindExceptionClass \/ ThrowNew
  <2>1. /\ pc \in {"find", "new"} /\ helper \in Throwing /\ UNCHANGED <<helper, before, given, stopped>>
        /\ \/ pc' = "new" /\ logs' = logs
           \/ pc' = "returned" /\ result' = 0 /\ logs' = logs
           \/ pc' = "returned" /\ LogCall("LOGE")
    BY <1>7 DEF FindExceptionClass, ThrowNew
  <2>2. logs \in [Builds -> Seq(LogMessages)]
    BY <2>1 DEF LogInv
  <2>3. CASE logs' = logs /\ (pc' = "returned" => result' = 0)
    BY <2>1, <2>3 DEF LogInv
  <2>4. CASE pc' = "returned" /\ LogCall("LOGE")
    <3>1. \A b \in Builds \ stopped : (Warned(logs[b]) => Warned(logs'[b])) /\ Erred(logs'[b])
      BY <2>2, <2>4, CallsAreLogged
    <3> QED BY <2>1, <2>4, <3>1 DEF LogInv
  <2> QED BY <2>1, <2>3, <2>4
<1>8. CASE Summary \/ NameChars \/ GetMessage
  BY <1>8, <1>a DEF Summary, NameChars, GetMessage
<1>9. CASE MessageChars \/ SummarySucceeds \/ SummaryFails
  BY <1>9, <1>a DEF MessageChars, SummarySucceeds, SummaryFails
<1>10. CASE LogBegins
  <2>1. IF pc' = "returned" THEN ~given /\ before = None ELSE given \/ before # None
    BY <1>10 DEF LogBegins, PendingInv
  <2> QED BY <1>10, <1>a, <2>1 DEF LogBegins
<1>11. CASE PrintStackTrace \/ PrintSummary
  BY <1>11, <1>a DEF PrintStackTrace, PrintFails, PrintSummary
<1>12. CASE LogEnds
  <2>1. /\ pc = "logged" /\ pc' = "returned" /\ helper = "jniLogException"
        /\ UNCHANGED <<helper, before, given, priority, stopped>>
    BY <1>12 DEF LogEnds
  <2>2. \A b \in Builds \ stopped : logs'[b] = <<>> \o <<Message("jniLogException", "MAIN", priority)>>
    BY <1>12, <2>1 DEF LogEnds, LogWrite, Logs, LogInv
  <2>3. \A m : <<>> \o <<m>> = <<m>>
    OBVIOUS
  <2> QED BY <2>1, <2>2, <2>3 DEF LogInv
<1>13. CASE RegisterJniHelp \/ GetNonMovableArrayElements
  BY <1>13, <1>b DEF RegisterJniHelp, GetNonMovableArrayElements
<1>14. CASE RegisterBegins \/ RegisterNativeMethods
  BY <1>14, <1>b DEF RegisterBegins, RegisterNativeMethods
<1>15. CASE CreateFileDescriptor \/ GetFDFromFileDescriptor \/ SetFileDescriptorOfFD
  BY <1>15, <1>b DEF CreateFileDescriptor, GetFDFromFileDescriptor, SetFileDescriptorOfFD
<1> QED BY <1>1, <1>2, <1>3, <1>4, <1>5, <1>6, <1>7, <1>8, <1>9, <1>10, <1>11, <1>12, <1>13,
           <1>14, <1>15 DEF Next, Step

------------------------------------------------------------------------------
(* The two builds.                                                         *)

\* No assertion stops the release build and leaves the debug build running.
StopInv == "release" \in stopped => "debug" \in stopped

BuildsInv == StopInv /\ ReleaseLosesOnlyVerbose

\* A debug build compiles whatever a release build does; and what it compiles
\* besides is verbose or an assertion.
LEMMA DebugCompilesMore ==
  ASSUME NEW unit, NEW own, NEW name \in DOMAIN Macros(unit)
  PROVE  /\ Compiled("release", unit, own, name) => Compiled("debug", unit, own, name)
         /\ Compiled("debug", unit, own, name) /\ ~Compiled("release", unit, own, name) =>
              Macros(unit)[name].priority \in {"VERBOSE", "FATAL"}
<1>1. LOG_NDEBUG("debug", own) => LOG_NDEBUG("release", own)
  BY DEF LOG_NDEBUG
<1>2. /\ \A n \in DOMAIN MainMacros : MainMacros[n].stripped => MainMacros[n].priority = "VERBOSE"
      /\ \A n \in DOMAIN NativeMacros : ~NativeMacros[n].stripped
      /\ \A n \in DOMAIN SystemMacros : SystemMacros[n].stripped => SystemMacros[n].priority = "VERBOSE"
      /\ \A n \in DOMAIN Assertions : Assertions[n].priority = "FATAL"
      /\ \A n \in DOMAIN EventMacros : ~EventMacros[n].stripped
  <2>1. \A n \in DOMAIN MainMacros : MainMacros[n].stripped => MainMacros[n].priority = "VERBOSE"
    BY DEF MainMacros, Kept, Stripped, LOG_VERBOSE
  <2>2. \A n \in DOMAIN NativeMacros : ~NativeMacros[n].stripped
    BY DEF NativeMacros, Kept
  <2>3. \A n \in DOMAIN SystemMacros : SystemMacros[n].stripped => SystemMacros[n].priority = "VERBOSE"
    BY DEF SystemMacros, Kept, Stripped
  <2>4. \A n \in DOMAIN Assertions : Assertions[n].priority = "FATAL"
    BY DEF Assertions, Kept, Stripped
  <2>5. \A n \in DOMAIN EventMacros : ~EventMacros[n].stripped
    BY DEF EventMacros, Kept
  <2> QED BY <2>1, <2>2, <2>3, <2>4, <2>5
<1>3. \/ name \in DOMAIN MainMacros /\ Macros(unit)[name] = MainMacros[name]
      \/ name \in DOMAIN NativeMacros /\ Macros(unit)[name] = NativeMacros[name]
      \/ name \in DOMAIN SystemMacros /\ Macros(unit)[name] = SystemMacros[name]
      \/ name \in DOMAIN Assertions /\ Macros(unit)[name] = Assertions[name]
      \/ name \in DOMAIN EventMacros /\ Macros(unit)[name] = EventMacros[name]
  BY DEF Macros
<1>4. Macros(unit)[name].stripped => Macros(unit)[name].priority \in {"VERBOSE", "FATAL"}
  BY <1>2, <1>3
<1> QED BY <1>1, <1>4 DEF Compiled

\* Two logs that both get a message, and the longer one a verbose message.
LEMMA LosesNoMore ==
  ASSUME NEW M, NEW long \in Seq(M), NEW short \in Seq(M), NEW m \in M,
         LosesOnlyVerbose(long, short)
  PROVE  /\ LosesOnlyVerbose(long \o <<m>>, short \o <<m>>)
         /\ m.priority = "VERBOSE" => LosesOnlyVerbose(long \o <<m>>, short)
<1> DEFINE n == Len(long)
           k == Len(short)
           more == long \o <<m>>
           both == short \o <<m>>
<1>0. PICK kept \in [DOMAIN short -> DOMAIN long] : Keeps(kept, long, short)
  BY DEF LosesOnlyVerbose
<1>2. /\ n \in Nat /\ k \in Nat
      /\ DOMAIN long = 1 .. n /\ DOMAIN short = 1 .. k
      /\ DOMAIN more = 1 .. n + 1 /\ DOMAIN both = 1 .. k + 1
  OBVIOUS
<1>1. /\ kept \in [1 .. k -> 1 .. n]
      /\ \A i, j \in 1 .. k : i < j => kept[i] < kept[j]
      /\ \A i \in 1 .. k : short[i] = long[kept[i]]
      /\ \A j \in 1 .. n : long[j].priority = "VERBOSE" \/ \E i \in 1 .. k : kept[i] = j
  BY <1>0, <1>2 DEF Keeps
<1>3. /\ \A j \in 1 .. n : more[j] = long[j]
      /\ \A i \in 1 .. k : both[i] = short[i]
      /\ more[n + 1] = m /\ both[k + 1] = m
  OBVIOUS
<1> HIDE DEF n, k, more, both
<1>4. LosesOnlyVerbose(more, both)
  <2> DEFINE longer == [i \in 1 .. k + 1 |-> IF i = k + 1 THEN n + 1 ELSE kept[i]]
  <2>1. longer \in [1 .. k + 1 -> 1 .. n + 1]
    BY <1>2
  <2>2. \A i, j \in 1 .. k + 1 : i < j => longer[i] < longer[j]
    BY <1>1, <1>2
  <2>3. \A i \in 1 .. k + 1 : both[i] = more[longer[i]]
    BY <1>1, <1>2, <1>3
  <2>4. \A j \in 1 .. n + 1 : more[j].priority = "VERBOSE" \/ \E i \in 1 .. k + 1 : longer[i] = j
    <3> SUFFICES ASSUME NEW j \in 1 .. n + 1
                 PROVE  more[j].priority = "VERBOSE" \/ \E i \in 1 .. k + 1 : longer[i] = j
      OBVIOUS
    <3>1. CASE j = n + 1
      <4>1. k + 1 \in 1 .. k + 1 /\ longer[k + 1] = n + 1
        BY <1>2
      <4> QED BY <3>1, <4>1
    <3>2. CASE j \in 1 .. n
      <4>1. \A i \in 1 .. k : i \in 1 .. k + 1 /\ longer[i] = kept[i]
        BY <1>2
      <4> QED BY <1>1, <1>3, <3>2, <4>1
    <3> QED BY <1>2, <3>1, <3>2
  <2> HIDE DEF longer
  <2>5. Keeps(longer, more, both)
    BY <1>2, <2>2, <2>3, <2>4 DEF Keeps
  <2>6. longer \in [DOMAIN both -> DOMAIN more]
    BY <1>2, <2>1
  <2> QED BY <2>5, <2>6 DEF LosesOnlyVerbose
<1>5. ASSUME m.priority = "VERBOSE" PROVE LosesOnlyVerbose(more, short)
  <2>1. kept \in [1 .. k -> 1 .. n + 1]
    BY <1>2
  <2>2. \A i \in 1 .. k : short[i] = more[kept[i]]
    BY <1>1, <1>3
  <2>3. \A j \in 1 .. n + 1 : more[j].priority = "VERBOSE" \/ \E i \in 1 .. k : kept[i] = j
    BY <1>1, <1>2, <1>3, <1>5
  <2>4. Keeps(kept, more, short)
    BY <1>1, <1>2, <2>2, <2>3 DEF Keeps
  <2>5. kept \in [DOMAIN short -> DOMAIN more]
    BY <1>2, <2>1
  <2> QED BY <2>4, <2>5 DEF LosesOnlyVerbose
<1> QED BY <1>4, <1>5 DEF more, both

LEMMA NothingIsLost == \A log : DOMAIN log = {} => LosesOnlyVerbose(log, log)
<1> SUFFICES ASSUME NEW log, DOMAIN log = {} PROVE LosesOnlyVerbose(log, log)
  OBVIOUS
<1>1. [i \in {} |-> i] \in [{} -> {}]
  OBVIOUS
<1>2. Keeps([i \in {} |-> i], log, log)
  BY DEF Keeps
<1> QED BY <1>1, <1>2 DEF LosesOnlyVerbose

\* One message, or none, that the debug build alone writes only if verbose.
LEMMA OneMessage ==
  ASSUME NEW m
  PROVE  /\ LosesOnlyVerbose(<<>>, <<>>)
         /\ LosesOnlyVerbose(<<m>>, <<m>>)
         /\ m.priority = "VERBOSE" => LosesOnlyVerbose(<<m>>, <<>>)
<1>1. LosesOnlyVerbose(<<>>, <<>>)
  BY NothingIsLost
<1>2. <<>> \in Seq({m}) /\ <<>> \o <<m>> = <<m>>
  OBVIOUS
<1> QED BY <1>1, <1>2, LosesNoMore

\* What a helper logs, it logs in both builds unless it is verbose.
LEMMA HelpersLoseVerbose ==
  ASSUME StopInv, LosesOnlyVerbose(logs["debug"], logs["release"]), "debug" \notin stopped,
         logs \in [Builds -> Seq(LogMessages)],
         NEW name \in {"LOGW", "LOGE", "ALOGV"}, LogCall(name)
  PROVE  LosesOnlyVerbose(logs'["debug"], logs'["release"])
<1>1. "release" \notin stopped /\ Builds = {"debug", "release"}
  BY DEF StopInv, Builds
<1>2. /\ logs'["debug"] = logs["debug"] \o Written("debug", "JNIHelp.c", "unset", name)
      /\ logs'["release"] = logs["release"] \o Written("release", "JNIHelp.c", "unset", name)
  BY <1>1 DEF LogCall, Logs
<1>3. logs["debug"] \in Seq(LogMessages) /\ logs["release"] \in Seq(LogMessages)
  BY <1>1
<1>4. \A log \in Seq(LogMessages) : log \o <<>> = log
  OBVIOUS
<1>5. PICK m \in LogMessages :
        /\ Written("debug", "JNIHelp.c", "unset", name) = <<m>>
        /\ \/ Written("release", "JNIHelp.c", "unset", name) = <<m>>
           \/ m.priority = "VERBOSE" /\ Written("release", "JNIHelp.c", "unset", name) = <<>>
  <2>1. name \in DOMAIN Macros("JNIHelp.c")
    BY DEF Macros, MainMacros
  <2>2. Message(name, "MAIN", IF name = "LOGE" THEN "ERROR" ELSE "VERBOSE") \in LogMessages
    BY DEF Message, LogMessages
  <2>3. Message(name, "MAIN", "VERBOSE").priority = "VERBOSE"
    BY DEF Message
  <2>4. \A b \in Builds : name # "ALOGV" =>
           Written(b, "JNIHelp.c", "unset", name)
             = <<Message(name, "MAIN", IF name = "LOGE" THEN "ERROR" ELSE "VERBOSE")>>
    BY WrittenByHelpers
  <2>5. name = "ALOGV" =>
          /\ Written("debug", "JNIHelp.c", "unset", name) = <<Message(name, "MAIN", "VERBOSE")>>
          /\ Written("release", "JNIHelp.c", "unset", name) = <<>>
    BY MainMacrosAre DEF Written, Compiled, LOG_NDEBUG
  <2> QED BY <1>1, <2>2, <2>3, <2>4, <2>5
<1>6. /\ LosesOnlyVerbose(logs["debug"] \o <<m>>, logs["release"] \o <<m>>)
      /\ m.priority = "VERBOSE" => LosesOnlyVerbose(logs["debug"] \o <<m>>, logs["release"])
  BY <1>3, LosesNoMore
<1>7. logs["release"] \o <<>> = logs["release"]
  BY <1>3, <1>4
<1>8. logs'["debug"] = logs["debug"] \o <<m>>
  BY <1>2, <1>5
<1>9. \/ logs'["release"] = logs["release"] \o <<m>>
      \/ m.priority = "VERBOSE" /\ logs'["release"] = logs["release"]
  BY <1>2, <1>5, <1>7
<1> QED BY <1>6, <1>8, <1>9

\* A step that logs by a macro of log.h, or not at all.
LEMMA BuildsStep ==
  ASSUME BuildsInv, LogInv, UNCHANGED stopped, pc \notin {"returned", "aborted"},
         logs' = logs \/ \E name \in {"LOGW", "LOGE", "ALOGV"} : LogCall(name)
  PROVE  BuildsInv'
<1>1. logs \in [Builds -> Seq(LogMessages)]
  BY DEF LogInv
<1> QED BY <1>1, HelpersLoseVerbose DEF BuildsInv, StopInv, ReleaseLosesOnlyVerbose

\* The caller's message: the release build does not write it only if it is
\* verbose, or of an assertion that stops the debug build.
LEMMA CallersLoseVerbose ==
  ASSUME BuildsInv, NEW unit, NEW own, NEW name \in DOMAIN Macros(unit), NEW conditional, NEW cond,
         Log(unit, own, name, conditional, cond)
  PROVE  BuildsInv'
<1> DEFINE runs == {b \in Builds \ stopped : Fires(name, conditional, cond)}
           What(b) == Written(b, unit, own, name)
<1>1. /\ logs' = [b \in Builds |-> IF b \in runs THEN What(b) ELSE <<>>]
      /\ stopped' = stopped \cup {b \in runs : Stops(b, unit, own, name)}
  BY DEF Log
<1>2. Builds = {"debug", "release"}
  BY DEF Builds
<1>3. StopInv'
  <2> SUFFICES ASSUME "release" \in stopped', "debug" \notin stopped PROVE "debug" \in stopped'
    BY <1>1 DEF StopInv
  <2>1. "release" \in runs /\ Stops("release", unit, own, name)
    BY <1>1 DEF BuildsInv, StopInv
  <2>2. "debug" \in runs /\ Stops("debug", unit, own, name)
    BY <1>2, <2>1, DebugCompilesMore DEF Stops
  <2> QED BY <1>1, <2>2
<1>4. ASSUME "debug" \notin stopped' PROVE LosesOnlyVerbose(logs'["debug"], logs'["release"])
  <2>1. /\ "debug" \in runs => ~Stops("debug", unit, own, name)
        /\ "debug" \notin stopped /\ "release" \notin stopped
    BY <1>1, <1>4 DEF BuildsInv, StopInv
  <2>2. CASE ~Fires(name, conditional, cond)
    <3>1. logs'["debug"] = <<>> /\ logs'["release"] = <<>>
      BY <1>1, <1>2, <2>2
    <3> QED BY <3>1, OneMessage
  <2>3. CASE Fires(name, conditional, cond)
    <3>1. "debug" \in runs /\ logs'["debug"] = What("debug") /\ logs'["release"] = What("release")
      BY <1>1, <1>2, <2>1, <2>3
    <3>2. Compiled("debug", unit, own, name) => Macros(unit)[name].priority # "FATAL"
      BY <2>1, <3>1 DEF Stops
    <3>3. PICK m : /\ m.priority = Macros(unit)[name].priority
                   /\ \A b \in Builds : What(b) = IF Compiled(b, unit, own, name)
                                                      /\ Macros(unit)[name].log # "none"
                                                   THEN <<m>> ELSE <<>>
      BY DEF Written, Message
    <3>4. \/ What("debug") = What("release") /\ What("debug") \in {<<>>, <<m>>}
          \/ m.priority = "VERBOSE" /\ What("debug") = <<m>> /\ What("release") = <<>>
      BY <1>2, <3>2, <3>3, DebugCompilesMore
    <3> QED BY <3>1, <3>4, OneMessage
  <2> QED BY <2>2, <2>3
<1> QED BY <1>3, <1>4 DEF BuildsInv, ReleaseLosesOnlyVerbose

LEMMA BuildsNext == PcInv /\ LogInv /\ BuildsInv /\ [Next]_vars => BuildsInv'
<1> SUFFICES ASSUME PcInv, LogInv, BuildsInv, [Next]_vars PROVE BuildsInv'
  OBVIOUS
<1>1. CASE UNCHANGED vars
  BY <1>1 DEF vars, BuildsInv, StopInv, ReleaseLosesOnlyVerbose
<1>2. ASSUME NEW h \in Helpers, NEW exception \in {None, "caller's"}, NEW argument \in BOOLEAN,
             Call(h, exception, argument)
      PROVE BuildsInv'
  <2>1. logs'["debug"] = <<>> /\ logs'["release"] = <<>> /\ stopped' = stopped
    BY <1>2 DEF Call, Builds
  <2> QED BY <2>1, OneMessage DEF BuildsInv, StopInv, ReleaseLosesOnlyVerbose
<1>3. ASSUME NEW unit, NEW own, NEW conditional, NEW cond, NEW name \in DOMAIN Macros(unit),
             Log(unit, own, name, conditional, cond)
      PROVE BuildsInv'
  BY <1>3, CallersLoseVerbose
<1>4. CASE StrError \/ ThrowBegins \/ Discard
  BY <1>4, BuildsStep DEF StrError, ThrowBegins, Discard
<1>5. CASE FindExceptionClass \/ ThrowNew
  BY <1>5, BuildsStep DEF FindExceptionClass, ThrowNew
<1>6. CASE Summary \/ NameChars \/ GetMessage
  BY <1>6, BuildsStep DEF Summary, NameChars, GetMessage
<1>7. CASE MessageChars \/ SummarySucceeds \/ SummaryFails
  BY <1>7, BuildsStep DEF MessageChars, SummarySucceeds, SummaryFails
<1>8. CASE LogBegins \/ PrintStackTrace \/ PrintSummary
  BY <1>8, BuildsStep DEF LogBegins, PrintStackTrace, PrintFails, PrintSummary
<1>9. CASE LogEnds
  <2>1. helper = "jniLogException" /\ pc = "logged" /\ stopped' = stopped
    BY <1>9 DEF LogEnds, PcInv, Labels, ThrowLabels
  <2>2. \A b \in Builds \ stopped : logs'[b] = <<>> \o <<Message("jniLogException", "MAIN", priority)>>
    BY <1>9, <2>1 DEF LogEnds, LogWrite, Logs, LogInv
  <2>3. \A m : <<>> \o <<m>> = <<m>>
    OBVIOUS
  <2>4. PICK m : m = Message("jniLogException", "MAIN", priority)
    OBVIOUS
  <2>5. \A b \in Builds \ stopped : logs'[b] = <<m>>
    BY <2>2, <2>3, <2>4
  <2>6. "debug" \notin stopped => logs'["debug"] = <<m>> /\ logs'["release"] = <<m>>
    BY <2>5 DEF BuildsInv, StopInv, Builds
  <2>7. LosesOnlyVerbose(<<m>>, <<m>>)
    BY OneMessage
  <2>8. "debug" \notin stopped => LosesOnlyVerbose(logs'["debug"], logs'["release"])
    BY <2>6, <2>7
  <2> QED BY <2>1, <2>8 DEF BuildsInv, StopInv, ReleaseLosesOnlyVerbose
<1>10. CASE RegisterJniHelp \/ GetNonMovableArrayElements
  BY <1>10, BuildsStep DEF RegisterJniHelp, GetNonMovableArrayElements
<1>11. CASE RegisterBegins \/ RegisterNativeMethods
  BY <1>11, BuildsStep DEF RegisterBegins, RegisterNativeMethods
<1>12. CASE CreateFileDescriptor \/ GetFDFromFileDescriptor \/ SetFileDescriptorOfFD
  BY <1>12, BuildsStep DEF CreateFileDescriptor, GetFDFromFileDescriptor, SetFileDescriptorOfFD
<1> QED BY <1>1, <1>2, <1>3, <1>4, <1>5, <1>6, <1>7, <1>8, <1>9, <1>10, <1>11, <1>12 DEF Next, Step

------------------------------------------------------------------------------
(* The invariant, and what it says of the code.                            *)

LEMMA InvInit == Init => IInv /\ TextInv /\ LogInv
<1> SUFFICES ASSUME Init PROVE IInv /\ TextInv /\ LogInv
  OBVIOUS
<1>1. CallInv /\ PcInv /\ TextInv
  BY DEF Init, CallInv, PcInv, Labels, TextInv
<1>2. HeldInv
  BY DEF Init, HeldInv
<1>3. PendingInv
  BY DEF Init, PendingInv, SomethingIsThrown, LoggingKeepsException, JniCallsAreLegal, Returned
<1>4. LogInv
  BY DEF Init, LogInv, LogLabels
<1> QED BY <1>1, <1>2, <1>3, <1>4 DEF IInv

\* Whatever fails and whatever the caller's exceptions do, a helper holds at
\* each step what that step can give back, and has pending what it expects.
THEOREM HelperInvariant == Spec => [](IInv /\ TextInv /\ LogInv)
<1>1. IInv /\ TextInv /\ LogInv /\ [Next]_vars => (IInv /\ TextInv /\ LogInv)'
  BY CallNext, PcNext, HeldNext, PendingNext, TextNext, LogNext DEF IInv
<1> QED BY <1>1, InvInit, PTL DEF Spec

\* A helper that throws returns with an exception pending, and returns 0 only
\* if it is the requested one.
THEOREM ThrowingThrows == Spec => []SomethingIsThrown
<1>1. IInv => SomethingIsThrown
  BY DEF IInv, PendingInv
<1> QED BY <1>1, HelperInvariant, PTL

\* No reference and no buffer is left behind, on whichever path a helper returns.
THEOREM NothingIsKept == Spec => []EverythingIsGivenBack
<1>1. IInv => EverythingIsGivenBack
  BY DEF IInv, HeldInv, MayHold, EverythingIsGivenBack
<1> QED BY <1>1, HelperInvariant, PTL

\* Logging leaves pending what was pending, unless a getMessage threw.
THEOREM LoggingIsTransparent == Spec => []LoggingKeepsException
<1>1. IInv => LoggingKeepsException
  BY DEF IInv, PendingInv
<1> QED BY <1>1, HelperInvariant, PTL

\* The helpers that throw and log call JNI with nothing pending, unless a
\* getMessage threw.
THEOREM CallsAreLegal == Spec => []JniCallsAreLegal
<1>1. IInv => JniCallsAreLegal
  BY DEF IInv, PendingInv
<1> QED BY <1>1, HelperInvariant, PTL

\* What is lost is in the log of both builds, and what is logged or thrown is a
\* terminated string.
THEOREM LossesAreLogged == Spec => []LossIsLogged
<1>1. TextInv /\ PcInv => TextsAreWritten
  BY DEF TextInv, PcInv, TextsAreWritten
<1>2. LogInv => \A b \in Builds \ stopped : pc = "returned" =>
         /\ helper \in Throwing /\ before # None => Warned(logs[b])
         /\ helper \in Throwing /\ result # 0 => Erred(logs[b])
         /\ helper = "jniLogException" /\ (given \/ before # None) =>
              logs[b] = <<Message("jniLogException", "MAIN", priority)>>
  BY DEF LogInv
<1>3. IInv /\ TextInv /\ LogInv => LossIsLogged
  BY <1>1, <1>2 DEF IInv, LossIsLogged, Warned, Erred
<1> QED BY <1>3, HelperInvariant, PTL

\* A release build writes what a debug build writes, in its order, and loses no
\* message but verbose ones, whichever messages helpers and caller log.
THEOREM OnlyVerboseIsLost == Spec => []ReleaseLosesOnlyVerbose
<1>1. Init => BuildsInv
  <2>1. Init => StopInv /\ logs["debug"] = <<>> /\ logs["release"] = <<>>
    BY DEF Init, StopInv, Builds
  <2> QED BY <2>1, OneMessage DEF BuildsInv, ReleaseLosesOnlyVerbose
<1>2. (IInv /\ TextInv /\ LogInv) /\ BuildsInv /\ [Next]_vars => BuildsInv'
  BY BuildsNext DEF IInv
<1>3. BuildsInv => ReleaseLosesOnlyVerbose
  BY DEF BuildsInv
<1> QED BY <1>1, <1>2, <1>3, HelperInvariant, PTL DEF Spec

------------------------------------------------------------------------------
(* How far the comment of JNIHelp.c:172 holds.                              *)

\* jniThrowException calls FindClass and ThrowNew with no exception pending,
\* unless the getMessage it called for the summary of the pending one threw
\* itself; then it is that exception which is in the way.
ClearedUnlessNested ==
    pc \in {"find", "new"} /\ pending # None => pending = "nested" /\ strayed

THEOREM OnlyNestedIsInTheWay == Spec => []ClearedUnlessNested
<1>1. IInv => ClearedUnlessNested
  BY DEF IInv, PendingInv, ClearedUnlessNested
<1> QED BY <1>1, HelperInvariant, PTL
==============================================================================
