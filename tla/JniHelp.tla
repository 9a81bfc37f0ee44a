------------------------------- MODULE JniHelp -------------------------------
(***************************************************************************)
(* JNIHelp.c: throwing and logging exceptions from native code, the cached *)
(* FileDescriptor fields, the registration of native methods; and the log  *)
(* in which what the helpers discard or cannot throw is to be found.       *)
(*                                                                         *)
(* What is hard here is JNI itself.  Almost every call of it may fail, and *)
(* failure is an exception that stays pending until someone clears it;     *)
(* while one is pending hardly any JNI function may be called; references  *)
(* and string buffers must be given back by hand.  A step here is a call   *)
(* of a JNI function that may fail, with those after it that may not.      *)
(*                                                                         *)
(* The caller calls one helper, or logs one message, after another in one  *)
(* native method.  It may have an exception pending, of any class: its     *)
(* getMessage and printStackTrace are arbitrary Java and may throw too.    *)
(*                                                                         *)
(* The debug and the release build run in lockstep, so that their logs can *)
(* be compared.  A build stops at an assertion of the caller that fails in *)
(* it; the steps after that are those of the other build.                  *)
(***************************************************************************)
EXTENDS Logging, Integers, FiniteSets

\* A pending exception: none; the caller's; the one the helper was asked to
\* throw; a NoClassDefFoundError of FindClass or an OutOfMemoryError; or one
\* thrown by the getMessage or printStackTrace of the caller's.
None == "none"
Exceptions == {"caller's", "requested", "error", "nested"}

Throwing == {"jniThrowException", "jniThrowNullPointerException",
             "jniThrowRuntimeException", "jniThrowIOException"}
UsesCache == {"jniCreateFileDescriptor", "jniGetFDFromFileDescriptor",
              "jniSetFileDescriptorOfFD"}
Helpers == Throwing \cup UsesCache \cup {"jniLogException", "registerJniHelp",
             "jniRegisterNativeMethods", "jniGetNonMovableArrayElements"}
NoHelper == "none"          \* the caller logs a message itself
Descriptors == {0, 1}       \* some of the integers
NoDescriptor == -1

VARIABLES
    helper,     \* the helper called, or none
    pc,         \* the step it is at; "returned", or "aborted" with the process
    pending,    \* the pending exception
    before,     \* history: the exception pending when the helper was called
    given,      \* jniLogException was given an exception
    refs,       \* local references the helper made and did not delete
    chars,      \* string buffers not released
    texts,      \* the C buffers that hold a terminated string: "summary" is
                \* what is logged, "message" that of jniThrowIOException
    descriptor, \* the integer in the FileDescriptor the caller has, if any
    result,     \* the helper's result
    priority,   \* the priority jniLogException was given, or "none"
    logs,       \* logs[b]: what build b wrote since the helper was called
    stopped,    \* the builds that an assertion stopped
    cached,     \* gCachedFields are all set
    strayed,    \* history: a getMessage threw while the helper ran
    illegal     \* history: the helper made a JNI call that may not be made
                \* while an exception is pending

callVars == <<helper, before, given, cached, descriptor, priority, stopped>>
vars == <<helper, pc, pending, before, given, refs, chars, texts, descriptor, result,
          priority, logs, stopped, cached, strayed, illegal>>

Init ==
    /\ helper = NoHelper
    /\ pc = "returned"
    /\ pending = None /\ before = None
    /\ given = FALSE
    /\ refs = {} /\ chars = {} /\ texts = {}
    /\ descriptor = NoDescriptor
    /\ result = 0
    /\ priority = "none"
    /\ logs = [b \in Builds |-> <<>>]
    /\ stopped = {}
    /\ cached = FALSE
    /\ strayed = FALSE /\ illegal = FALSE

------------------------------------------------------------------------------
(* The parts of a step.                                                    *)

\* A JNI call that is not for exceptions or for releasing something.
JniCall == illegal' = (illegal \/ pending # None)

Succeeds == pending' = pending
FailsWith(exception) == pending' = exception

Keep(ref) == refs' = refs \cup {ref}
Write(text) == texts' = texts \cup {text}
GoTo(label) == pc' = label
Return(code) == pc' = "returned" /\ result' = code

\* Every build that runs logs the given messages.
Logs(messages(_)) ==
    logs' = [b \in Builds |-> IF b \in stopped THEN logs[b] ELSE logs[b] \o messages(b)]

\* JNIHelp.c calls a macro of log.h; it does not define LOG_NDEBUG.
LogCall(name) == Logs(LAMBDA b : Written(b, "JNIHelp.c", "unset", name))

\* Where getExceptionSummary returns to: it is called to throw or to log.
AfterSummary == IF helper \in Throwing THEN "discard" ELSE "logged"

------------------------------------------------------------------------------
(* The caller calls a helper: without a pending exception, but those that  *)
(* throw and log are made for that.  Its own references are not counted,   *)
(* and it does not use the cached fields before they are there.            *)

Anew ==
    /\ refs' = {} /\ chars' = {} /\ texts' = {}
    /\ result' = 0
    /\ strayed' = FALSE /\ illegal' = FALSE

Call(h, exception, argument) ==
    /\ pc = "returned"
    /\ exception # None => h \in Throwing \cup {"jniLogException"}
    /\ argument => h = "jniLogException" /\ exception = None
    /\ h \in UsesCache => cached
    /\ h \in UsesCache \ {"jniCreateFileDescriptor"} => descriptor # NoDescriptor
    /\ helper' = h
    /\ pending' = exception /\ before' = exception
    /\ given' = argument
    /\ IF h = "jniLogException"
       THEN \E macro \in DOMAIN ExceptionMacros : priority' = ExceptionMacros[macro]
       ELSE priority' = "none"
    /\ pc' = h
    /\ Anew
    /\ logs' = [b \in Builds |-> <<>>]
    /\ UNCHANGED <<cached, descriptor, stopped>>

\* The caller, in this or the other source file, logs a message.
Log(unit, own, name, conditional, cond) ==
    LET runs == {b \in Builds \ stopped : Fires(name, conditional, cond)}
    IN  /\ pc = "returned"
        /\ conditional => name \in Conditional(unit)
        /\ cond => conditional \/ name = "LOG_ASSERT"
        /\ Anew
        /\ helper' = NoHelper /\ priority' = "none"
        /\ pending' = None /\ before' = None /\ given' = FALSE
        /\ logs' = [b \in Builds |-> IF b \in runs THEN Written(b, unit, own, name) ELSE <<>>]
        /\ stopped' = stopped \cup {b \in runs : Stops(b, unit, own, name)}
        /\ GoTo(IF stopped' = Builds THEN "aborted" ELSE "returned")
        /\ UNCHANGED <<descriptor, cached>>

------------------------------------------------------------------------------
(* jniThrowException and the three that choose a class for it.             *)

\* jniThrowIOException: the message is in the buffer, if strerror_r succeeded or
\* returned -1, or is a string of the C library's.
StrError ==
    /\ pc = "jniThrowIOException"
    /\ Write("message")
    /\ GoTo("jniThrowException")
    /\ UNCHANGED <<callVars, pending, refs, chars, result, strayed, illegal, logs>>

\* ExceptionCheck, ExceptionOccurred, ExceptionClear.  While an exception is
\* pending ExceptionOccurred does not return NULL, as JNI has it.
ThrowBegins ==
    /\ pc \in Throwing \ {"jniThrowIOException"}
    /\ pending' = None
    /\ \/ /\ pending # None
          /\ Keep("exception")
          /\ GoTo("summary")
       \/ /\ pending = None
          /\ UNCHANGED refs
          /\ GoTo("find")
    /\ UNCHANGED <<callVars, chars, result, strayed, illegal, texts, logs>>

\* The discarded exception is logged with its summary.
Discard ==
    /\ pc = "discard"
    /\ LogCall("LOGW")
    /\ refs' = refs \ {"exception"}
    /\ GoTo("find")
    /\ UNCHANGED <<callVars, pending, chars, result, strayed, illegal, texts>>

\* FindClass(className); the exception pending already may stay instead.
FindExceptionClass ==
    /\ pc = "find"
    /\ JniCall
    /\ \/ /\ Succeeds
          /\ Keep("exceptionClass")
          /\ GoTo("new")
          /\ UNCHANGED <<result, logs>>
       \/ /\ FailsWith("error") \/ (pending # None /\ FailsWith(pending))
          /\ LogCall("LOGE")
          /\ Return(-1)
          /\ UNCHANGED refs
    /\ UNCHANGED <<callVars, chars, strayed, texts>>

\* Mutant of ThrowNew: returns what it was initialised to.
ThrowNewReturnsZero ==
    /\ pc = "new"
    /\ JniCall
    /\ \/ FailsWith("requested") /\ UNCHANGED logs
       \/ FailsWith("error") /\ LogCall("LOGE")
    /\ refs' = refs \ {"exceptionClass"}
    /\ Return(0)
    /\ UNCHANGED <<callVars, chars, strayed, texts>>

\* ThrowNew throws the exception, or fails with another.
ThrowNew ==
    /\ pc = "new"
    /\ JniCall
    /\ \/ FailsWith("requested") /\ Return(0) /\ UNCHANGED logs
       \/ FailsWith("error") /\ Return(-1) /\ LogCall("LOGE")
    /\ refs' = refs \ {"exceptionClass"}
    /\ UNCHANGED <<callVars, chars, strayed, texts>>

------------------------------------------------------------------------------
(* getExceptionSummary.                                                    *)

ClassRefs == {"exceptionClazz", "classClazz"}

\* The classes of the exception and of its class, and Class.getName.
Summary ==
    /\ pc = "summary"
    /\ JniCall
    /\ \/ /\ Succeeds
          /\ refs' = refs \cup ClassRefs \cup {"classNameStr"}
          /\ GoTo("nameChars")
       \/ /\ FailsWith("error")
          /\ refs' = refs \cup ClassRefs
          /\ GoTo("summaryFails")
    /\ UNCHANGED <<callVars, chars, result, strayed, texts, logs>>

NameChars ==
    /\ pc = "nameChars"
    /\ JniCall
    /\ \/ /\ Succeeds
          /\ chars' = chars \cup {"classNameChars"}
          /\ GoTo("getMessage")
          /\ UNCHANGED refs
       \/ /\ FailsWith("error")
          /\ refs' = refs \ {"classNameStr"}
          /\ GoTo("summaryFails")
          /\ UNCHANGED chars
    /\ UNCHANGED <<callVars, result, strayed, texts, logs>>

\* A message, none, or an exception of which nobody takes notice.
GetMessage ==
    /\ pc = "getMessage"
    /\ JniCall
    /\ \/ /\ Succeeds
          /\ Keep("messageStr")
          /\ GoTo("messageChars")
          /\ UNCHANGED <<strayed, texts>>
       \/ /\ Succeeds
          /\ Write("summary")
          /\ GoTo("copied")
          /\ UNCHANGED <<refs, strayed>>
       \/ /\ FailsWith("nested")
          /\ strayed' = TRUE
          /\ Write("summary")
          /\ GoTo("copied")
          /\ UNCHANGED refs
    /\ UNCHANGED <<callVars, chars, result, logs>>

\* Mutant of MessageChars: the OutOfMemoryError is not cleared.
MessageCharsPending ==
    /\ pc = "messageChars"
    /\ JniCall
    /\ \/ Succeeds
       \/ FailsWith("error")
    /\ refs' = refs \ {"messageStr"}
    /\ Write("summary")
    /\ GoTo("copied")
    /\ UNCHANGED <<callVars, chars, result, strayed, logs>>

\* The characters are taken and released, or the OutOfMemoryError cleared.
MessageChars ==
    /\ pc = "messageChars"
    /\ JniCall
    /\ pending' = None
    /\ refs' = refs \ {"messageStr"}
    /\ Write("summary")
    /\ GoTo("copied")
    /\ UNCHANGED <<callVars, chars, result, strayed, logs>>

SummarySucceeds ==
    /\ pc = "copied"
    /\ chars' = chars \ {"classNameChars"}
    /\ refs' = refs \ (ClassRefs \cup {"classNameStr"})
    /\ GoTo(AfterSummary)
    /\ UNCHANGED <<callVars, pending, result, strayed, illegal, texts, logs>>

\* Mutant of SummaryFails: the buffer is left as it was.
SummaryFailsSilently ==
    /\ pc = "summaryFails"
    /\ refs' = refs \ ClassRefs
    /\ pending' = None
    /\ GoTo(AfterSummary)
    /\ UNCHANGED texts
    /\ UNCHANGED <<callVars, chars, result, strayed, illegal, logs>>

\* The "error getting class name" is a summary too.
SummaryFails ==
    /\ pc = "summaryFails"
    /\ refs' = refs \ ClassRefs
    /\ pending' = None
    /\ GoTo(AfterSummary)
    /\ Write("summary")
    /\ UNCHANGED <<callVars, chars, result, strayed, illegal, logs>>

------------------------------------------------------------------------------
(* printStackTrace and jniLogException.                                    *)

\* What printStackTrace makes, in this order, each of which may fail; the last
\* but one fails if the exception's own printStackTrace throws.
Printed == <<"stringWriterClazz", "printWriterClazz", "stringWriterObj",
             "printWriterObj", "exceptionClazz", "messageStr">>
PrintedRefs == {Printed[i] : i \in DOMAIN Printed}

\* Mutant of PrintFails: the returns are not nested, and leave the reference
\* made first.
PrintFailsKeeps ==
    /\ FailsWith("error")
    /\ refs' = refs \ (PrintedRefs \ {"stringWriterClazz"})
    /\ GoTo("printFails")

\* Everything made so far is deleted again.
PrintFails ==
    /\ FailsWith("error")
    /\ refs' = refs \ PrintedRefs
    /\ GoTo("printFails")

PrintStackTrace ==
    /\ pc = "print"
    /\ JniCall
    /\ LET made == Cardinality(refs \cap PrintedRefs)
       IN  \/ /\ made < Len(Printed)
              /\ Succeeds
              /\ Keep(Printed[made + 1])
              /\ GoTo("print")
              /\ UNCHANGED texts
           \/ /\ made < Len(Printed)
              /\ PrintFails
              /\ UNCHANGED texts
           \/ /\ made = Len(Printed)
              /\ Succeeds
              /\ refs' = refs \ PrintedRefs
              /\ Write("summary")
              /\ GoTo("logged")
    /\ UNCHANGED <<callVars, chars, result, strayed, logs>>

\* Instead of the stack trace, the summary is logged.
PrintSummary ==
    /\ pc = "printFails"
    /\ pending' = None
    /\ GoTo("summary")
    /\ UNCHANGED <<callVars, refs, chars, result, strayed, illegal, texts, logs>>

\* The given exception, or the pending one, which is cleared for the time.
LogBegins ==
    /\ pc = "jniLogException"
    /\ IF given \/ pending = None
       THEN UNCHANGED <<refs, pending>>
       ELSE pending' = None /\ Keep("exception")
    /\ IF given \/ pending # None THEN GoTo("print") ELSE GoTo("returned")
    /\ UNCHANGED <<callVars, chars, result, strayed, illegal, texts, logs>>

\* __android_log_write.
LogWrite == Logs(LAMBDA b : <<Message("jniLogException", "MAIN", priority)>>)

\* Mutant of LogEnds: the exception is not thrown again.
LogEndsCleared ==
    /\ pc = "logged"
    /\ LogWrite
    /\ refs' = refs \ {"exception"}
    /\ GoTo("returned")
    /\ UNCHANGED <<callVars, pending, illegal, chars, result, strayed, texts>>

\* Logged; the pending exception is thrown again.
LogEnds ==
    /\ pc = "logged"
    /\ LogWrite
    /\ IF given
       THEN UNCHANGED <<pending, illegal>>
       ELSE JniCall /\ FailsWith(before)
    /\ refs' = refs \ {"exception"}
    /\ GoTo("returned")
    /\ UNCHANGED <<callVars, chars, result, strayed, texts>>

------------------------------------------------------------------------------
(* The other helpers.                                                      *)

\* The local reference of FindClass is given to NewGlobalRef and forgotten;
\* both fields exist.
RegisterJniHelp ==
    /\ pc = "registerJniHelp"
    /\ \/ /\ Keep("FileDescriptor")
          /\ Succeeds
          /\ cached' = TRUE
          /\ Return(0)
          /\ UNCHANGED illegal
       \/ /\ FailsWith("error")
          /\ illegal' = TRUE        \* NewGlobalRef(NULL)
          /\ Return(-1)
          /\ UNCHANGED <<refs, cached>>
    /\ UNCHANGED <<helper, before, given, descriptor, priority, stopped, chars, strayed, texts, logs>>

\* NewObject, and jniSetFileDescriptorOfFD of its result whatever that is: of
\* NULL, with the OutOfMemoryError pending, SetIntField ends the process or does
\* nothing.
CreateFileDescriptor ==
    /\ pc = "jniCreateFileDescriptor"
    /\ \/ /\ Succeeds
          /\ descriptor' \in Descriptors
          /\ Return(0)
          /\ UNCHANGED illegal
       \/ /\ FailsWith("error")
          /\ illegal' = TRUE
          /\ Return(0) \/ (GoTo("aborted") /\ UNCHANGED result)
          /\ UNCHANGED descriptor
    /\ UNCHANGED <<helper, before, given, cached, priority, stopped, refs, chars, strayed, texts, logs>>

GetFDFromFileDescriptor ==
    /\ pc = "jniGetFDFromFileDescriptor"
    /\ JniCall
    /\ Return(descriptor)
    /\ UNCHANGED <<callVars, pending, refs, chars, strayed, texts, logs>>

SetFileDescriptorOfFD ==
    /\ pc = "jniSetFileDescriptorOfFD"
    /\ JniCall
    /\ descriptor' \in Descriptors
    /\ Return(0)
    /\ UNCHANGED <<helper, before, given, cached, priority, stopped, pending, refs, chars, strayed, texts, logs>>

\* GetByteArrayElements, and ReleaseByteArrayElements at once, whether or not
\* there are elements, of a pointer that is not theirs.
GetNonMovableArrayElements ==
    /\ pc = "jniGetNonMovableArrayElements"
    /\ illegal' = TRUE
    /\ Succeeds \/ FailsWith("error")
    /\ Return(0)
    /\ UNCHANGED <<callVars, refs, chars, strayed, texts, logs>>

RegisterBegins ==
    /\ pc = "jniRegisterNativeMethods"
    /\ LogCall("ALOGV")
    /\ GoTo("register")
    /\ UNCHANGED <<callVars, pending, refs, chars, texts, result, strayed, illegal>>

\* FindClass and RegisterNatives: a failure of either aborts.
RegisterNativeMethods ==
    /\ pc = "register"
    /\ JniCall
    /\ \/ Succeeds /\ Return(0) /\ UNCHANGED logs
       \/ FailsWith("error") /\ LogCall("LOGE") /\ GoTo("aborted") /\ UNCHANGED result
    /\ UNCHANGED <<callVars, refs, chars, strayed, texts>>

Step ==
    \/ StrError \/ ThrowBegins \/ Discard \/ FindExceptionClass \/ ThrowNew
    \/ Summary \/ NameChars \/ GetMessage \/ MessageChars \/ SummarySucceeds \/ SummaryFails
    \/ LogBegins \/ PrintStackTrace \/ PrintSummary
    \/ LogEnds \/ RegisterJniHelp \/ RegisterBegins \/ RegisterNativeMethods
    \/ GetNonMovableArrayElements
    \/ CreateFileDescriptor \/ GetFDFromFileDescriptor \/ SetFileDescriptorOfFD

Next ==
    \/ \E h \in Helpers, exception \in {None, "caller's"}, argument \in BOOLEAN :
         Call(h, exception, argument)
    \/ \E unit \in Units, own \in OwnSettings, conditional, cond \in BOOLEAN :
         \E name \in DOMAIN Macros(unit) : Log(unit, own, name, conditional, cond)
    \/ Step

Spec == Init /\ [][Next]_vars

------------------------------------------------------------------------------
Returned(h) == pc = "returned" /\ helper = h

\* JNIHelp.c:175: "Returns 0 if the specified exception was successfully thrown.
\* (Some sort of exception will always be pending when this returns.)"
SomethingIsThrown ==
    \A h \in Throwing : Returned(h) =>
        /\ pending # None
        /\ result = 0 <=> pending = "requested"

\* A helper gives back every reference and buffer it took, whichever of its
\* calls fails; registerJniHelp alone leaves one reference.
EverythingIsGivenBack ==
    pc = "returned" => /\ chars = {}
                       /\ refs \subseteq IF helper = "registerJniHelp" THEN {"FileDescriptor"} ELSE {}

\* Logging changes nothing in the caller's world: what was pending still is,
\* and nothing else, unless the exception's own getMessage threw.
LoggingKeepsException == Returned("jniLogException") /\ ~strayed => pending = before

\* Throwing and logging call JNI only while nothing is pending, on every path
\* on which the caller's exceptions behave.
JniCallsAreLegal ==
    illegal => strayed \/ helper \in {"registerJniHelp", "jniCreateFileDescriptor",
                                     "jniGetNonMovableArrayElements"}

\* What is logged, and what is thrown as a message, is a string: on every path
\* through the failures of its making, the buffer was written and terminated.
TextsAreWritten ==
    /\ pc \in {"discard", "logged"} => "summary" \in texts
    /\ pc = "new" /\ helper = "jniThrowIOException" => "message" \in texts

\* An exception that is lost is in the log, of the release build too: the one
\* jniThrowException discards, and, as an error, the one it cannot throw; and
\* what jniLogException is to log is there whatever failed in describing it.
LossIsLogged ==
    /\ TextsAreWritten
    /\ pc = "returned" => \A b \in Builds \ stopped :
         /\ helper \in Throwing /\ before # None =>
              \E i \in DOMAIN logs[b] : logs[b][i].name = "LOGW"
         /\ helper \in Throwing /\ result # 0 =>
              \E i \in DOMAIN logs[b] : logs[b][i].priority = "ERROR"
         /\ helper = "jniLogException" /\ (given \/ before # None) =>
              logs[b] = <<Message("jniLogException", "MAIN", priority)>>

\* The shorter log is the longer one without some of its VERBOSE messages;
\* kept[i] is where its i-th message is in the longer one.
Keeps(kept, long, short) ==
    /\ \A i, j \in DOMAIN short : i < j => kept[i] < kept[j]
    /\ \A i \in DOMAIN short : short[i] = long[kept[i]]
    /\ \A j \in DOMAIN long :
         long[j].priority = "VERBOSE" \/ \E i \in DOMAIN short : kept[i] = j
LosesOnlyVerbose(long, short) ==
    \E kept \in [DOMAIN short -> DOMAIN long] : Keeps(kept, long, short)

\* A release build writes what a debug build writes, in its order, and loses no
\* message but verbose ones, as long as no assertion stopped the debug build.
ReleaseLosesOnlyVerbose ==
    "debug" \notin stopped => LosesOnlyVerbose(logs["debug"], logs["release"])

------------------------------------------------------------------------------
\* JNIHelp.c:172: "If an exception is currently pending, we log a warning message
\* and clear it."
PendingIsCleared == pc \in {"find", "new"} => pending = None

==============================================================================
