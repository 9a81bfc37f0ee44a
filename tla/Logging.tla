------------------------------- MODULE Logging -------------------------------
(***************************************************************************)
(* The logging macros of cutils/log.h and JNIHelp.h, and the ones the      *)
(* connection's native code defines over them.  They decide, when a source *)
(* file is compiled, where a message goes, with which priority, and        *)
(* whether the call is there at all: a release build (NDEBUG) strips some. *)
(*                                                                         *)
(* LOGD, LOGI and what is made of them are left out: they need LOG_DEBUG   *)
(* and LOG_INFO, which no header defines, and do not compile.              *)
(***************************************************************************)
EXTENDS Sequences

Builds == {"debug", "release"}
Units == {"JNIHelp.c", "NativeSQLiteConnection.cpp"}

------------------------------------------------------------------------------
(* What the macros expand to.                                              *)

LOG_VERBOSE == "VERBOSE"
LOG_WARN == "VERBOSE"
LOG_ERROR == "ERROR"

Kept(log, priority) == [log |-> log, priority |-> priority, stripped |-> FALSE]
Stripped(log, priority) == [log |-> log, priority |-> priority, stripped |-> TRUE]

\* Mutant of MainMacros: LOGW is stripped, as the other macro of its priority is.
MainMacrosStripped ==
    [ALOGV |-> Stripped("MAIN", LOG_VERBOSE), LOGW |-> Stripped("MAIN", LOG_WARN),
     LOGE |-> Kept("MAIN", LOG_ERROR)]

\* With their old names, their _IF forms and the IF_ALOG guards around them,
\* which test nothing else: android_testLog is 1.
MainMacros ==
    [ALOGV |-> Stripped("MAIN", LOG_VERBOSE), LOGW |-> Kept("MAIN", LOG_WARN),
     LOGE |-> Kept("MAIN", LOG_ERROR)]

\* Mutant of SystemMacros: the warnings are stripped too.
SystemMacrosStripped ==
    [SLOGV |-> Stripped("SYSTEM", "VERBOSE"), SLOGD |-> Kept("SYSTEM", "DEBUG"),
     SLOGI |-> Kept("SYSTEM", "INFO"), SLOGW |-> Stripped("SYSTEM", "WARN"),
     SLOGE |-> Kept("SYSTEM", "ERROR")]

SystemMacros ==
    [SLOGV |-> Stripped("SYSTEM", "VERBOSE"), SLOGD |-> Kept("SYSTEM", "DEBUG"),
     SLOGI |-> Kept("SYSTEM", "INFO"), SLOGW |-> Kept("SYSTEM", "WARN"),
     SLOGE |-> Kept("SYSTEM", "ERROR")]

Assertions ==
    [LOG_ALWAYS_FATAL |-> Kept("MAIN", "FATAL"), LOG_FATAL |-> Stripped("MAIN", "FATAL"),
     LOG_ASSERT |-> Stripped("MAIN", "FATAL")]

\* Events have no priority.  LOG_EVENT_STRING writes nothing.
EventMacros ==
    [LOG_EVENT_INT |-> Kept("EVENTS", "none"), LOG_EVENT_LONG |-> Kept("EVENTS", "none"),
     LOG_EVENT_STRING |-> Kept("none", "none")]

\* The priority with which jniLogException is called.  LOG_EX pastes ANDROID_
\* before the priority's name, so that it does not expand LOG_WARN.
ExceptionMacros ==
    [LOGV_EX |-> "VERBOSE", LOGD_EX |-> "DEBUG", LOGI_EX |-> "INFO",
     LOGW_EX |-> "WARN", LOGE_EX |-> "ERROR"]

\* The connection's native code defines its own, after it includes log.h;
\* what log.h makes of its own ALOG does not compile there any more.
NativeMacros ==
    [LOGI |-> Kept("MAIN", "DEBUG"), ALOG |-> Kept("MAIN", "INFO"),
     ALOGV |-> Kept("MAIN", "VERBOSE"), ALOGE |-> Kept("MAIN", "ERROR"),
     ALOGW |-> Kept("MAIN", "INFO")]

Macros(unit) ==
    LET own == IF unit = "JNIHelp.c" THEN MainMacros ELSE NativeMacros IN
    [name \in DOMAIN own \cup DOMAIN SystemMacros \cup DOMAIN Assertions \cup DOMAIN EventMacros |->
        CASE name \in DOMAIN own -> own[name]
          [] name \in DOMAIN SystemMacros -> SystemMacros[name]
          [] name \in DOMAIN Assertions -> Assertions[name]
          [] name \in DOMAIN EventMacros -> EventMacros[name]]

\* own: what the file defines LOG_NDEBUG as before it includes log.h.
OwnSettings == {"unset", "0", "1"}

LOG_NDEBUG(b, own) == IF own = "unset" THEN b = "release" ELSE own = "1"

\* The forms with a condition: of ALOGV_IF and its like, and of
\* LOG_ALWAYS_FATAL_IF and LOG_FATAL_IF, it must hold; of LOG_ASSERT it must not.
Conditional(unit) ==
    DOMAIN SystemMacros \cup DOMAIN Assertions
      \cup IF unit = "JNIHelp.c" THEN DOMAIN MainMacros ELSE {}

Fires(name, conditional, cond) ==
    CASE name = "LOG_ASSERT" -> ~cond
      [] name # "LOG_ASSERT" /\ conditional -> cond
      [] OTHER -> TRUE

------------------------------------------------------------------------------
(* What a call of a macro does in a build.                                 *)

Message(name, log, priority) == [name |-> name, log |-> log, priority |-> priority]

Compiled(b, unit, own, name) == ~(Macros(unit)[name].stripped /\ LOG_NDEBUG(b, own))

\* What it writes.
Written(b, unit, own, name) ==
    LET macro == Macros(unit)[name]
    IN  IF Compiled(b, unit, own, name) /\ macro.log # "none"
        THEN <<Message(name, macro.log, macro.priority)>> ELSE <<>>

\* android_printAssert writes its message and stops the program.
Stops(b, unit, own, name) ==
    Compiled(b, unit, own, name) /\ Macros(unit)[name].priority = "FATAL"
==============================================================================
