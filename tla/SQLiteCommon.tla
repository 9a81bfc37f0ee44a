----------------------------- MODULE SQLiteCommon -----------------------------
(***************************************************************************)
(* SQLiteCommon.cpp and jniThrowException: how a SQLite result code        *)
(* becomes the class of a Java exception.                                  *)
(***************************************************************************)
EXTENDS Integers

\* The primary result codes.
SQLITE_OK == 0
SQLITE_ERROR == 1
SQLITE_INTERNAL == 2
SQLITE_PERM == 3
SQLITE_ABORT == 4
SQLITE_BUSY == 5
SQLITE_LOCKED == 6
SQLITE_NOMEM == 7
SQLITE_READONLY == 8
SQLITE_INTERRUPT == 9
SQLITE_IOERR == 10
SQLITE_CORRUPT == 11
SQLITE_FULL == 13
SQLITE_CANTOPEN == 14
SQLITE_SCHEMA == 17
SQLITE_TOOBIG == 18
SQLITE_CONSTRAINT == 19
SQLITE_MISMATCH == 20
SQLITE_MISUSE == 21
SQLITE_AUTH == 23
SQLITE_RANGE == 25
SQLITE_NOTADB == 26
SQLITE_NOTICE == 27
SQLITE_WARNING == 28
SQLITE_ROW == 100
SQLITE_DONE == 101
PrimaryCodes == 0 .. 28 \cup {SQLITE_ROW, SQLITE_DONE}

\* The extended result codes, SQLITE_IOERR | (1<<8) and so on: the primary
\* codes that have some, and the numbers they have.
Extensions ==
    {<<SQLITE_IOERR, 1 .. 26>>, <<SQLITE_LOCKED, {1}>>, <<SQLITE_BUSY, 1 .. 2>>,
     <<SQLITE_CANTOPEN, 1 .. 4>>, <<SQLITE_CORRUPT, {1}>>, <<SQLITE_READONLY, 1 .. 4>>,
     <<SQLITE_ABORT, {2}>>, <<SQLITE_CONSTRAINT, 1 .. 10>>, <<SQLITE_NOTICE, 1 .. 2>>,
     <<SQLITE_WARNING, {1}>>, <<SQLITE_AUTH, {1}>>}
ExtendedCodes == UNION {{family[1] + 256 * i : i \in family[2]} : family \in Extensions}
Primary(code) == code % 256
SQLITE_CONSTRAINT_UNIQUE == SQLITE_CONSTRAINT + 256 * 8

GenericException == "SQLiteException"

\* The cases of the switch: a primary code and the class it names.
SwitchCases ==
    {<<SQLITE_IOERR, "SQLiteDiskIOException">>,
     <<SQLITE_CORRUPT, "SQLiteDatabaseCorruptException">>,
     <<SQLITE_NOTADB, "SQLiteDatabaseCorruptException">>,
     <<SQLITE_CONSTRAINT, "SQLiteConstraintException">>,
     <<SQLITE_ABORT, "SQLiteAbortException">>,
     <<SQLITE_DONE, "SQLiteDoneException">>,
     <<SQLITE_FULL, "SQLiteFullException">>,
     <<SQLITE_MISUSE, "SQLiteMisuseException">>,
     <<SQLITE_PERM, "SQLiteAccessPermException">>,
     <<SQLITE_BUSY, "SQLiteDatabaseLockedException">>,
     <<SQLITE_LOCKED, "SQLiteTableLockedException">>,
     <<SQLITE_READONLY, "SQLiteReadOnlyDatabaseException">>,
     <<SQLITE_CANTOPEN, "SQLiteCantOpenDatabaseException">>,
     <<SQLITE_TOOBIG, "SQLiteBlobTooBigException">>,
     <<SQLITE_RANGE, "SQLiteBindOrColumnIndexOutOfRangeException">>,
     <<SQLITE_NOMEM, "SQLiteOutOfMemoryException">>,
     <<SQLITE_MISMATCH, "SQLiteDatatypeMismatchException">>,
     <<SQLITE_INTERRUPT, "OperationCanceledException">>}

NamedExceptions ==
    [code \in {case[1] : case \in SwitchCases} |->
        (CHOOSE case \in SwitchCases : case[1] = code)[2]]

\* Mutant of ExceptionClass: the default case is forgotten, so the class that
\* jniThrowException looks for has no name.
ExceptionClassWithoutDefault(errcode) ==
    IF Primary(errcode) \in DOMAIN NamedExceptions
    THEN NamedExceptions[Primary(errcode)] ELSE "NULL"

\* switch (errcode & 0xff)
ExceptionClass(errcode) ==
    IF Primary(errcode) \in DOMAIN NamedExceptions
    THEN NamedExceptions[Primary(errcode)] ELSE GenericException

ExceptionClasses == {GenericException} \cup {NamedExceptions[c] : c \in DOMAIN NamedExceptions}

\* Mutant of ThrownFor: switch (errcode), which names no extended code.
ThrownForUnmasked(errcode) ==
    IF errcode \in DOMAIN NamedExceptions THEN NamedExceptions[errcode] ELSE GenericException

\* throw_sqlite3_exception(env, handle, message) for a handle whose last error
\* is errcode; without a handle the code is SQLITE_OK.
ThrownFor(errcode) == ExceptionClass(errcode)
ThrownWithoutHandle == ExceptionClass(SQLITE_OK)
==============================================================================
