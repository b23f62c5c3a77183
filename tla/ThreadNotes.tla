----------------------------- MODULE ThreadNotes -----------------------------
(***************************************************************************)
(* ThreadMemory: the notes of a conversation, one store record per thread. *)
(* Every change reads the record, drops what has expired, and writes the   *)
(* whole list back (add, remove, fork); nothing holds the record between   *)
(* the read and the write, and the processes that share the store do so at *)
(* will.  MemoryExtractor adds a temporary candidate through the same add  *)
(* when no live note has its text.                                         *)
(***************************************************************************)
EXTENDS Naturals, Sequences, SequencesExt

CONSTANTS
    NoteAgents,     \* processes with a ThreadMemory on the same store, each
                    \* named by its default_ttl_s; 0: its notes never expire
    NoteThreads,
    NoteTexts,
    MaxNotes,       \* bound: notes ever created
    MaxNoteClock    \* bound: clock ticks

ASSUME NotesAssumption == NoteAgents \subseteq Nat /\ {MaxNotes, MaxNoteClock} \subseteq Nat

VARIABLES
    notes,       \* notes[t]: the list stored under tmem::t
    noteClock,
    noteCount,   \* notes created so far; a note's id
    noteOp,      \* noteOp[a]: the read-modify-write agent a is in
    notesDue,    \* history: what was added and neither removed nor cleared
    notesRaced   \* history: t was written from a list read before another write

notesVars == <<notes, noteClock, noteCount, noteOp, notesDue, notesRaced>>

Notes  == [id : 1..MaxNotes, text : NoteTexts, expires : 0..(MaxNoteClock + 2)]
NoOp   == [kind |-> "none"]

Expired(n)  == n.expires # 0 /\ noteClock >= n.expires

\* The list comprehension: the notes of s that are among those kept, in order.
Among(s, kept) ==
    LET upTo[i \in 0..Len(s)] ==
            IF i = 0 THEN << >>
            ELSE IF s[i] \in kept THEN Append(upTo[i - 1], s[i]) ELSE upTo[i - 1]
    IN  upTo[Len(s)]

LiveOf(s)   == Among(s, {n \in ToSet(s) : ~Expired(n)})
TextsOf(t)  == {n.text : n \in ToSet(LiveOf(notes[t]))}

NotesTypeOK ==
    /\ \A t \in NoteThreads : ToSet(notes[t]) \cup notesDue[t] \subseteq Notes
    /\ noteClock \in 0..MaxNoteClock /\ noteCount \in 0..MaxNotes
    /\ \A a \in NoteAgents : noteOp[a].kind \in {"none", "add", "remove", "fork"}
    /\ notesRaced \in [NoteThreads -> BOOLEAN]

NotesInit ==
    /\ notes = [t \in NoteThreads |-> << >>] /\ notesDue = [t \in NoteThreads |-> {}]
    /\ noteClock = 0 /\ noteCount = 0
    /\ noteOp = [a \in NoteAgents |-> NoOp]
    /\ notesRaced = [t \in NoteThreads |-> FALSE]

Idle(a) == noteOp[a].kind = "none"

NoteTick ==
    /\ noteClock < MaxNoteClock
    /\ noteClock' = noteClock + 1
    /\ UNCHANGED <<notes, noteCount, noteOp, notesDue, notesRaced>>

\* The read half: what is live now, of thread src, for a write to thread t.
Read(a, kind, t, arg, src) ==
    noteOp' = [noteOp EXCEPT ![a] =
        [kind |-> kind, thread |-> t, arg |-> arg,
         base |-> LiveOf(notes[src]), seen |-> notes[src],
         due |-> notesDue[src], raced |-> notesRaced[src]]]

AddRead(a, t, x) ==
    LET n == [id |-> noteCount + 1, text |-> x,
              expires |-> IF a = 0 THEN 0 ELSE noteClock + a]
    IN  /\ Idle(a) /\ noteCount < MaxNotes
        /\ noteCount' = noteCount + 1
        /\ Read(a, "add", t, n, t)
        /\ UNCHANGED <<notes, noteClock, notesDue, notesRaced>>

\* MemoryExtractor._apply_temporary: the texts are read for themselves first.
ObserveTemporary(a, t, x) == x \notin TextsOf(t) /\ AddRead(a, t, x)

RemoveRead(a, t, id) ==
    /\ Idle(a)
    /\ \E n \in ToSet(LiveOf(notes[t])) : n.id = id
    /\ Read(a, "remove", t, id, t)
    /\ UNCHANGED <<notes, noteClock, noteCount, notesDue, notesRaced>>

ForkRead(a, src, dst) ==
    /\ Idle(a) /\ src # dst
    /\ Read(a, "fork", dst, 0, src)
    /\ UNCHANGED <<notes, noteClock, noteCount, notesDue, notesRaced>>

Others(id, s) == {n \in s : n.id # id}

\* Mutant: the purge of an add takes the whole list for expired.
NotesWrittenAlone(op) ==
    CASE op.kind = "add"    -> <<op.arg>>
      [] op.kind = "remove" -> Among(op.base, Others(op.arg, ToSet(op.base)))
      [] op.kind = "fork"   -> op.base

\* The list an operation writes.
NotesWritten(op) ==
    CASE op.kind = "add"    -> Append(op.base, op.arg)
      [] op.kind = "remove" -> Among(op.base, Others(op.arg, ToSet(op.base)))
      [] op.kind = "fork"   -> op.base

\* _save: the write half.  An add or a removal takes effect on a stale list
\* when the record has changed since its read; a fork replaces its target by
\* its source as it was.
Save(a) ==
    LET op == noteOp[a]
        t  == op.thread
    IN  /\ ~Idle(a)
        /\ notes' = [notes EXCEPT ![t] = NotesWritten(op)]
        /\ notesDue' = [notesDue EXCEPT ![t] =
               CASE op.kind = "add"    -> @ \cup {op.arg}
                 [] op.kind = "remove" -> Others(op.arg, @)
                 [] op.kind = "fork"   -> op.due]
        /\ notesRaced' = [notesRaced EXCEPT ![t] =
               IF op.kind = "fork" THEN op.raced
               ELSE notesRaced[t] \/ notes[t] # op.seen]
        /\ noteOp' = [noteOp EXCEPT ![a] = NoOp]
        /\ UNCHANGED <<noteClock, noteCount>>

ClearNotes(a, t) ==
    /\ Idle(a)
    /\ notes' = [notes EXCEPT ![t] = << >>]
    /\ notesDue' = [notesDue EXCEPT ![t] = {}]
    /\ notesRaced' = [notesRaced EXCEPT ![t] = FALSE]
    /\ UNCHANGED <<noteClock, noteCount, noteOp>>

NotesNext ==
    \/ NoteTick
    \/ \E a \in NoteAgents, t \in NoteThreads :
        \/ \E x \in NoteTexts : AddRead(a, t, x) \/ ObserveTemporary(a, t, x)
        \/ \E id \in 1..MaxNotes : RemoveRead(a, t, id)
        \/ \E dst \in NoteThreads : ForkRead(a, t, dst)
        \/ ClearNotes(a, t)
    \/ \E a \in NoteAgents : Save(a)

NotesSpec == NotesInit /\ [][NotesNext]_notesVars

-----------------------------------------------------------------------------
(* A thread's live notes are those added, or forked, and neither removed nor
   cleared since, each once: purging what expired loses and revives nothing,
   until an add or a removal writes back a list that changed since its read. *)
NotesKeptUnlessRaced ==
    \A t \in NoteThreads : ~notesRaced[t] =>
        /\ ToSet(LiveOf(notes[t])) = {n \in notesDue[t] : ~Expired(n)}
        /\ IsInjective(LiveOf(notes[t]))
=============================================================================
