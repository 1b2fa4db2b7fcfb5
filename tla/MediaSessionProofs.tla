------------------------- MODULE MediaSessionProofs -------------------------
(***************************************************************************)
(* Proofs about the media session.  First TerminalAuthority, for any       *)
(* connections, of either kind, and any bounds: one session at most is     *)
(* live, it is the one that is found and that will report, and an end is   *)
(* final; that each end is reported needs in addition that begin() does    *)
(* not reject once its session was closed.  Then Conduct, for any number   *)
(* of questions and any limits: a forced end is final, the guard follows   *)
(* its turn, and what is counted against the candidate has its evidence.   *)
(* Last TurnMetrics (MetricsSpec), for any turns, maps and delays: the row *)
(* of a turn only gains, and its figures are its own.                      *)
(***************************************************************************)
EXTENDS TerminalAuthority, Conduct, TurnMetrics, SequenceTheorems, TLAPS

\* What TypeOK says of client[c].
Accounts == [configured : BOOLEAN, strikes : 0..Violations - 1,
             held : 0..Insisting, asked : 0..Insisting]

\* A connection that waits for its turn, or was sent away, has no session, and
\* who has the turn is where begin() is.
SectionInv ==
    /\ section.phase = "idle" => section = Idle
    /\ section # Idle => section.conn \in Conns
    /\ section.phase = "draining" => begin[section.conn] = "none" /\ current = None
    /\ section.phase \in {"failing", "closing"} =>
           begin[section.conn] \in {"rejected", "late"} /\ closed[section.conn] # "no"
    /\ \A c \in Conns : begin[c] = "running" => section = [conn |-> c, phase |-> "beginning"]
    /\ section.phase = "beginning" => begin[section.conn] = "running"

\* A socket that is not authenticated has no part in all this.
FreshInv ==
    \A c \in Conns : socket[c] \in {"new", "auth"} => begin[c] = "none" /\ section.conn # c

\* Closed is who was started, or sent away; who was closed is torn down.
CloseInv ==
    \A c \in Conns :
        /\ begin[c] = "none" => closed[c] = "no"
        /\ begin[c] = "refused" <=> closed[c] = "refused"
        /\ teardown[c] = "none" <=> closed[c] \in {"no", "refused"}

\* A live session is in the table, has the authority and is whom a takeover
\* revokes.
ReachInv ==
    \A c \in Conns : Live(c) => sessions = c /\ authority = c /\ current = c

\* The end of the session took its context away.
EndInv == ended => ~context

IInv == TypeOK /\ SectionInv /\ FreshInv /\ CloseInv /\ ReachInv /\ EndInv /\ EndIsFinal

-----------------------------------------------------------------------------
(* What the parts of the handlers do *)

LEMMA CloseEffect ==
    ASSUME TypeOK, NEW c \in Conns, NEW how \in {"end", "detach"}, Close(c, how)
    PROVE  /\ closed' \in [Conns -> {"no", "end", "detach", "refused"}]
           /\ teardown' \in [Conns -> {"none", "working", "done"}]
           /\ client' \in [Conns -> Accounts]
           /\ Live(c) => /\ closed' = [closed EXCEPT ![c] = how]
                         /\ teardown' = [teardown EXCEPT ![c] = "working"]
           /\ ~Live(c) => closed' = closed /\ teardown' = teardown
<1>1. Stranger \in Accounts
  BY AuthorityAssumption DEF Stranger, Accounts
<1>2. CASE Live(c)
  <2>1. client \in [Conns -> Accounts] /\ client' = [client EXCEPT ![c] = Stranger]
    BY <1>2 DEF Close, TypeOK, Accounts
  <2>2. client' \in [Conns -> Accounts]
    BY <1>1, <2>1
  <2> QED BY <1>2, <2>2, SMTT(30) DEF Close, TypeOK
<1>3. CASE ~Live(c)
  BY <1>3 DEF Close, TypeOK, Accounts
<1> QED BY <1>2, <1>3

LEMMA RequestEffect ==
    ASSUME TypeOK, NEW c \in Conns, NEW n \in Nat, RequestEnd(c, n)
    PROVE  \/ Close(c, "end")
           \/ /\ client' \in [Conns -> Accounts]
              /\ UNCHANGED <<closed, teardown>>
<1>1. CASE n > 0 /\ Close(c, "end")
  BY <1>1
<1>2. CASE /\ n = 0 \/ client[c].asked + n < Insisting
           /\ client' = [client EXCEPT ![c].held = 0, ![c].asked = client[c].asked + n]
           /\ UNCHANGED <<closed, teardown>>
  <2>1. client[c].asked + n \in 0..Insisting
    BY <1>2, AuthorityAssumption DEF TypeOK
  <2>2. client \in [Conns -> Accounts] /\ client[c] \in Accounts
    BY DEF TypeOK, Accounts
  <2>3. 0 \in 0..Insisting
    BY AuthorityAssumption
  <2>4. [client[c] EXCEPT !.held = 0, !.asked = client[c].asked + n] \in Accounts
    BY <2>1, <2>2, <2>3 DEF Accounts
  <2>5. client' = [client EXCEPT ![c] =
                       [client[c] EXCEPT !.held = 0, !.asked = client[c].asked + n]]
    BY <1>2, <2>2
  <2>6. client' \in [Conns -> Accounts]
    BY <2>2, <2>4, <2>5
  <2> QED BY <1>2, <2>6
<1> QED BY <1>1, <1>2 DEF RequestEnd

LEMMA ViolationEffect ==
    ASSUME TypeOK, NEW c \in Conns, Violation(c) \/ RequestClose(c)
    PROVE  /\ client' \in [Conns -> Accounts]
           /\ socket' = socket \/ socket' = [socket EXCEPT ![c] = "closing"]
<1>1. CASE RequestClose(c)
  BY <1>1, AuthorityAssumption DEF RequestClose, TypeOK, Accounts
<1>2. CASE Violation(c)
  <2>1. CASE client[c].strikes + 1 = Violations
    BY <1>1, <1>2, <2>1 DEF Violation
  <2>2. CASE client[c].strikes + 1 # Violations
    <3>1. client[c].strikes + 1 \in 0..Violations - 1
      BY <2>2, AuthorityAssumption DEF TypeOK
    <3> QED BY <1>2, <2>2, <3>1 DEF Violation, TypeOK, Accounts
  <2> QED BY <2>1, <2>2
<1> QED BY <1>1, <1>2

-----------------------------------------------------------------------------
(* Kinds of steps *)

\* Nothing but sockets, the client's account and the context moves.
LEMMA SocketStep ==
    ASSUME IInv, TypeOK',
           UNCHANGED <<sessions, authority, section, current, begin, closed, teardown>>,
           \A c \in Conns : socket'[c] \in {"new", "auth"} => socket[c] \in {"new", "auth"},
           context' => (ended' => ended /\ context), ended' => ended
    PROVE  IInv'
  BY DEF IInv, SectionInv, FreshInv, CloseInv, ReachInv, EndInv, EndIsFinal, Live

\* A session is closed, by whomever.
LEMMA ClosingStep ==
    ASSUME IInv, TypeOK', NEW c \in Conns,
           UNCHANGED <<process, socket, begin, history>>,
           \/ UNCHANGED <<closed, teardown>>
           \/ Close(c, "end")
    PROVE  IInv'
<1>1. CASE UNCHANGED <<closed, teardown>>
  BY <1>1 DEF IInv, SectionInv, FreshInv, CloseInv, ReachInv, EndInv, EndIsFinal, Live,
              process, history
<1>2. CASE Live(c) /\ Close(c, "end")
  <2>1. /\ closed' = [closed EXCEPT ![c] = "end"]
        /\ teardown' = [teardown EXCEPT ![c] = "working"]
    BY <1>2 DEF Close
  <2>2. /\ \A d \in Conns : closed'[d] = IF d = c THEN "end" ELSE closed[d]
        /\ \A d \in Conns : teardown'[d] = IF d = c THEN "working" ELSE teardown[d]
        /\ begin[c] # "none" /\ closed[c] = "no"
    BY <1>2, <2>1 DEF IInv, TypeOK, Live
  <2>3. SectionInv' /\ FreshInv'
    BY <2>2 DEF IInv, SectionInv, FreshInv, process, Idle
  <2>4. CloseInv'
    BY <2>2 DEF IInv, CloseInv
  <2>5. ReachInv' /\ EndInv' /\ EndIsFinal'
    BY <2>2 DEF IInv, ReachInv, EndInv, EndIsFinal, Live, process, history
  <2> QED BY <2>3, <2>4, <2>5 DEF IInv
<1>3. CASE ~Live(c) /\ Close(c, "end")
  BY <1>1, <1>3 DEF Close
<1> QED BY <1>1, <1>2, <1>3

-----------------------------------------------------------------------------
(* The handlers *)

\* A connection that never got a session is sent away.
LEMMA SentAway ==
    ASSUME IInv, TypeOK', NEW c \in Conns, SendAway(c), begin[c] = "none",
           UNCHANGED <<sessions, authority, current, teardown, context, history>>,
           \/ UNCHANGED section /\ section.conn # c
           \/ section = [conn |-> c, phase |-> "draining"] /\ section' = Idle
    PROVE  IInv'
<1>1. /\ \A d \in Conns : closed'[d] = IF d = c THEN "refused" ELSE closed[d]
      /\ \A d \in Conns : begin'[d] = IF d = c THEN "refused" ELSE begin[d]
      /\ \A d \in Conns : socket'[d] = IF d = c THEN "closed" ELSE socket[d]
  BY DEF IInv, TypeOK, SendAway
<1>2. None \notin Conns BY AuthorityAssumption
<1>3. SectionInv'
  <2>1. CASE UNCHANGED section /\ section.conn # c
    BY <1>1, <2>1 DEF IInv, SectionInv, Idle
  <2>2. CASE section = [conn |-> c, phase |-> "draining"] /\ section' = Idle
    BY <1>1, <2>2 DEF IInv, SectionInv, Idle
  <2> QED BY <2>1, <2>2
<1>4. FreshInv'
  BY <1>1, <1>2 DEF IInv, FreshInv, Idle
<1>5. CloseInv'
  BY <1>1 DEF IInv, CloseInv
<1>6. ReachInv' /\ EndInv' /\ EndIsFinal'
  BY <1>1 DEF IInv, ReachInv, EndInv, EndIsFinal, Live, history
<1> QED BY <1>3, <1>4, <1>5, <1>6 DEF IInv

LEMMA CloseOfSocket ==
    ASSUME IInv, NEW c \in Conns, SocketCloses(c) PROVE IInv'
<1>1. TypeOK'
  BY CloseEffect, AuthorityAssumption DEF IInv, TypeOK, SocketCloses, history, Accounts
<1>2. /\ \A d \in Conns : closed'[d] = IF d = c /\ Live(c) THEN "end" ELSE closed[d]
      /\ \A d \in Conns : teardown'[d] = IF d = c /\ Live(c) THEN "working" ELSE teardown[d]
      /\ \A d \in Conns : socket'[d] = IF d = c THEN "closed" ELSE socket[d]
      /\ begin' = begin /\ section' = section /\ authority' = authority
      /\ context' = context /\ ended' = ended
  BY CloseEffect DEF IInv, TypeOK, SocketCloses, history
<1>3. SectionInv'
  <2>1. current' = None \/ current' = current
    BY DEF SocketCloses
  <2> QED BY <1>2, <2>1 DEF IInv, SectionInv, Idle, Live
<1>4. FreshInv'
  BY <1>2 DEF IInv, FreshInv
<1>5. CloseInv'
  BY <1>2 DEF IInv, CloseInv, Live
<1>6. ReachInv' /\ EndInv' /\ EndIsFinal'
  <2>1. ASSUME NEW d \in Conns, Live(d)' PROVE Live(d) /\ d # c
    BY <1>2, <2>1 DEF Live
  <2>2. ReachInv'
    BY <1>2, <2>1 DEF IInv, ReachInv, SocketCloses
  <2> QED BY <1>2, <2>1, <2>2 DEF IInv, EndInv, EndIsFinal
<1> QED BY <1>1, <1>3, <1>4, <1>5, <1>6 DEF IInv

LEMMA EndOfTeardown ==
    ASSUME IInv, NEW c \in Conns, TeardownEnds(c) PROVE IInv'
<1>1. TypeOK'
  BY AuthorityAssumption DEF IInv, TypeOK, TeardownEnds, Forget
<1>2. /\ \A d \in Conns : teardown'[d] = IF d = c THEN "done" ELSE teardown[d]
      /\ teardown[c] = "working" /\ ~Live(c)
      /\ UNCHANGED <<begin, closed, section, current, socket>>
  BY DEF IInv, TypeOK, TeardownEnds, CloseInv, Live
<1>3. SectionInv' /\ FreshInv'
  BY <1>2 DEF IInv, SectionInv, FreshInv
<1>4. CloseInv'
  BY <1>2 DEF IInv, CloseInv
<1>5. CASE closed[c] = "end" /\ authority = c
  <2>1. \A d \in Conns : ~Live(d)
    BY <1>2, <1>5 DEF IInv, ReachInv
  <2>2. context' = FALSE
    BY <1>5 DEF TeardownEnds, Forget, HasAuthority
  <2> QED BY <1>1, <1>2, <1>3, <1>4, <2>1, <2>2
          DEF IInv, ReachInv, EndInv, EndIsFinal, Live
<1>6. CASE ~(closed[c] = "end" /\ authority = c)
  <2>1. UNCHANGED <<authority, sessions, context, ended>>
    BY <1>6 DEF TeardownEnds, HasAuthority
  <2> QED BY <1>1, <1>2, <1>3, <1>4, <2>1
          DEF IInv, ReachInv, EndInv, EndIsFinal, Live
<1> QED BY <1>5, <1>6

LEMMA TakingOver ==
    ASSUME IInv, NEW c \in Conns, TakeOver(c) PROVE IInv'
<1>1. /\ closed' \in [Conns -> {"no", "end", "detach", "refused"}]
      /\ teardown' \in [Conns -> {"none", "working", "done"}]
      /\ client' \in [Conns -> Accounts]
      /\ \A d \in Conns : closed'[d] = IF Live(d) THEN "detach" ELSE closed[d]
      /\ \A d \in Conns : teardown'[d] = IF Live(d) THEN "working" ELSE teardown[d]
  <2>1. CASE current = None
    <3>1. \A d \in Conns : ~Live(d)
      BY <2>1, AuthorityAssumption DEF IInv, ReachInv
    <3> QED BY <2>1, <3>1 DEF TakeOver, IInv, TypeOK, Accounts
  <2>2. CASE current # None
    <3>1. current \in Conns /\ Close(current, "detach")
      BY <2>2 DEF TakeOver, IInv, TypeOK
    <3>2. \A d \in Conns : Live(d) => d = current
      BY DEF IInv, ReachInv
    <3> QED BY <3>1, <3>2, CloseEffect DEF IInv, TypeOK
  <2> QED BY <2>1, <2>2
<1>2. /\ section = Idle /\ section' = [conn |-> c, phase |-> "draining"]
      /\ current' = None /\ begin[c] = "none" /\ socket[c] \in {"open", "closed"}
      /\ UNCHANGED <<context, sessions, authority, socket, begin, history>>
  BY DEF TakeOver
<1>3. TypeOK'
  BY <1>1, <1>2 DEF IInv, TypeOK, history, Phases, Accounts
<1>4. SectionInv' /\ FreshInv'
  BY <1>2 DEF IInv, SectionInv, FreshInv, Idle
<1>5. CloseInv'
  BY <1>1, <1>2 DEF IInv, CloseInv, Live
<1>6. ReachInv' /\ EndInv' /\ EndIsFinal'
  BY <1>1, <1>2 DEF IInv, ReachInv, EndInv, EndIsFinal, Live, history
<1> QED BY <1>3, <1>4, <1>5, <1>6 DEF IInv

LEMMA StartOfSession ==
    ASSUME IInv, NEW c \in Conns, StartSession(c) PROVE IInv'
<1>1. /\ section = [conn |-> c, phase |-> "draining"]
      /\ section' = [conn |-> c, phase |-> "beginning"]
      /\ begin[c] = "none" /\ closed[c] = "no" /\ current = None /\ socket[c] = "open"
      /\ context /\ ~ended
      /\ \A d \in Conns : begin'[d] = IF d = c THEN "running" ELSE begin[d]
      /\ sessions' = c /\ authority' = c /\ current' = c
      /\ UNCHANGED <<context, socket, client, closed, teardown, readies, ended, reported>>
  BY DEF IInv, TypeOK, SectionInv, CloseInv, EndInv, StartSession
<1>2. TypeOK'
  BY <1>1 DEF StartSession, IInv, TypeOK, Phases
<1>3. SectionInv' /\ FreshInv'
  BY <1>1 DEF IInv, SectionInv, FreshInv
<1>4. CloseInv'
  BY <1>1 DEF IInv, CloseInv
<1>5. ReachInv' /\ EndInv' /\ EndIsFinal'
  <2>1. \A d \in Conns : ~Live(d)
    BY <1>1, AuthorityAssumption DEF IInv, ReachInv
  <2> QED BY <1>1, <2>1 DEF ReachInv, EndInv, EndIsFinal, Live
<1> QED BY <1>2, <1>3, <1>4, <1>5 DEF IInv

\* begin() is over, well or not: the session of the connection may be closed by it.
LEMMA EndOfBegin ==
    ASSUME IInv, NEW c \in Conns, BeginReturns(c) \/ BeginRejects(c) PROVE IInv'
<1>1. /\ section = [conn |-> c, phase |-> "beginning"] /\ begin[c] = "running"
      /\ UNCHANGED <<context, sessions, authority, current, socket, history>>
      /\ client[c].held \in Nat
  BY DEF IInv, SectionInv, TypeOK, BeginReturns, BeginRejects
<1>2. /\ client' \in [Conns -> Accounts]
      /\ \/ /\ closed' = closed /\ teardown' = teardown
            /\ BeginRejects(c) => ~Live(c)
         \/ /\ Live(c)
            /\ closed' = [closed EXCEPT ![c] = "end"]
            /\ teardown' = [teardown EXCEPT ![c] = "working"]
  <2>1. CASE BeginReturns(c) /\ ~Live(c) /\ ~BeginRejects(c)
    BY <2>1 DEF BeginReturns, IInv, TypeOK, Accounts
  <2>2. CASE BeginReturns(c) /\ Live(c) /\ ~BeginRejects(c)
    <3>1. RequestEnd(c, client[c].held)
      BY <2>2 DEF BeginReturns
    <3>2. \/ Close(c, "end")
          \/ client' \in [Conns -> Accounts] /\ UNCHANGED <<closed, teardown>>
      BY <1>1, <3>1, RequestEffect DEF IInv
    <3> QED BY <2>2, <3>2, CloseEffect DEF IInv
  <2>3. CASE BeginRejects(c)
    BY <2>3, CloseEffect DEF BeginRejects, IInv
  <2> QED BY <2>1, <2>2, <2>3
<1>3. \/ /\ begin' = [begin EXCEPT ![c] = "ok"] /\ section' = Idle
      \/ /\ begin' = [begin EXCEPT ![c] = Rejection(c)] /\ closed'[c] # "no"
         /\ section' \in [conn : {c}, phase : {"failing", "closing"}]
  <2>1. CASE BeginReturns(c)
    BY <2>1 DEF BeginReturns
  <2>2. CASE BeginRejects(c)
    <3>1. closed'[c] # "no"
      BY <1>1, <1>2, <2>2 DEF Live, IInv, TypeOK
    <3> QED BY <2>2, <3>1 DEF BeginRejects
  <2> QED BY <2>1, <2>2
<1>4. TypeOK'
  <2>1. section' \in [conn : Conns \cup {None}, phase : Phases]
    BY <1>3 DEF Idle, Phases
  <2>2. begin' \in [Conns -> {"none", "running", "ok", "rejected", "late", "refused"}]
    BY <1>3 DEF Rejection, IInv, TypeOK
  <2>3. /\ closed' \in [Conns -> {"no", "end", "detach", "refused"}]
        /\ teardown' \in [Conns -> {"none", "working", "done"}]
    BY <1>2 DEF IInv, TypeOK
  <2> QED BY <1>1, <1>2, <2>1, <2>2, <2>3 DEF IInv, TypeOK, Accounts, history
<1>5. /\ begin'[c] \in {"ok", "rejected", "late"}
      /\ \A d \in Conns \ {c} : begin'[d] = begin[d]
      /\ \A d \in Conns \ {c} : closed'[d] = closed[d] /\ teardown'[d] = teardown[d]
      /\ \/ closed'[c] = closed[c] /\ teardown'[c] = teardown[c]
         \/ closed'[c] = "end" /\ teardown'[c] = "working"
      /\ \A d \in Conns : Live(d)' => Live(d)
  BY <1>1, <1>2, <1>3 DEF IInv, TypeOK, Live, Rejection
<1>6. SectionInv'
  <2>1. section' = Idle \/ (begin'[c] \in {"rejected", "late"} /\ closed'[c] # "no"
                             /\ section' \in [conn : {c}, phase : {"failing", "closing"}])
    BY <1>1, <1>3 DEF IInv, TypeOK, Rejection
  <2>2. \A d \in Conns : begin'[d] # "running"
    BY <1>1, <1>5 DEF IInv, SectionInv
  <2> QED BY <2>1, <2>2 DEF SectionInv, Idle
<1>7. FreshInv'
  <2>1. section'.conn \in {c, None} /\ socket[c] \notin {"new", "auth"}
    BY <1>1, <1>3 DEF IInv, FreshInv, Idle
  <2> QED BY <1>1, <1>5, <2>1, AuthorityAssumption DEF IInv, FreshInv
<1>8. CloseInv'
  BY <1>1, <1>5 DEF IInv, CloseInv
<1>9. ReachInv' /\ EndInv' /\ EndIsFinal'
  BY <1>1, <1>5 DEF IInv, ReachInv, EndInv, EndIsFinal, history
<1> QED BY <1>4, <1>6, <1>7, <1>8, <1>9 DEF IInv

LEMMA FailureOfStart ==
    ASSUME IInv, NEW c \in Conns, StartFails(c) PROVE IInv'
<1>1. /\ section.conn = c /\ section.phase \in {"failing", "closing"} /\ section' = Idle
      /\ begin[c] \in {"rejected", "late"} /\ closed[c] # "no"
      /\ UNCHANGED <<local, history>>
      /\ \/ authority = c /\ Forget(c)
         \/ UNCHANGED <<authority, sessions, context>>
  BY DEF IInv, SectionInv, StartFails, HasAuthority
<1>2. TypeOK'
  <2>1. section' \in [conn : Conns \cup {None}, phase : Phases]
    BY <1>1 DEF Idle, Phases
  <2>2. /\ sessions' \in Conns \cup {None} /\ authority' \in Conns \cup {None}
        /\ context' \in BOOLEAN
    BY <1>1 DEF Forget, IInv, TypeOK
  <2>3. current' \in Conns \cup {None}
    BY DEF StartFails, IInv, TypeOK
  <2> QED BY <1>1, <2>1, <2>2, <2>3 DEF IInv, TypeOK, local, history
<1>3. SectionInv' /\ FreshInv'
  BY <1>1, AuthorityAssumption DEF IInv, SectionInv, FreshInv, Idle, local
<1>4. CloseInv'
  BY <1>1 DEF IInv, CloseInv, local
<1>5. ReachInv'
  BY <1>1, AuthorityAssumption
     DEF IInv, ReachInv, StartFails, Forget, HasAuthority, Live, local
<1>6. EndInv' /\ EndIsFinal'
  BY <1>1 DEF IInv, EndInv, EndIsFinal, Forget, Live, local, history
<1> QED BY <1>2, <1>3, <1>4, <1>5, <1>6 DEF IInv

\* The context is stored, or expires.
LEMMA ContextHandlers == ASSUME IInv, Ready \/ ContextExpires PROVE IInv'
<1>1. readies' \in 0..MaxReady /\ context' \in BOOLEAN /\ ended' \in BOOLEAN
  <2>1. CASE Ready
    <3>1. readies \in 0..MaxReady /\ MaxReady \in Nat /\ readies < MaxReady
      BY <2>1, AuthorityAssumption DEF Ready, IInv, TypeOK
    <3>2. readies' = readies + 1 /\ context' = TRUE /\ ended' = FALSE
      BY <2>1 DEF Ready
    <3>3. readies' \in 0..MaxReady
      BY <3>1, <3>2
    <3>4. context' \in BOOLEAN /\ ended' \in BOOLEAN
      BY <3>2
    <3> QED BY <3>3, <3>4
  <2>2. CASE ContextExpires
    BY <2>2 DEF ContextExpires, IInv, TypeOK, history
  <2> QED BY <2>1, <2>2
<1>2. UNCHANGED <<sessions, authority, section, current, local, reported, replaced>>
  BY DEF Ready, ContextExpires, history
<1>3. TypeOK'
  BY <1>1, <1>2 DEF IInv, TypeOK, local
<1>4. SectionInv' /\ FreshInv' /\ CloseInv' /\ ReachInv'
  BY <1>2 DEF IInv, SectionInv, FreshInv, CloseInv, ReachInv, Live, local
<1>5. EndInv' /\ EndIsFinal'
  BY <1>2 DEF Ready, ContextExpires, IInv, EndInv, EndIsFinal, Live, local, history
<1> QED BY <1>3, <1>4, <1>5 DEF IInv

\* Steps in which only sockets and what is known of clients move.
LEMMA SocketHandlers ==
    ASSUME IInv, NEW c \in Conns,
           Connect(c) \/ Authenticate(c) \/ Upgrade(c)
             \/ UpdateSession(c) \/ Misuses(c) \/ ViolationForgotten(c)
    PROVE  IInv'
<1>1. CASE Connect(c) \/ Authenticate(c) \/ Upgrade(c)
  <2>1. TypeOK'
    BY <1>1 DEF Connect, Authenticate, Upgrade, IInv, TypeOK, process, history
  <2>2. \A d \in Conns : socket'[d] \in {"new", "auth"} => socket[d] \in {"new", "auth"}
    BY <1>1 DEF Connect, Authenticate, Upgrade, IInv, TypeOK
  <2> QED BY <1>1, <2>1, <2>2, SocketStep
          DEF Connect, Authenticate, Upgrade, process, history
<1>2. CASE UpdateSession(c) \/ Misuses(c) \/ ViolationForgotten(c)
  <2>1. /\ client' \in [Conns -> Accounts]
        /\ socket' = socket \/ socket' = [socket EXCEPT ![c] = "closing"]
    <3>1. CASE Misuses(c)
      <4>1. Violation(c) \/ RequestClose(c)
        BY <3>1 DEF Misuses, CreateUnasked, RetrieveUnknown, UnknownEvent, BadFrame
      <4> QED BY <4>1, ViolationEffect DEF IInv
    <3>2. CASE ViolationForgotten(c)
      <4>1. client[c] \in Accounts /\ client \in [Conns -> Accounts]
        BY DEF IInv, TypeOK, Accounts
      <4>2. client[c].strikes - 1 \in 0..Violations - 1
        BY <3>2, <4>1, AuthorityAssumption DEF ViolationForgotten, Accounts
      <4>3. [client[c] EXCEPT !.strikes = client[c].strikes - 1] \in Accounts
        BY <4>1, <4>2 DEF Accounts
      <4> QED BY <3>2, <4>1, <4>3 DEF ViolationForgotten
    <3>3. CASE UpdateSession(c)
      <4>1. PICK update \in Updates :
              \/ Violation(c)
              \/ UNCHANGED <<socket, client>>
              \/ client' = [client EXCEPT ![c].configured = TRUE] /\ socket' = socket
        BY <3>3 DEF UpdateSession, Updates
      <4>2. client[c] \in Accounts /\ client \in [Conns -> Accounts]
        BY DEF IInv, TypeOK, Accounts
      <4>3. [client[c] EXCEPT !.configured = TRUE] \in Accounts
        BY <4>2 DEF Accounts
      <4> QED BY <4>1, <4>2, <4>3, ViolationEffect DEF IInv
    <3> QED BY <1>2, <3>1, <3>2, <3>3
  <2>2. UNCHANGED <<process, begin, closed, teardown, history>>
    BY <1>2 DEF UpdateSession, Misuses, ViolationForgotten
  <2>3. TypeOK'
    BY <2>1, <2>2 DEF IInv, TypeOK, Accounts, process, history
  <2>4. \A d \in Conns : socket'[d] \in {"new", "auth"} => socket[d] \in {"new", "auth"}
    BY <2>1 DEF IInv, TypeOK
  <2> QED BY <2>2, <2>3, <2>4, SocketStep DEF process, history
<1> QED BY <1>1, <1>2

\* Steps that close a session: of the service, the control plane, the client.
LEMMA Closings ==
    ASSUME IInv, NEW c \in Conns, EndSession(c) \/ Hangup \/ AskToEnd(c)
    PROVE  IInv'
<1>1. CASE EndSession(c)
  <2>1. TypeOK'
    BY <1>1, CloseEffect DEF EndSession, IInv, TypeOK, process, history, Accounts
  <2> QED BY <1>1, <2>1, ClosingStep DEF EndSession
<1>2. CASE Hangup
  <2>1. sessions \in Conns
    BY <1>2 DEF Hangup, IInv, TypeOK
  <2>2. TypeOK'
    BY <1>2, <2>1, CloseEffect DEF Hangup, IInv, TypeOK, process, history, Accounts
  <2> QED BY <1>2, <2>1, <2>2, ClosingStep DEF Hangup
<1>3. CASE AskToEnd(c)
  <2>1. UNCHANGED <<process, socket, begin, history>>
    BY <1>3 DEF AskToEnd
  <2>2. /\ client' \in [Conns -> Accounts]
        /\ Close(c, "end") \/ UNCHANGED <<closed, teardown>>
    <3>1. CASE begin[c] = "ok"
      BY <1>3, <3>1, RequestEffect, CloseEffect DEF AskToEnd, IInv
    <3>2. CASE begin[c] # "ok"
      <4>1. client[c] \in Accounts /\ client \in [Conns -> Accounts]
        BY DEF IInv, TypeOK, Accounts
      <4>2. client[c].held + 1 \in 0..Insisting
        BY <1>3, <4>1, AuthorityAssumption DEF AskToEnd, Accounts
      <4>3. [client[c] EXCEPT !.held = client[c].held + 1] \in Accounts
        BY <4>1, <4>2 DEF Accounts
      <4> QED BY <1>3, <3>2, <4>1, <4>3 DEF AskToEnd
    <3> QED BY <3>1, <3>2
  <2>3. TypeOK'
    BY <2>1, <2>2, CloseEffect DEF IInv, TypeOK, Accounts, process, history
  <2> QED BY <2>1, <2>2, <2>3, ClosingStep
<1> QED BY <1>1, <1>2, <1>3

LEMMA SendingAway ==
    ASSUME IInv, NEW c \in Conns,
           AuthFails(c) \/ UpgradeRejected(c) \/ TakeOverRefused(c)
    PROVE  IInv'
<1>1. /\ SendAway(c) /\ begin[c] = "none"
      /\ UNCHANGED <<context, sessions, authority, current, client, teardown, history>>
      /\ \/ UNCHANGED section /\ section.conn # c
         \/ section = [conn |-> c, phase |-> "draining"] /\ section' = Idle
  BY DEF AuthFails, UpgradeRejected, TakeOverRefused, IInv, FreshInv, SectionInv, process
<1>2. TypeOK'
  <2>1. section' \in [conn : Conns \cup {None}, phase : Phases]
    BY <1>1 DEF IInv, TypeOK, Idle, Phases
  <2> QED BY <1>1, <2>1 DEF SendAway, IInv, TypeOK, history
<1> QED BY <1>1, <1>2, SentAway

-----------------------------------------------------------------------------
(* The theorems *)

LEMMA InitIInv == Init => IInv
<1> SUFFICES ASSUME Init PROVE IInv
  OBVIOUS
<1>1. TypeOK
  <2>1. Stranger \in Accounts
    BY AuthorityAssumption DEF Stranger, Accounts
  <2>2. client \in [Conns -> Accounts]
    BY <2>1 DEF Init
  <2>3. section \in [conn : Conns \cup {None}, phase : Phases]
    BY DEF Init, Idle, Phases
  <2>4. readies \in 0..MaxReady
    BY AuthorityAssumption DEF Init
  <2> QED BY <2>2, <2>3, <2>4 DEF Init, TypeOK, Accounts
<1> QED BY <1>1, AuthorityAssumption
        DEF Init, IInv, SectionInv, FreshInv, CloseInv, ReachInv, EndInv, EndIsFinal,
            Live, Idle

LEMMA NextIInv == IInv /\ [Next]_vars => IInv'
<1> SUFFICES ASSUME IInv, [Next]_vars PROVE IInv'
  OBVIOUS
<1>1. CASE UNCHANGED vars
  BY <1>1 DEF vars, process, local, history, IInv, TypeOK, SectionInv, FreshInv,
              CloseInv, ReachInv, EndInv, EndIsFinal, Live
<1>2. CASE Ready \/ ContextExpires
  BY <1>2, ContextHandlers
<1>3. CASE Hangup
  <2>1. sessions \in Conns
    BY <1>3 DEF Hangup, IInv, TypeOK
  <2> QED BY <1>3, <2>1, Closings
<1>4. ASSUME NEW c \in Conns,
             \/ Connect(c) \/ AuthFails(c) \/ Authenticate(c)
             \/ Upgrade(c) \/ UpgradeRejected(c)
             \/ TakeOver(c) \/ TakeOverRefused(c)
             \/ StartSession(c) \/ Session(c)
             \/ UpdateSession(c) \/ Misuses(c) \/ ViolationForgotten(c) \/ AskToEnd(c)
      PROVE  IInv'
  BY <1>4, SocketHandlers, Closings, SendingAway, TakingOver, StartOfSession,
     CloseOfSocket, EndOfTeardown, EndOfBegin, FailureOfStart
     DEF Session
<1> QED BY <1>1, <1>2, <1>3, <1>4 DEF Next

\* The bookkeeping of connections, sessions and their clients is well typed
\* (index.ts, session-context.ts, adapter.ts).
THEOREM TypeCorrect == Spec => []TypeOK
<1>1. IInv => TypeOK BY DEF IInv
<1> QED BY <1>1, InitIInv, NextIInv, PTL DEF Spec

\* Whichever connections take the session over, close and are torn down at
\* whatever pace, the one that is live is the one a hangup finds and the one that
\* has the authority to report the end (index.ts, sessions and sessionAuthorities).
THEOREM HangupReachesTheLive == Spec => []LiveIsReachable
<1>1. IInv => LiveIsReachable BY DEF IInv, ReachInv, LiveIsReachable
<1> QED BY <1>1, InitIInv, NextIInv, PTL DEF Spec

\* Once the end was reported nothing is live until the control plane prepares the
\* session again (index.ts, onEnded with releaseAuthority).
THEOREM EndsAreFinal == Spec => []EndIsFinal
<1>1. IInv => EndIsFinal BY DEF IInv
<1> QED BY <1>1, InitIInv, NextIInv, PTL DEF Spec

-----------------------------------------------------------------------------
(* Every end is reported, but for that of a session whose start rejected after it *)
(* was closed.  A closed session that has not reported yet has the authority to do *)
(* so, or a successor took it.                                                    *)

OwedInv ==
    /\ section.phase = "closing" => begin[section.conn] = "late"
    /\ section.phase = "failing" => closed[section.conn] = "end"
    /\ \A c \in Conns : closed[c] = "end" /\ begin[c] # "late" =>
          IF teardown[c] = "done" THEN c \in reported \cup replaced
          ELSE authority = c \/ c \in replaced

\* A start that rejected late stays one.
LateKept == \A c \in Conns : begin[c] = "late" => begin'[c] = "late"

LEMMA OwedKept ==
    ASSUME IInv, OwedInv,
           section'.phase = "closing" => begin'[section'.conn] = "late",
           section'.phase = "failing" => closed'[section'.conn] = "end",
           LateKept, UNCHANGED authority, reported \subseteq reported', replaced \subseteq replaced',
           \A c \in Conns :
              \/ closed'[c] = closed[c] /\ teardown'[c] = teardown[c]
              \/ Live(c) /\ teardown'[c] = "working"
              \/ closed'[c] # "end"
    PROVE  OwedInv'
  BY DEF OwedInv, LateKept, IInv, ReachInv

\* Nobody new fails to start, and the failed start that is there stays closed.
LEMMA OwedElsewhere ==
    ASSUME IInv, OwedInv, LateKept, UNCHANGED <<authority, reported, replaced>>,
           \/ UNCHANGED section
           \/ section'.phase \in {"idle", "draining", "beginning"},
           NEW how \in {"end", "detach", "refused"},
           \A c \in Conns :
              \/ closed'[c] = closed[c] /\ teardown'[c] = teardown[c]
              \/ Live(c) /\ closed'[c] = how /\ teardown'[c] = "working"
              \/ begin[c] = "none" /\ closed'[c] = "refused"
    PROVE  OwedInv'
<1>1. section'.phase = "closing" => begin'[section'.conn] = "late"
  BY DEF OwedInv, LateKept, IInv, SectionInv, Idle
<1>2. section'.phase = "failing" => closed'[section'.conn] = "end"
  BY DEF OwedInv, IInv, SectionInv, Live, Idle
<1> QED BY <1>1, <1>2, OwedKept DEF IInv, TypeOK

LEMMA OwedInit == Init => OwedInv
  BY DEF Init, OwedInv, Idle

LEMMA OwedStep ==
    ASSUME IInv, OwedInv, [Next]_vars PROVE OwedInv'
<1>1. CASE UNCHANGED vars
  BY <1>1 DEF vars, process, local, history, OwedInv
<1>2. CASE Ready \/ ContextExpires
  BY <1>2 DEF Ready, ContextExpires, local, history, OwedInv
<1>3. ASSUME NEW c \in Conns,
             \/ Connect(c) \/ Authenticate(c) \/ Upgrade(c)
             \/ UpdateSession(c) \/ Misuses(c) \/ ViolationForgotten(c)
      PROVE  OwedInv'
  BY <1>3 DEF Connect, Authenticate, Upgrade, UpdateSession, Misuses, ViolationForgotten,
              process, history, OwedInv
<1>4. ASSUME NEW c \in Conns, Close(c, "end") \/ UNCHANGED <<closed, teardown>>,
             UNCHANGED <<authority, section, begin, reported, replaced>>
      PROVE  OwedInv'
  <2>1. \A d \in Conns :
           \/ closed'[d] = closed[d] /\ teardown'[d] = teardown[d]
           \/ Live(d) /\ closed'[d] = "end" /\ teardown'[d] = "working"
    BY <1>4, CloseEffect DEF IInv, TypeOK
  <2> QED BY <1>4, <2>1, OwedElsewhere DEF LateKept
<1>5. ASSUME NEW c \in Conns, EndSession(c) \/ SocketCloses(c) \/ AskToEnd(c)
      PROVE  OwedInv'
  <2>1. Close(c, "end") \/ UNCHANGED <<closed, teardown>>
    <3>1. ASSUME RequestEnd(c, 1)
          PROVE  Close(c, "end") \/ UNCHANGED <<closed, teardown>>
      BY <3>1, RequestEffect DEF IInv
    <3> QED BY <1>5, <3>1 DEF EndSession, SocketCloses, AskToEnd
  <2>2. UNCHANGED <<authority, section, begin, reported, replaced>>
    BY <1>5 DEF EndSession, SocketCloses, AskToEnd, process, history
  <2> QED BY <1>4, <2>1, <2>2
<1>6. CASE Hangup
  <2>1. sessions \in Conns /\ Close(sessions, "end")
    BY <1>6 DEF Hangup, IInv, TypeOK
  <2> QED BY <1>4, <1>6, <2>1 DEF Hangup, process, history
<1>7. ASSUME NEW c \in Conns,
             AuthFails(c) \/ UpgradeRejected(c) \/ TakeOverRefused(c)
      PROVE  OwedInv'
  <2>1. begin[c] = "none" /\ SendAway(c)
    BY <1>7 DEF AuthFails, UpgradeRejected, TakeOverRefused, IInv, FreshInv, SectionInv
  <2>2. \A d \in Conns : \/ closed'[d] = closed[d] /\ teardown'[d] = teardown[d]
                         \/ begin[d] = "none" /\ closed'[d] = "refused"
    BY <1>7, <2>1 DEF SendAway, IInv, TypeOK, AuthFails, UpgradeRejected, TakeOverRefused
  <2>3. /\ UNCHANGED <<authority, reported, replaced>>
        /\ UNCHANGED section \/ section'.phase = "idle"
    BY <1>7 DEF AuthFails, UpgradeRejected, TakeOverRefused, process, history, Idle
  <2>4. LateKept
    BY <2>1 DEF SendAway, LateKept, IInv, TypeOK
  <2> QED BY <2>2, <2>3, <2>4, OwedElsewhere
<1>8. ASSUME NEW c \in Conns, TakeOver(c) PROVE OwedInv'
  <2>1. \A d \in Conns :
           \/ closed'[d] = closed[d] /\ teardown'[d] = teardown[d]
           \/ Live(d) /\ closed'[d] = "detach" /\ teardown'[d] = "working"
    <3>1. CASE current = None
      BY <1>8, <3>1 DEF TakeOver
    <3>2. CASE current # None
      <4>1. current \in Conns /\ Close(current, "detach")
        BY <1>8, <3>2 DEF TakeOver, IInv, TypeOK
      <4> QED BY <4>1, CloseEffect DEF IInv, TypeOK
    <3> QED BY <3>1, <3>2
  <2>2. UNCHANGED <<authority, reported, replaced>> /\ section'.phase = "draining" /\ LateKept
    BY <1>8 DEF TakeOver, history, LateKept
  <2> QED BY <2>1, <2>2, OwedElsewhere
<1>9. ASSUME NEW c \in Conns, StartSession(c) PROVE OwedInv'
  <2>1. /\ section'.phase = "beginning" /\ authority' = c
        /\ UNCHANGED <<closed, teardown, reported>>
        /\ replaced' = IF authority = None THEN replaced ELSE replaced \cup {authority}
    BY <1>9 DEF StartSession
  <2>2. LateKept
    BY <1>9 DEF StartSession, LateKept, IInv, SectionInv, TypeOK
  <2> QED BY <2>1, <2>2, AuthorityAssumption DEF OwedInv, LateKept
<1>10. ASSUME NEW c \in Conns, BeginReturns(c) PROVE OwedInv'
  <2>1. Close(c, "end") \/ UNCHANGED <<closed, teardown>>
    <3>1. client[c].held \in Nat
      BY DEF IInv, TypeOK
    <3> QED BY <1>10, <3>1, RequestEffect DEF BeginReturns, IInv
  <2>2. \A d \in Conns :
           \/ closed'[d] = closed[d] /\ teardown'[d] = teardown[d]
           \/ Live(d) /\ closed'[d] = "end" /\ teardown'[d] = "working"
    BY <2>1, CloseEffect DEF IInv, TypeOK
  <2>3. UNCHANGED <<authority, reported, replaced>> /\ section'.phase = "idle"
    BY <1>10 DEF BeginReturns, history, Idle
  <2>4. LateKept
    BY <1>10 DEF BeginReturns, LateKept, IInv, SectionInv, TypeOK
  <2> QED BY <2>2, <2>3, <2>4, OwedElsewhere
<1>11. ASSUME NEW c \in Conns, BeginRejects(c) PROVE OwedInv'
  <2>1. /\ Close(c, "end") /\ UNCHANGED <<authority, reported, replaced>>
        /\ begin[c] = "running" /\ begin' = [begin EXCEPT ![c] = Rejection(c)]
    BY <1>11 DEF BeginRejects, history, IInv, SectionInv
  <2>2. \A d \in Conns :
           \/ closed'[d] = closed[d] /\ teardown'[d] = teardown[d]
           \/ Live(d) /\ closed'[d] = "end" /\ teardown'[d] = "working"
    BY <2>1, CloseEffect DEF IInv, TypeOK
  <2>3. LateKept
    BY <2>1 DEF LateKept, IInv, TypeOK
  <2>4. CASE Live(c)
    <3>1. section'.phase = "failing" /\ section'.conn = c /\ closed'[c] = "end"
      BY <1>11, <2>1, <2>4, CloseEffect DEF BeginRejects, IInv, TypeOK
    <3> QED BY <2>1, <2>2, <2>3, <3>1, OwedKept
  <2>5. CASE ~Live(c)
    <3>1. section'.phase = "closing" /\ section'.conn = c /\ begin'[c] = "late"
      BY <1>11, <2>1, <2>5 DEF BeginRejects, Rejection, IInv, TypeOK
    <3> QED BY <2>1, <2>2, <2>3, <3>1, OwedKept
  <2> QED BY <2>4, <2>5
<1>12. ASSUME NEW c \in Conns, StartFails(c) PROVE OwedInv'
  <2>1. /\ section.conn = c /\ section'.phase = "idle"
        /\ UNCHANGED <<begin, closed, teardown, reported, replaced>>
        /\ authority' = authority \/ authority = c
    BY <1>12 DEF StartFails, HasAuthority, Forget, Idle, local, history
  <2>2. begin[c] = "late" \/ teardown[c] = "done"
    BY <1>12, <2>1 DEF StartFails, OwedInv
  <2> QED BY <2>1, <2>2 DEF OwedInv
<1>13. ASSUME NEW c \in Conns, TeardownEnds(c) PROVE OwedInv'
  <2>1. /\ \A d \in Conns : teardown'[d] = IF d = c THEN "done" ELSE teardown[d]
        /\ teardown[c] = "working" /\ UNCHANGED <<section, begin, closed, replaced>>
    BY <1>13 DEF TeardownEnds, IInv, TypeOK
  <2>2. CASE closed[c] = "end" /\ authority = c
    <3>1. reported' = reported \cup {c}
      BY <1>13, <2>2 DEF TeardownEnds, HasAuthority
    <3> QED BY <2>1, <2>2, <3>1 DEF OwedInv
  <2>3. CASE ~(closed[c] = "end" /\ authority = c)
    <3>1. UNCHANGED <<authority, reported>>
      BY <1>13, <2>3 DEF TeardownEnds, HasAuthority
    <3> QED BY <2>1, <2>3, <3>1 DEF OwedInv
  <2> QED BY <2>2, <2>3
<1> QED BY <1>1, <1>2, <1>3, <1>5, <1>6, <1>7, <1>8, <1>9, <1>10, <1>11, <1>12, <1>13
        DEF Next, Session

\* A session that was ended has reported its end by the time it is torn down, or
\* has a successor that will, whatever closed it: the peer, a hangup, a failed
\* start, a client that insists (media-session.ts, end and its onEnded); but not
\* one whose start rejected after it was closed.
THEOREM EndsAreReported == Spec => []EndedSessionsReport
<1>1. IInv /\ OwedInv => EndedSessionsReport
  BY DEF OwedInv, EndedSessionsReport
<1>2. Init => IInv /\ OwedInv
  BY InitIInv, OwedInit
<1>3. IInv /\ OwedInv /\ [Next]_vars => (IInv /\ OwedInv)'
  BY NextIInv, OwedStep
<1> QED BY <1>1, <1>2, <1>3, PTL DEF Spec


-----------------------------------------------------------------------------
(***************************************************************************)
(* Conduct.  A handler is a composition of functions of a pair, so each    *)
(* function has a lemma that says what it leaves as it was, and what it    *)
(* keeps true of the pair; the actions follow by composing the lemmas.     *)
(***************************************************************************)
-----------------------------------------------------------------------------
(* Pairs, and what a call leaves as it was                                 *)

Engine == [turn : TurnKinds, phase : {"llm", "tts"}, sounded : BOOLEAN,
           held : BOOLEAN, interrupted : BOOLEAN, suppress : BOOLEAN,
           cursor : 0..(Questions - 1), answerSeen : BOOLEAN,
           stall : 0..(VoicedStallMax - 1),
           grace : {"none", "armed", "intent"}, autoNext : BOOLEAN]
Media == [speaking : BOOLEAN, waiting : BOOLEAN, counted : BOOLEAN,
          cursor : 0..(Questions - 1),
          r3 : {"idle", "pending", "playing", "after"},
          epoch : 0..NoQuestion, negative : 0..(WarnMax + 1),
          severe : 0..SevereMax, streak : 0..(ChatterTurns - 1),
          judged : BOOLEAN, judging : BOOLEAN, valid : BOOLEAN,
          forced : BOOLEAN, playing : BOOLEAN, draining : BOOLEAN,
          guard : BOOLEAN, timer : {"off", "hard", "drain"}, closed : BOOLEAN]
Pair == [e : Engine, m : Media]

\* The turns a guard has nothing to do with.
Ordinary == {"opening", "direct", "nudge", "user"}

\* The forced end and the guard are untouched; the turn may be replaced by
\* an ordinary one.
SameEnd(c, d) ==
    /\ d.m.forced = c.m.forced /\ d.m.closed = c.m.closed
    /\ d.m.timer = c.m.timer /\ d.m.draining = c.m.draining
    /\ d.m.playing = c.m.playing /\ d.m.guard = c.m.guard
    /\ d.e.suppress = c.e.suppress
    /\ d.e.turn = c.e.turn \/ d.e.turn \in Ordinary

\* Nothing is counted or judged.
SameCounts(c, d) ==
    /\ d.m.negative = c.m.negative /\ d.m.judged = c.m.judged
    /\ d.m.judging = c.m.judging /\ d.m.valid = c.m.valid
    /\ d.m.streak = c.m.streak /\ d.m.cursor = c.m.cursor

\* The same question, no new grace and no new wait.
SamePlace(c, d) ==
    /\ d.e.cursor = c.e.cursor
    /\ d.e.grace # "none" => c.e.grace # "none"
    /\ d.e.grace = "intent" => c.e.grace = "intent"
    /\ d.m.waiting => c.m.waiting

Calm(c, d) ==
    d \in Pair /\ SameEnd(c, d) /\ SameCounts(c, d) /\ SamePlace(c, d)

LEMMA CalmIsTransitive ==
    ASSUME NEW c, NEW d, NEW x, Calm(c, d), Calm(d, x)
    PROVE  Calm(c, x)
<1>1. SameEnd(c, x)
    BY ZenonT(30) DEF Calm, SameEnd
<1>2. SameCounts(c, x) /\ SamePlace(c, x)
    BY ZenonT(30) DEF Calm, SameCounts, SamePlace
<1> QED  BY <1>1, <1>2 DEF Calm

LEMMA CalmToItself ==
    ASSUME NEW c \in Pair
    PROVE  Calm(c, c)
  BY DEF Calm, SameEnd, SameCounts, SamePlace

LEMMA EngineStepIsCalm ==
    ASSUME NEW c, NEW d \in Pair, d.m = c.m, d.e.suppress = c.e.suppress,
           d.e.turn = c.e.turn \/ d.e.turn \in Ordinary,
           d.e.cursor = c.e.cursor, d.e.grace = c.e.grace
    PROVE  Calm(c, d)
  BY ZenonT(30) DEF Calm, SameEnd, SameCounts, SamePlace

-----------------------------------------------------------------------------
(* The engine's turns                                                      *)

LEMMA RunTurnIsCalm ==
    ASSUME NEW c \in Pair, NEW kind \in Ordinary
    PROVE  Calm(c, RunTurn(c, kind))
<1>1. CASE Busy(c)
    BY <1>1, CalmToItself DEF RunTurn
<1>2. CASE ~Busy(c)
    <2> DEFINE d == [c EXCEPT !.e.turn = kind, !.e.phase = "llm",
                              !.e.sounded = FALSE, !.e.autoNext = @ /\ kind # "user"]
    <2>1. d = RunTurn(c, kind)
        BY <1>2 DEF RunTurn
    <2>2. kind \in TurnKinds /\ (c.e.autoNext /\ kind # "user") \in BOOLEAN
        BY DEF Ordinary, TurnKinds
    <2>3. d \in Pair
        BY <2>2, ZenonT(30) DEF Pair, Engine
    <2>4. d.m = c.m /\ d.e.turn = kind /\ d.e.suppress = c.e.suppress
          /\ d.e.cursor = c.e.cursor /\ d.e.grace = c.e.grace
        BY ZenonT(30) DEF Pair, Engine
    <2> HIDE DEF d
    <2> QED  BY <2>1, <2>3, <2>4, EngineStepIsCalm
<1> QED  BY <1>1, <1>2

LEMMA DirectTurnIsCalm ==
    ASSUME NEW c \in Pair
    PROVE  Calm(c, DirectTurn(c))
<1>1. CASE c.e.turn # "none"
    BY <1>1, CalmToItself DEF DirectTurn
<1>2. CASE c.e.turn = "none"
    <2> DEFINE d == [c EXCEPT !.e.turn = "direct", !.e.phase = "tts",
                              !.e.sounded = FALSE]
    <2>1. d = DirectTurn(c)
        BY <1>2 DEF DirectTurn
    <2>2. "direct" \in TurnKinds
        BY DEF TurnKinds
    <2>3. d \in Pair
        BY <2>2, ZenonT(30) DEF Pair, Engine
    <2>4. d.m = c.m /\ d.e.turn = "direct" /\ d.e.suppress = c.e.suppress
          /\ d.e.cursor = c.e.cursor /\ d.e.grace = c.e.grace
        BY ZenonT(30) DEF Pair, Engine
    <2> HIDE DEF d
    <2> QED  BY <2>1, <2>3, <2>4, EngineStepIsCalm DEF Ordinary
<1> QED  BY <1>1, <1>2

LEMMA RespondIsCalm ==
    ASSUME NEW c \in Pair, NEW as \in {"user", "direct"}
    PROVE  Calm(c, Respond(c, as))
  BY RunTurnIsCalm, DirectTurnIsCalm DEF Respond, Ordinary

LEMMA EndTurnTyped ==
    ASSUME NEW c \in Pair
    PROVE  /\ EndTurn(c) \in Pair /\ EndTurn(c).m = c.m
           /\ EndTurn(c).e.turn = "none" /\ SamePlace(c, EndTurn(c))
           /\ EndTurn(c).e.suppress = c.e.suppress
<1>1. "none" \in TurnKinds
    BY DEF TurnKinds
<1>2. EndTurn(c) \in Pair
    BY <1>1, ZenonT(30) DEF EndTurn, Pair, Engine
<1> QED
    <2>1. EndTurn(c).m = c.m /\ EndTurn(c).e.turn = "none"
          /\ EndTurn(c).e.suppress = c.e.suppress
          /\ EndTurn(c).e.cursor = c.e.cursor /\ EndTurn(c).e.grace = c.e.grace
        BY ZenonT(30) DEF EndTurn, Pair, Engine
    <2> QED  BY <1>2, <2>1 DEF SamePlace

LEMMA CancelGraceIsCalm ==
    ASSUME NEW c \in Pair
    PROVE  /\ Calm(c, CancelGrace(c)) /\ CancelGrace(c).e.grace = "none"
           /\ CancelGrace(c).e.turn = c.e.turn
           /\ CancelGrace(c).m = c.m
<1>1. CancelGrace(c) \in Pair
    BY ZenonT(30) DEF CancelGrace, Pair, Engine
<1>2. CancelGrace(c).e.grace = "none" /\ CancelGrace(c).e.turn = c.e.turn
      /\ CancelGrace(c).m = c.m
    BY SMT DEF CancelGrace, Pair, Engine
<1>3. SameEnd(c, CancelGrace(c)) /\ SameCounts(c, CancelGrace(c))
      /\ SamePlace(c, CancelGrace(c))
    BY SMT DEF CancelGrace, Pair, Engine, Media, SameEnd, SameCounts, SamePlace
<1> QED  BY <1>1, <1>2, <1>3 DEF Calm

LEMMA ArmGraceIsCalm ==
    ASSUME NEW c \in Pair
    PROVE  Calm(c, ArmGrace(c)) /\ ArmGrace(c).e.grace # "intent"
<1>1. CASE c.e.grace = "none"
    BY <1>1, CalmToItself DEF ArmGrace
<1>2. CASE c.e.grace # "none"
    <2> DEFINE d == [c EXCEPT !.e.grace = "armed", !.e.held = FALSE]
    <2>1. d = ArmGrace(c)
        BY <1>2 DEF ArmGrace
    <2>2. d \in Pair
        BY ZenonT(30) DEF Pair, Engine
    <2>3. d.m = c.m /\ d.e.turn = c.e.turn /\ d.e.suppress = c.e.suppress
          /\ d.e.cursor = c.e.cursor /\ d.e.grace = "armed"
        BY ZenonT(30) DEF Pair, Engine
    <2> HIDE DEF d
    <2> QED
        BY <1>2, <2>1, <2>2, <2>3, ZenonT(30) DEF Calm, SameEnd, SameCounts, SamePlace
<1> QED  BY <1>1, <1>2

LEMMA ContinueIsCalm ==
    ASSUME NEW c \in Pair
    PROVE  Calm(c, Continue(c))
<1> DEFINE d == [c EXCEPT !.e.autoNext = FALSE]
<1>1. d \in Pair
    BY ZenonT(30) DEF Pair, Engine
<1>2. SameEnd(c, d) /\ SameCounts(c, d) /\ SamePlace(c, d)
    BY SMT DEF Pair, Engine, Media, SameEnd, SameCounts, SamePlace
<1>3. Calm(c, DirectTurn(d))
    BY <1>1, <1>2, DirectTurnIsCalm, CalmIsTransitive DEF Calm
<1> QED  BY <1>3, CalmToItself DEF Continue

-----------------------------------------------------------------------------
(* The question cursor                                                     *)

\* As Calm, but the question may change.
Steady(c, d) ==
    /\ d \in Pair /\ SameEnd(c, d) /\ SameCounts(c, d)
    /\ d.m.waiting => c.m.waiting
    /\ d.e.cursor \in {c.e.cursor, c.e.cursor + 1}

LEMMA AdvanceIsSteady ==
    ASSUME NEW c \in Pair, HasNext(c)
    PROVE  /\ Steady(c, Advance(c)) /\ Advance(c).e.grace = c.e.grace
           /\ Advance(c).e.turn = c.e.turn /\ Advance(c).m = c.m
           /\ Advance(c).e.cursor = c.e.cursor + 1
<1>1. c.e \in Engine /\ c.e.cursor \in 0..(Questions - 1)
    BY DEF Pair, Engine
<1>2. c.e.cursor + 1 \in 0..(Questions - 1) /\ 0 \in 0..(VoicedStallMax - 1)
    BY <1>1, ConductAssumption, SMT DEF HasNext, ConductAssumption
<1>3. Advance(c) \in Pair
    BY <1>2, ZenonT(30) DEF Advance, Pair, Engine
<1>4. Advance(c).e.grace = c.e.grace /\ Advance(c).e.turn = c.e.turn
      /\ Advance(c).m = c.m /\ Advance(c).e.cursor = c.e.cursor + 1
    BY ZenonT(30) DEF Advance, Pair, Engine
<1>5. Advance(c).e.suppress = c.e.suppress
    BY ZenonT(30) DEF Advance, Pair, Engine
<1>6. SameEnd(c, Advance(c)) /\ SameCounts(c, Advance(c))
    BY <1>4, <1>5, ZenonT(30) DEF SameEnd, SameCounts
<1> QED  BY <1>3, <1>4, <1>6 DEF Steady

LEMMA ScheduleIsSteady ==
    ASSUME NEW c \in Pair, NEW outcome \in Outcomes(c)
    PROVE  LET d == AdvanceAndSchedule(c, outcome)
           IN /\ Steady(c, d) /\ d.e.turn = c.e.turn
              /\ d.e.grace # "none" => HasNext(d)
<1> DEFINE a == CancelGrace(c)
           b == [a EXCEPT !.e.answerSeen = TRUE]
           Good(d) == /\ Steady(c, d) /\ d.e.turn = c.e.turn
                      /\ d.e.grace # "none" => HasNext(d)
<1>1. /\ Calm(c, a) /\ a.e.grace = "none" /\ a.e.turn = c.e.turn
      /\ a \in Pair /\ a.e.cursor = c.e.cursor /\ (HasNext(c) <=> HasNext(a))
      /\ a.m = c.m
    BY CancelGraceIsCalm DEF Calm, SamePlace, HasNext
<1>2. Good(a)
    BY <1>1 DEF Steady, Calm, SamePlace
<1>3. /\ b \in Pair /\ b.e.grace = "none" /\ b.e.turn = c.e.turn
      /\ b.e.cursor = c.e.cursor /\ SameEnd(c, b) /\ b.m = c.m
    <2> HIDE DEF a
    <2>1. b \in Pair
        BY <1>1, ZenonT(30) DEF Pair, Engine
    <2>2. b.e.grace = "none" /\ b.e.turn = c.e.turn /\ b.e.cursor = c.e.cursor
          /\ b.m = c.m /\ b.e.suppress = a.e.suppress
        BY <1>1, SMT DEF Pair, Engine
    <2> QED  BY <1>1, <2>1, <2>2, ZenonT(30) DEF Calm, SameEnd
<1>4. Good(b)
    <2> HIDE DEF b
    <2> QED  BY <1>3, ZenonT(30) DEF Steady, SameCounts
<1>5. CASE outcome = "follow"
    BY <1>4, <1>5 DEF AdvanceAndSchedule
<1>6. CASE outcome = "grace"
    <2> DEFINE d == [b EXCEPT !.e.grace = "intent"]
    <2>1. HasNext(c)
        BY <1>6 DEF Outcomes
    <2> HIDE DEF b
    <2>2. d \in Pair
        BY <1>3, ZenonT(30) DEF Pair, Engine
    <2>3. d.e.turn = c.e.turn /\ d.e.cursor = c.e.cursor /\ d.m = c.m
          /\ d.e.suppress = b.e.suppress
        BY <1>3, SMT DEF Pair, Engine
    <2>4. SameEnd(c, d)
        BY <1>3, <2>3, ZenonT(30) DEF SameEnd
    <2>5. Good(d)
        <3> HIDE DEF d
        <3> QED  BY <2>1, <2>2, <2>3, <2>4 DEF Steady, SameCounts, HasNext
    <2>6. d = AdvanceAndSchedule(c, outcome)
        BY <1>6 DEF AdvanceAndSchedule, b
    <2> HIDE DEF d
    <2> QED  BY <2>5, <2>6
<1>7. HasNext(c) => Good(Advance(a))
    <2> SUFFICES ASSUME HasNext(c) PROVE Good(Advance(a))
        OBVIOUS
    <2> HIDE DEF a
    <2>1. Steady(a, Advance(a)) /\ Advance(a).e.turn = a.e.turn
          /\ Advance(a).e.grace = "none" /\ Advance(a).m = a.m
        BY <1>1, AdvanceIsSteady
    <2>2. SameEnd(c, Advance(a))
        BY <1>1, <2>1, ZenonT(30) DEF Steady, Calm, SameEnd
    <2> QED  BY <1>1, <2>1, <2>2, ZenonT(30) DEF Steady, SameCounts
<1>8. CASE outcome = "advance"
    BY <1>7, <1>8 DEF AdvanceAndSchedule, Outcomes
<1>9. CASE outcome = "unvoiced"
    <2>1. HasNext(c)
        BY <1>9 DEF Outcomes
    <2>2. CASE a.e.stall + 1 >= VoicedStallMax
        BY <1>7, <1>9, <2>1, <2>2 DEF AdvanceAndSchedule
    <2>3. CASE ~(a.e.stall + 1 >= VoicedStallMax)
        <3> DEFINE d == [b EXCEPT !.e.stall = @ + 1]
        <3>1. d = AdvanceAndSchedule(c, outcome)
            BY <1>9, <2>3 DEF AdvanceAndSchedule
        <3>2. b.e.stall = a.e.stall
            BY <1>1, SMT DEF Pair, Engine
        <3>3. a.e.stall \in 0..(VoicedStallMax - 1)
            <4> HIDE DEF a
            <4> QED  BY <1>1 DEF Pair, Engine
        <3> HIDE DEF b, a
        <3>4. b.e.stall + 1 \in 0..(VoicedStallMax - 1)
            BY <2>3, <3>2, <3>3, ConductAssumption DEF ConductAssumption
        <3>5. d \in Pair
            BY <1>3, <3>4, ZenonT(30) DEF Pair, Engine
        <3>6. d.e.turn = c.e.turn /\ d.e.cursor = c.e.cursor /\ d.m = c.m
              /\ d.e.suppress = b.e.suppress /\ d.e.grace = "none"
            BY <1>3, SMT DEF Pair, Engine
        <3>7. SameEnd(c, d)
            BY <1>3, <3>6, ZenonT(30) DEF SameEnd
        <3>8. Good(d)
            <4> HIDE DEF d
            <4> QED  BY <3>5, <3>6, <3>7 DEF Steady, SameCounts
        <3> HIDE DEF d
        <3> QED  BY <3>1, <3>8
    <2> QED  BY <2>2, <2>3
<1>10. CASE outcome \notin {"follow", "grace", "advance", "unvoiced"}
    BY <1>2, <1>10 DEF AdvanceAndSchedule
<1> QED  BY <1>5, <1>6, <1>8, <1>9, <1>10

LEMMA SilenceIsSteady ==
    ASSUME NEW c \in Pair, NEW voiced \in BOOLEAN
    PROVE  LET d == AdvanceOnSilence(c, voiced)
           IN /\ Steady(c, d)
              /\ d.e.grace # "none" => c.e.grace # "none"
              /\ d.e.grace = "intent" => c.e.grace = "intent"
<1> DEFINE Good(d) == /\ Steady(c, d)
                      /\ d.e.grace # "none" => c.e.grace # "none"
                      /\ d.e.grace = "intent" => c.e.grace = "intent"
<1>1. CASE c.m.epoch # c.e.cursor \/ ~c.e.answerSeen \/ ~HasNext(c)
    <2>1. Good(c)
        BY CalmToItself DEF Steady, Calm
    <2> QED  BY <1>1, <2>1 DEF AdvanceOnSilence
<1>2. CASE /\ ~(c.m.epoch # c.e.cursor \/ ~c.e.answerSeen \/ ~HasNext(c))
           /\ voiced \/ c.e.stall + 1 >= VoicedStallMax
    <2> DEFINE a == Advance(c)
               d == Continue(a)
    <2>1. Steady(c, a) /\ a.e.grace = c.e.grace
        BY <1>2, AdvanceIsSteady
    <2>2. a \in Pair
        BY <2>1 DEF Steady
    <2>3. Calm(a, d)
        BY <2>2, ContinueIsCalm
    <2>4. d = AdvanceOnSilence(c, voiced)
        BY <1>2 DEF AdvanceOnSilence
    <2> HIDE DEF a, d
    <2>5. SameEnd(c, d)
        BY <2>1, <2>3, ZenonT(30) DEF Steady, Calm, SameEnd
    <2>6. SameCounts(c, d)
        BY <2>1, <2>3, ZenonT(30) DEF Steady, Calm, SameCounts
    <2>7. Good(d)
        BY <2>1, <2>3, <2>5, <2>6, ZenonT(30) DEF Steady, Calm, SamePlace
    <2> QED  BY <2>4, <2>7
<1>3. CASE /\ ~(c.m.epoch # c.e.cursor \/ ~c.e.answerSeen \/ ~HasNext(c))
           /\ ~(voiced \/ c.e.stall + 1 >= VoicedStallMax)
    <2> DEFINE d == [c EXCEPT !.e.stall = @ + 1]
    <2>1. d = AdvanceOnSilence(c, voiced)
        BY <1>3 DEF AdvanceOnSilence
    <2>2. c.e.stall \in 0..(VoicedStallMax - 1)
        BY DEF Pair, Engine
    <2>3. c.e.stall + 1 \in 0..(VoicedStallMax - 1)
        BY <1>3, <2>2, ConductAssumption DEF ConductAssumption
    <2>4. d \in Pair
        BY <2>3, ZenonT(30) DEF Pair, Engine
    <2>5. SameEnd(c, d) /\ SameCounts(c, d) /\ d.m = c.m
          /\ d.e.grace = c.e.grace /\ d.e.cursor = c.e.cursor
        BY SMT DEF Pair, Engine, Media, SameEnd, SameCounts
    <2>6. Good(d)
        <3> HIDE DEF d
        <3> QED  BY <2>4, <2>5 DEF Steady
    <2> HIDE DEF d
    <2> QED  BY <2>1, <2>6
<1> QED  BY <1>1, <1>2, <1>3

-----------------------------------------------------------------------------
(* Waiting for an answer                                                   *)

LEMMA MediaStepIsCalm ==
    ASSUME NEW c, NEW d \in Pair, d.e = c.e,
           d.m.forced = c.m.forced, d.m.closed = c.m.closed,
           d.m.timer = c.m.timer, d.m.draining = c.m.draining,
           d.m.playing = c.m.playing, d.m.guard = c.m.guard,
           d.m.negative = c.m.negative, d.m.judged = c.m.judged,
           d.m.judging = c.m.judging, d.m.valid = c.m.valid,
           d.m.streak = c.m.streak, d.m.cursor = c.m.cursor,
           d.m.waiting => c.m.waiting
    PROVE  Calm(c, d)
  BY ZenonT(30) DEF Calm, SameEnd, SameCounts, SamePlace

LEMMA ResetR3IsCalm ==
    ASSUME NEW c \in Pair
    PROVE  /\ Calm(c, ResetR3(c)) /\ ResetR3(c).e = c.e
           /\ ResetR3(c).m.waiting = c.m.waiting
<1> DEFINE d == ResetR3(c)
<1>1. NoQuestion \in 0..NoQuestion
    BY ConductAssumption DEF ConductAssumption, NoQuestion
<1>2. d \in Pair
    BY <1>1, ZenonT(30) DEF ResetR3, Pair, Media
<1>3. d.e = c.e
    BY ZenonT(30) DEF ResetR3, Pair, Media
<1>4. /\ d.m.forced = c.m.forced /\ d.m.closed = c.m.closed
      /\ d.m.timer = c.m.timer /\ d.m.draining = c.m.draining
      /\ d.m.playing = c.m.playing /\ d.m.guard = c.m.guard
      /\ d.m.negative = c.m.negative /\ d.m.judged = c.m.judged
      /\ d.m.judging = c.m.judging /\ d.m.valid = c.m.valid
      /\ d.m.streak = c.m.streak /\ d.m.cursor = c.m.cursor
      /\ d.m.waiting = c.m.waiting
    BY ZenonT(30) DEF ResetR3, Pair, Media
<1> HIDE DEF d
<1>5. Calm(c, d)
    BY <1>2, <1>3, <1>4, MediaStepIsCalm
<1> QED  BY <1>3, <1>4, <1>5 DEF d

LEMMA LeaveWaitingIsCalm ==
    ASSUME NEW c \in Pair
    PROVE  /\ Calm(c, LeaveWaiting(c)) /\ LeaveWaiting(c).e = c.e
           /\ ~LeaveWaiting(c).m.waiting
<1> DEFINE d == [c EXCEPT !.m.waiting = FALSE, !.m.counted = FALSE]
<1>1. d \in Pair
    BY ZenonT(30) DEF Pair, Media
<1>2. d.e = c.e /\ ~d.m.waiting
    BY ZenonT(30) DEF Pair, Media
<1>3. /\ d.m.forced = c.m.forced /\ d.m.closed = c.m.closed
      /\ d.m.timer = c.m.timer /\ d.m.draining = c.m.draining
      /\ d.m.playing = c.m.playing /\ d.m.guard = c.m.guard
      /\ d.m.negative = c.m.negative /\ d.m.judged = c.m.judged
      /\ d.m.judging = c.m.judging /\ d.m.valid = c.m.valid
      /\ d.m.streak = c.m.streak /\ d.m.cursor = c.m.cursor
    BY ZenonT(30) DEF Pair, Media
<1>4. LeaveWaiting(c) = ResetR3(d)
    BY DEF LeaveWaiting
<1> HIDE DEF d
<1>5. Calm(c, d)
    BY <1>1, <1>2, <1>3, MediaStepIsCalm
<1>6. Calm(d, ResetR3(d)) /\ ResetR3(d).e = d.e /\ ~ResetR3(d).m.waiting
    BY <1>1, <1>2, ResetR3IsCalm
<1> QED  BY <1>2, <1>4, <1>5, <1>6, CalmIsTransitive

LEMMA MarkAiDoneIsCalm ==
    ASSUME NEW c \in Pair
    PROVE  /\ Calm(c, MarkAiDone(c)) /\ MarkAiDone(c).e = c.e
           /\ MarkAiDone(c).m.waiting = c.m.waiting
<1> DEFINE d == MarkAiDone(c)
<1>1. (IF c.m.r3 = "playing" THEN "after" ELSE c.m.r3)
        \in {"idle", "pending", "playing", "after"}
    BY ZenonT(30) DEF Pair, Media
<1>2. d \in Pair
    BY <1>1, ZenonT(30) DEF MarkAiDone, Pair, Media
<1>3. d.e = c.e
    BY ZenonT(30) DEF MarkAiDone, Pair, Media
<1>4. /\ d.m.forced = c.m.forced /\ d.m.closed = c.m.closed
      /\ d.m.timer = c.m.timer /\ d.m.draining = c.m.draining
      /\ d.m.playing = c.m.playing /\ d.m.guard = c.m.guard
      /\ d.m.negative = c.m.negative /\ d.m.judged = c.m.judged
      /\ d.m.judging = c.m.judging /\ d.m.valid = c.m.valid
      /\ d.m.streak = c.m.streak /\ d.m.cursor = c.m.cursor
      /\ d.m.waiting = c.m.waiting
    BY ZenonT(30) DEF MarkAiDone, Pair, Media
<1> HIDE DEF d
<1>5. Calm(c, d)
    BY <1>2, <1>3, <1>4, MediaStepIsCalm
<1> QED  BY <1>3, <1>4, <1>5 DEF d

-----------------------------------------------------------------------------
(* Notices, and the forced end                                             *)

(* A forced end has its timer, one that drains keeps guard and silence, a  *)
(* protected turn is guarded, and a reason that plays is.                  *)
Core(c) ==
    /\ c.m.forced => c.m.timer # "off"
    /\ c.m.draining => /\ c.m.forced /\ c.m.guard /\ c.e.suppress
                       /\ c.m.timer = "drain" /\ c.e.turn # "notice"
    /\ c.e.turn \in Protected => c.m.guard
    /\ c.m.playing => c.m.forced /\ c.m.guard

(* Between two handlers a guard has its turn as well.                      *)
Whole(c) == Core(c) /\ (c.m.guard /\ ~c.m.draining => c.e.turn # "none")

LEMMA SameEndKeepsWhole ==
    ASSUME NEW c, NEW d, SameEnd(c, d)
    PROVE  (Core(c) => Core(d)) /\ (Whole(c) => Whole(d))
<1>1. \A t \in Ordinary : t # "notice" /\ t # "none" /\ t \notin Protected
    BY DEF Ordinary, Protected
<1> QED  BY <1>1 DEF SameEnd, Core, Whole

\* A notice of the given kind is taken by the engine, or not.
LEMMA NoticeTaken ==
    ASSUME NEW c \in Pair, NEW kind \in Protected
    PROVE  LET d == NudgeNotice(c, kind)
           IN /\ d \in Pair /\ SameCounts(c, d) /\ SamePlace(c, d)
              /\ d.m.forced = c.m.forced /\ d.m.closed = c.m.closed
              /\ d.m.timer = c.m.timer /\ d.m.draining = c.m.draining
              /\ d.m.playing = c.m.playing /\ d.m.severe = c.m.severe
              /\ d.m.guard = (c.m.guard \/ Accepts(c))
              /\ d.e.suppress = c.e.suppress
              /\ Accepts(c) => d.e.turn = kind
              /\ ~Accepts(c) => d.e.turn = c.e.turn
<1> DEFINE n == Nudge(c, kind)
           d == [n EXCEPT !.m.guard = @ \/ Accepts(c)]
<1>1. /\ n \in Pair /\ n.m = c.m /\ n.e.suppress = c.e.suppress
      /\ n.e.cursor = c.e.cursor /\ n.e.grace = c.e.grace
      /\ Accepts(c) => n.e.turn = kind
      /\ ~Accepts(c) => n.e.turn = c.e.turn
    <2>1. CASE ~Accepts(c)
        BY <2>1 DEF Nudge
    <2>2. CASE Accepts(c)
        <3> DEFINE x == [c EXCEPT !.e.turn = kind, !.e.phase = "llm",
                            !.e.sounded = FALSE, !.e.autoNext = @ /\ kind # "user"]
        <3>1. n = x
            BY <2>2 DEF Nudge, RunTurn, Busy, Accepts
        <3>2. kind \in TurnKinds /\ (c.e.autoNext /\ kind # "user") \in BOOLEAN
            BY DEF TurnKinds
        <3>3. x \in Pair
            BY <3>2, ZenonT(30) DEF Pair, Engine
        <3>4. x.m = c.m /\ x.e.turn = kind /\ x.e.suppress = c.e.suppress
              /\ x.e.cursor = c.e.cursor /\ x.e.grace = c.e.grace
            BY ZenonT(30) DEF Pair, Engine
        <3> HIDE DEF x, n
        <3> QED  BY <2>2, <3>1, <3>3, <3>4
    <2> QED  BY <2>1, <2>2
<1>2. NudgeNotice(c, kind) = d
    BY DEF NudgeNotice
<1>3. Accepts(c) \in BOOLEAN
    BY DEF Accepts
<1> HIDE DEF n
<1>4. (n.m.guard \/ Accepts(c)) \in BOOLEAN
    BY <1>3
<1>5. d \in Pair
    BY <1>1, <1>4, ZenonT(30) DEF Pair, Media
<1>6. d.e = n.e /\ d.m.guard = (n.m.guard \/ Accepts(c))
    BY <1>1, ZenonT(30) DEF Pair, Media
<1>7. /\ d.m.forced = n.m.forced /\ d.m.closed = n.m.closed
      /\ d.m.timer = n.m.timer /\ d.m.draining = n.m.draining
      /\ d.m.playing = n.m.playing /\ d.m.severe = n.m.severe
      /\ d.m.negative = n.m.negative /\ d.m.judged = n.m.judged
      /\ d.m.judging = n.m.judging /\ d.m.valid = n.m.valid
      /\ d.m.streak = n.m.streak /\ d.m.cursor = n.m.cursor
      /\ d.m.waiting = n.m.waiting
    BY <1>1, ZenonT(30) DEF Pair, Media
<1> HIDE DEF d
<1>8. SameCounts(c, d) /\ SamePlace(c, d)
    BY <1>1, <1>6, <1>7, ZenonT(30) DEF SameCounts, SamePlace
<1>9. /\ d.m.forced = c.m.forced /\ d.m.closed = c.m.closed
      /\ d.m.timer = c.m.timer /\ d.m.draining = c.m.draining
      /\ d.m.playing = c.m.playing /\ d.m.severe = c.m.severe
      /\ d.m.guard = (c.m.guard \/ Accepts(c))
      /\ d.e.suppress = c.e.suppress
      /\ Accepts(c) => d.e.turn = kind
      /\ ~Accepts(c) => d.e.turn = c.e.turn
    BY <1>1, <1>6, <1>7, Zenon
<1> QED  BY <1>2, <1>5, <1>8, <1>9, Zenon

\* A warning leaves the end as whole as it was.
LEMMA WarningKeepsWhole ==
    ASSUME NEW c \in Pair, Whole(c)
    PROVE  LET d == NudgeNotice(c, "warning")
           IN /\ d \in Pair /\ SameCounts(c, d) /\ SamePlace(c, d)
              /\ Whole(d) /\ d.m.closed = c.m.closed
<1>1. "warning" \in Protected /\ "warning" # "notice" /\ "warning" # "none"
    BY DEF Protected
<1> DEFINE d == NudgeNotice(c, "warning")
<1>2. /\ d \in Pair /\ SameCounts(c, d) /\ SamePlace(c, d)
      /\ d.m.forced = c.m.forced /\ d.m.closed = c.m.closed
      /\ d.m.timer = c.m.timer /\ d.m.draining = c.m.draining
      /\ d.m.playing = c.m.playing
      /\ d.m.guard = (c.m.guard \/ Accepts(c))
      /\ d.e.suppress = c.e.suppress
      /\ Accepts(c) => d.e.turn = "warning"
      /\ ~Accepts(c) => d.e.turn = c.e.turn
    BY <1>1, NoticeTaken, Zenon
<1> HIDE DEF d
<1>3. Core(d)
    BY <1>1, <1>2, ZenonT(30) DEF Whole, Core
<1>4. Whole(d)
    BY <1>1, <1>2, <1>3, ZenonT(30) DEF Whole, Accepts
<1> QED  BY <1>2, <1>4, ZenonT(30) DEF d

LEMMA ArmKeepsWhole ==
    ASSUME NEW c \in Pair, Whole(c)
    PROVE  LET d == Arm(c)
           IN /\ d \in Pair /\ SameCounts(c, d) /\ SamePlace(c, d)
              /\ Whole(d) /\ d.m.closed = c.m.closed
<1>1. CASE c.m.forced
    BY <1>1, CalmToItself DEF Arm, Calm
<1>2. CASE ~c.m.forced
    <2> DEFINE n == NudgeNotice(c, "notice")
               d == [n EXCEPT !.m.forced = TRUE, !.m.timer = "hard",
                              !.m.playing = Accepts(c)]
    <2>1. "notice" \in Protected /\ "notice" # "none" /\ Accepts(c) \in BOOLEAN
        BY DEF Protected, Accepts
    <2>2. /\ n \in Pair /\ SameCounts(c, n) /\ SamePlace(c, n)
          /\ n.m.forced = c.m.forced /\ n.m.closed = c.m.closed
          /\ n.m.timer = c.m.timer /\ n.m.draining = c.m.draining
          /\ n.m.playing = c.m.playing /\ n.m.severe = c.m.severe
          /\ n.m.guard = (c.m.guard \/ Accepts(c))
          /\ n.e.suppress = c.e.suppress
          /\ Accepts(c) => n.e.turn = "notice"
          /\ ~Accepts(c) => n.e.turn = c.e.turn
        BY <2>1, NoticeTaken, Zenon
    <2>3. d = Arm(c)
        BY <1>2 DEF Arm
    <2> HIDE DEF n
    <2>4. d \in Pair
        BY <2>1, <2>2, ZenonT(30) DEF Pair, Media
    <2>5. /\ d.e = n.e /\ d.m.forced /\ d.m.timer = "hard" /\ d.m.playing = Accepts(c)
          /\ d.m.closed = n.m.closed /\ d.m.draining = n.m.draining
          /\ d.m.guard = n.m.guard
        BY <2>2, ZenonT(30) DEF Pair, Media
    <2>6. /\ d.m.negative = n.m.negative /\ d.m.judged = n.m.judged
          /\ d.m.judging = n.m.judging /\ d.m.valid = n.m.valid
          /\ d.m.streak = n.m.streak /\ d.m.cursor = n.m.cursor
          /\ d.m.waiting = n.m.waiting
        BY <2>2, ZenonT(30) DEF Pair, Media
    <2> HIDE DEF d
    <2>7. ~c.m.draining
        BY <1>2 DEF Whole, Core
    <2>8. Whole(d)
        BY <2>1, <2>2, <2>5, <2>7, ZenonT(30) DEF Whole, Core, Accepts
    <2>9. SameCounts(c, d) /\ SamePlace(c, d)
        BY <2>2, <2>5, <2>6, ZenonT(30) DEF SameCounts, SamePlace
    <2> QED  BY <2>2, <2>3, <2>4, <2>5, <2>8, <2>9, Zenon
<1> QED  BY <1>1, <1>2

LEMMA ClearGuardTyped ==
    ASSUME NEW c \in Pair
    PROVE  LET d == ClearGuard(c)
           IN /\ d \in Pair /\ d.e = c.e /\ ~d.m.guard
              /\ d.m.forced = c.m.forced /\ d.m.closed = c.m.closed
              /\ d.m.timer = c.m.timer /\ d.m.draining = c.m.draining
              /\ d.m.playing = c.m.playing
              /\ SameCounts(c, d) /\ d.m.waiting = c.m.waiting
<1> DEFINE d == ClearGuard(c)
<1>1. d \in Pair
    BY ZenonT(30) DEF ClearGuard, Pair, Media
<1>2. d.e = c.e /\ ~d.m.guard
    BY ZenonT(30) DEF ClearGuard, Pair, Media
<1>3. /\ d.m.forced = c.m.forced /\ d.m.closed = c.m.closed
      /\ d.m.timer = c.m.timer /\ d.m.draining = c.m.draining
      /\ d.m.playing = c.m.playing
      /\ d.m.negative = c.m.negative /\ d.m.judged = c.m.judged
      /\ d.m.judging = c.m.judging /\ d.m.valid = c.m.valid
      /\ d.m.streak = c.m.streak /\ d.m.cursor = c.m.cursor
      /\ d.m.waiting = c.m.waiting
    BY ZenonT(30) DEF ClearGuard, Pair, Media
<1> QED  BY <1>1, <1>2, <1>3, ZenonT(30) DEF SameCounts

-----------------------------------------------------------------------------
(* The end of a turn                                                       *)

\* The question, the counts and the closing as they were, the grace at most
\* taken away, and no wait unless begun here.
Settles(c, d, begun) ==
    /\ d \in Pair /\ SameCounts(c, d) /\ d.m.closed = c.m.closed
    /\ d.e.cursor = c.e.cursor
    /\ d.e.grace # "none" => c.e.grace # "none"
    /\ d.e.grace = "intent" => c.e.grace = "intent"
    /\ d.m.waiting => c.m.waiting \/ begun

LEMMA StartDrainKeepsWhole ==
    ASSUME NEW c \in Pair, Core(c), c.e.turn = "none", c.m.playing
    PROVE  LET d == StartDrain(c)
           IN Whole(d) /\ Settles(c, d, FALSE)
<1> DEFINE d == StartDrain(c)
<1>1. d \in Pair
    BY ZenonT(30) DEF StartDrain, Pair, Engine, Media
<1>2. /\ d.e.suppress /\ d.e.turn = c.e.turn /\ d.e.cursor = c.e.cursor
      /\ d.e.grace = c.e.grace /\ d.m.draining /\ d.m.timer = "drain"
    BY ZenonT(30) DEF StartDrain, Pair, Engine, Media
<1>3. /\ d.m.forced = c.m.forced /\ d.m.closed = c.m.closed
      /\ d.m.playing = c.m.playing /\ d.m.guard = c.m.guard
      /\ d.m.negative = c.m.negative /\ d.m.judged = c.m.judged
      /\ d.m.judging = c.m.judging /\ d.m.valid = c.m.valid
      /\ d.m.streak = c.m.streak /\ d.m.cursor = c.m.cursor
      /\ d.m.waiting = c.m.waiting
    BY ZenonT(30) DEF StartDrain, Pair, Engine, Media
<1> HIDE DEF d
<1>4. Whole(d)
    BY <1>2, <1>3, ZenonT(30) DEF Whole, Core
<1>5. Settles(c, d, FALSE)
    BY <1>1, <1>2, <1>3, ZenonT(30) DEF Settles, SameCounts
<1> QED  BY <1>4, <1>5 DEF d

LEMMA NoticeCutKeepsWhole ==
    ASSUME NEW c \in Pair, Core(c), c.e.turn = "none", ~c.m.draining
    PROVE  LET d == NoticeCut(c)
           IN Whole(d) /\ Settles(c, d, FALSE)
<1> DEFINE g == ClearGuard(c)
           d == NoticeCut(c)
<1>1. /\ g \in Pair /\ g.e = c.e /\ ~g.m.guard
      /\ g.m.forced = c.m.forced /\ g.m.closed = c.m.closed
      /\ g.m.timer = c.m.timer /\ g.m.draining = c.m.draining
      /\ SameCounts(c, g) /\ g.m.waiting = c.m.waiting
    BY ClearGuardTyped
<1>2. d = [g EXCEPT !.m.playing = FALSE]
    BY DEF NoticeCut
<1> HIDE DEF g, d
<1>3. d \in Pair
    BY <1>1, <1>2, ZenonT(30) DEF Pair, Media
<1>4. d.e = g.e /\ ~d.m.playing /\ d.m.guard = g.m.guard
      /\ d.m.forced = g.m.forced /\ d.m.closed = g.m.closed
      /\ d.m.timer = g.m.timer /\ d.m.draining = g.m.draining
    BY <1>1, <1>2, ZenonT(30) DEF Pair, Media
<1>5. /\ d.m.negative = g.m.negative /\ d.m.judged = g.m.judged
      /\ d.m.judging = g.m.judging /\ d.m.valid = g.m.valid
      /\ d.m.streak = g.m.streak /\ d.m.cursor = g.m.cursor
      /\ d.m.waiting = g.m.waiting
    BY <1>1, <1>2, ZenonT(30) DEF Pair, Media
<1>6. "none" \notin Protected
    BY DEF Protected
<1>7. Whole(d)
    BY <1>1, <1>4, <1>6, ZenonT(30) DEF Whole, Core
<1>8. Settles(c, d, FALSE)
    BY <1>1, <1>3, <1>4, <1>5, ZenonT(30) DEF Settles, SameCounts
<1> QED  BY <1>7, <1>8 DEF d

LEMMA RetryKeepsWhole ==
    ASSUME NEW c \in Pair, Core(c), c.e.turn = "none", ~c.m.draining, c.m.forced
    PROVE  LET d == RetryNotice(c)
           IN Whole(d) /\ Settles(c, d, FALSE)
<1> DEFINE g == ClearGuard(c)
           n == NudgeNotice(g, "notice")
           d == RetryNotice(c)
<1>1. /\ g \in Pair /\ g.e = c.e /\ ~g.m.guard
      /\ g.m.forced = c.m.forced /\ g.m.closed = c.m.closed
      /\ g.m.timer = c.m.timer /\ g.m.draining = c.m.draining
      /\ SameCounts(c, g) /\ g.m.waiting = c.m.waiting
    BY ClearGuardTyped
<1>2. "notice" \in Protected /\ Accepts(c) /\ Accepts(g)
    BY <1>1 DEF Protected, Accepts
<1> HIDE DEF g
<1>3. /\ n \in Pair /\ SameCounts(g, n) /\ SamePlace(g, n)
      /\ n.m.forced = g.m.forced /\ n.m.closed = g.m.closed
      /\ n.m.timer = g.m.timer /\ n.m.draining = g.m.draining
      /\ n.m.guard /\ n.e.suppress = g.e.suppress /\ n.e.turn = "notice"
    <2>1. /\ n \in Pair /\ SameCounts(g, n) /\ SamePlace(g, n)
          /\ n.m.forced = g.m.forced /\ n.m.closed = g.m.closed
          /\ n.m.timer = g.m.timer /\ n.m.draining = g.m.draining
          /\ n.m.guard = (g.m.guard \/ Accepts(g))
          /\ n.e.suppress = g.e.suppress
          /\ Accepts(g) => n.e.turn = "notice"
        BY <1>1, <1>2, NoticeTaken, Zenon
    <2> HIDE DEF n
    <2> QED  BY <1>2, <2>1
<1>4. d = [n EXCEPT !.m.playing = TRUE]
    BY <1>2 DEF RetryNotice, g
<1> HIDE DEF n, d
<1>5. d \in Pair
    BY <1>3, <1>4, ZenonT(30) DEF Pair, Media
<1>6. d.e = n.e /\ d.m.playing /\ d.m.guard = n.m.guard
      /\ d.m.forced = n.m.forced /\ d.m.closed = n.m.closed
      /\ d.m.timer = n.m.timer /\ d.m.draining = n.m.draining
    BY <1>3, <1>4, ZenonT(30) DEF Pair, Media
<1>7. /\ d.m.negative = n.m.negative /\ d.m.judged = n.m.judged
      /\ d.m.judging = n.m.judging /\ d.m.valid = n.m.valid
      /\ d.m.streak = n.m.streak /\ d.m.cursor = n.m.cursor
      /\ d.m.waiting = n.m.waiting
    BY <1>3, <1>4, ZenonT(30) DEF Pair, Media
<1>8. Whole(d)
    BY <1>1, <1>3, <1>6, "notice" # "none", ZenonT(30) DEF Whole, Core
<1>9. Settles(c, d, FALSE)
    <2>1. SameCounts(c, d)
        BY <1>1, <1>3, <1>7, ZenonT(30) DEF SameCounts
    <2> QED  BY <1>1, <1>3, <1>5, <1>6, <1>7, <2>1, ZenonT(30) DEF Settles, SamePlace
<1> QED  BY <1>8, <1>9 DEF d

\* onAiDone finds the engine idle, and leaves the end whole.
LEMMA AiDoneKeepsWhole ==
    ASSUME NEW c \in Pair, NEW completed \in BOOLEAN, ~c.m.closed => Core(c),
           c.e.turn = "none"
    PROVE  LET d == AiDone(c, completed)
           IN Settles(c, d, completed) /\ (~d.m.closed => Whole(d))
<1> DEFINE k == MarkAiDone(c)
           d == AiDone(c, completed)
<1>1. Calm(c, k) /\ k.e = c.e /\ k \in Pair /\ k.e.turn = "none"
      /\ k.m.closed = c.m.closed
    BY MarkAiDoneIsCalm DEF Calm, SameEnd
<1>2. ~k.m.closed => Core(k)
    BY <1>1, SameEndKeepsWhole DEF Calm
<1>3. Settles(c, k, completed)
    BY <1>1, ZenonT(30) DEF Settles, Calm, SameEnd, SamePlace
<1>4. ASSUME NEW x, Settles(k, x, FALSE), Whole(x)
      PROVE  Settles(c, x, completed) /\ (~x.m.closed => Whole(x))
    <2>1. SameCounts(c, x)
        BY <1>3, <1>4, ZenonT(30) DEF Settles, SameCounts
    <2> QED  BY <1>3, <1>4, <2>1, ZenonT(30) DEF Settles
<1>5. CASE ~k.m.forced \/ k.m.closed
    <2> DEFINE g == ClearGuard(k)
    <2>1. /\ g \in Pair /\ g.e = k.e /\ ~g.m.guard
          /\ g.m.forced = k.m.forced /\ g.m.closed = k.m.closed
          /\ g.m.timer = k.m.timer /\ g.m.draining = k.m.draining
          /\ g.m.playing = k.m.playing
          /\ SameCounts(k, g) /\ g.m.waiting = k.m.waiting
        BY <1>1, ClearGuardTyped
    <2>2. "none" \notin Protected
        BY DEF Protected
    <2> HIDE DEF k, g
    <2>3. ~g.m.closed => Whole(g)
        BY <1>1, <1>2, <1>5, <2>1, <2>2, ZenonT(30) DEF Whole, Core
    <2>4. Settles(c, g, completed)
        <3>1. SameCounts(c, g)
            BY <1>3, <2>1, ZenonT(30) DEF Settles, SameCounts
        <3> QED  BY <1>3, <2>1, <3>1, ZenonT(30) DEF Settles
    <2>5. CASE ~(completed /\ ~k.m.closed)
        BY <1>5, <2>3, <2>4, <2>5 DEF AiDone, k, g
    <2>6. CASE completed /\ ~k.m.closed
        <3> DEFINE w == EnterWaiting(g)
        <3>1. d = w
            BY <1>5, <2>6 DEF AiDone, k, g
        <3>2. w \in Pair
            BY <2>1, ZenonT(30) DEF EnterWaiting, Pair, Media
        <3>3. w.e = g.e /\ w.m.guard = g.m.guard
              /\ w.m.forced = g.m.forced /\ w.m.closed = g.m.closed
              /\ w.m.timer = g.m.timer /\ w.m.draining = g.m.draining
              /\ w.m.playing = g.m.playing
            BY <2>1, ZenonT(30) DEF EnterWaiting, Pair, Media
        <3>4. /\ w.m.negative = g.m.negative /\ w.m.judged = g.m.judged
              /\ w.m.judging = g.m.judging /\ w.m.valid = g.m.valid
              /\ w.m.streak = g.m.streak /\ w.m.cursor = g.m.cursor
            BY <2>1, ZenonT(30) DEF EnterWaiting, Pair, Media
        <3> HIDE DEF w, d
        <3>5. ~w.m.closed => Whole(w)
            BY <2>3, <3>3, ZenonT(30) DEF Whole, Core
        <3>6. SameCounts(c, w)
            BY <2>4, <3>4, ZenonT(30) DEF Settles, SameCounts
        <3>7. Settles(c, w, completed)
            BY <2>4, <2>6, <3>2, <3>3, <3>6, ZenonT(30) DEF Settles
        <3> QED  BY <3>1, <3>5, <3>7 DEF d
    <2> QED  BY <2>5, <2>6
<1>6. CASE k.m.forced /\ ~k.m.closed /\ k.m.draining
    <2>1. d = k
        BY <1>6 DEF AiDone
    <2>2. Whole(k)
        BY <1>2, <1>6 DEF Whole
    <2> QED  BY <1>3, <2>1, <2>2
<1>7. CASE k.m.forced /\ ~k.m.closed /\ ~k.m.draining /\ k.m.playing
    <2>1. d = IF completed THEN StartDrain(k) ELSE NoticeCut(k)
        BY <1>7 DEF AiDone
    <2> HIDE DEF k, d
    <2>2. Settles(k, d, FALSE) /\ Whole(d)
        BY <1>1, <1>2, <1>7, <2>1, StartDrainKeepsWhole, NoticeCutKeepsWhole
    <2> QED  BY <1>4, <2>2 DEF d
<1>8. CASE k.m.forced /\ ~k.m.closed /\ ~k.m.draining /\ ~k.m.playing
    <2>1. d = RetryNotice(k)
        BY <1>8 DEF AiDone
    <2> HIDE DEF k, d
    <2>2. Settles(k, d, FALSE) /\ Whole(d)
        BY <1>1, <1>2, <1>8, <2>1, RetryKeepsWhole
    <2> QED  BY <1>4, <2>2 DEF d
<1> QED  BY <1>5, <1>6, <1>7, <1>8

\* What holds of a pair whenever no handler is running.
AtRest(c) ==
    /\ c \in Pair
    /\ c.e.grace # "intent"
    /\ c.e.grace # "none" => HasNext(c)
    /\ ~c.m.closed => Whole(c)

LEMMA CalmKeepsReady ==
    ASSUME NEW c, NEW d, AtRest(c), Calm(c, d)
    PROVE  AtRest(d)
<1>1. HasNext(c) => HasNext(d)
    BY DEF Calm, SamePlace, HasNext
<1>2. ~d.m.closed => Whole(d)
    BY SameEndKeepsWhole DEF AtRest, Calm, SameEnd
<1> QED  BY <1>1, <1>2 DEF AtRest, Calm, SamePlace

LEMMA SettleKeepsReady ==
    ASSUME NEW c, AtRest(c), NEW completed \in BOOLEAN,
           NEW outcome \in Outcomes(c), NEW next \in {"user", "direct"}
    PROVE  LET d == Settle(c, completed, outcome, next)
           IN /\ AtRest(d) /\ SameCounts(c, d) /\ d.m.closed = c.m.closed
              /\ d.m.waiting => c.m.waiting \/ completed
              /\ d.e.cursor \in {c.e.cursor, c.e.cursor + 1}
              /\ ~completed => d.e.cursor = c.e.cursor
<1> DEFINE a == IF completed THEN AdvanceAndSchedule(c, outcome) ELSE c
           x == EndTurn(a)
           done == AiDone(x, completed)
           d == Settle(c, completed, outcome, next)
<1>1. c \in Pair /\ (~c.m.closed => Whole(c)) /\ (c.e.grace # "none" => HasNext(c))
    BY DEF AtRest
<1>2. Steady(c, a) /\ (a.e.grace # "none" => HasNext(a))
      /\ (~completed => a.e.cursor = c.e.cursor)
    <2>1. CASE completed
        BY <1>1, <2>1, ScheduleIsSteady
    <2>2. CASE ~completed
        BY <1>1, <2>2, CalmToItself DEF Steady, Calm
    <2> QED  BY <2>1, <2>2
<1> HIDE DEF a
<1>3. a \in Pair /\ (~a.m.closed => Whole(a)) /\ a.m.closed = c.m.closed
    BY <1>1, <1>2, SameEndKeepsWhole DEF Steady, SameEnd
<1>4. /\ x \in Pair /\ x.m = a.m /\ x.e.turn = "none" /\ SamePlace(a, x)
      /\ x.e.suppress = a.e.suppress
    BY <1>3, EndTurnTyped
<1> HIDE DEF x
<1>5. ~x.m.closed => Core(x)
    <2>1. "none" # "notice" /\ "none" \notin Protected
        BY DEF Protected
    <2> QED  BY <1>3, <1>4, <2>1, ZenonT(30) DEF Whole, Core
<1>6. Settles(x, done, completed) /\ (~done.m.closed => Whole(done))
    BY <1>4, <1>5, AiDoneKeepsWhole
<1> HIDE DEF done
<1>7. done \in Pair
    BY <1>6 DEF Settles
<1>8. /\ SameCounts(c, done) /\ done.m.closed = c.m.closed
      /\ done.m.waiting => c.m.waiting \/ completed
      /\ done.e.cursor = a.e.cursor
      /\ done.e.grace # "none" => HasNext(done)
    <2>1. SameCounts(c, done)
        BY <1>2, <1>4, <1>6, ZenonT(30) DEF Steady, Settles, SameCounts
    <2>2. HasNext(a) <=> a.e.cursor + 1 < Questions
        BY DEF HasNext
    <2>3. HasNext(done) <=> done.e.cursor + 1 < Questions
        BY DEF HasNext
    <2> QED
        BY <1>2, <1>3, <1>4, <1>6, <2>1, <2>2, <2>3, ZenonT(30) DEF Steady, Settles, SamePlace
<1>9. ASSUME NEW y, Calm(done, y), y.e.grace # "intent", d = y
      PROVE  /\ AtRest(d) /\ SameCounts(c, d) /\ d.m.closed = c.m.closed
             /\ d.m.waiting => c.m.waiting \/ completed
             /\ d.e.cursor \in {c.e.cursor, c.e.cursor + 1}
             /\ ~completed => d.e.cursor = c.e.cursor
    <2> HIDE DEF d
    <2>1. SameCounts(c, y)
        BY <1>8, <1>9, ZenonT(30) DEF Calm, SameCounts
    <2>2. y.m.closed = c.m.closed /\ (y.m.waiting => c.m.waiting \/ completed)
          /\ y.e.cursor = a.e.cursor
        BY <1>8, <1>9, ZenonT(30) DEF Calm, SamePlace, SameEnd
    <2>3. ~y.m.closed => Whole(y)
        BY <1>6, <1>8, <1>9, <2>2, SameEndKeepsWhole DEF Calm
    <2>4. y.e.grace # "none" => HasNext(y)
        BY <1>8, <1>9 DEF Calm, SamePlace, HasNext
    <2>5. AtRest(y)
        BY <1>9, <2>3, <2>4 DEF AtRest, Calm
    <2> QED  BY <1>2, <1>9, <2>1, <2>2, <2>5 DEF Steady
<1>10. CASE ~done.e.interrupted /\ done.e.held
    <2> DEFINE g == CancelGrace(done)
               h == [g EXCEPT !.e.held = FALSE, !.e.autoNext = FALSE]
               y == Respond(h, next)
    <2>1. Calm(done, g) /\ g.e.grace = "none" /\ g \in Pair
        BY <1>7, CancelGraceIsCalm DEF Calm
    <2> HIDE DEF g
    <2>2. h \in Pair
        BY <2>1, ZenonT(30) DEF Pair, Engine
    <2>3. h.m = g.m /\ h.e.turn = g.e.turn /\ h.e.suppress = g.e.suppress
          /\ h.e.cursor = g.e.cursor /\ h.e.grace = g.e.grace
        BY <2>1, ZenonT(30) DEF Pair, Engine
    <2> HIDE DEF h
    <2>4. Calm(g, h)
        BY <2>2, <2>3, EngineStepIsCalm
    <2>5. Calm(h, y)
        BY <2>2, RespondIsCalm
    <2>6. Calm(done, y)
        BY <2>1, <2>4, <2>5, CalmIsTransitive
    <2>7. y.e.grace # "intent"
        BY <2>1, <2>3, <2>5 DEF Calm, SamePlace
    <2>8. d = y
        BY <1>10 DEF Settle, done, x, a, h, g
    <2> HIDE DEF y, d
    <2> QED  BY <1>9, <2>6, <2>7, <2>8 DEF d
<1>11. CASE ~(~done.e.interrupted /\ done.e.held)
    <2> DEFINE g == Continue(done)
               y == ArmGrace(g)
    <2>1. Calm(done, g) /\ g \in Pair
        BY <1>7, ContinueIsCalm DEF Calm
    <2> HIDE DEF g
    <2>2. Calm(g, y) /\ y.e.grace # "intent"
        BY <2>1, ArmGraceIsCalm
    <2>3. Calm(done, y)
        BY <2>1, <2>2, CalmIsTransitive
    <2>4. d = y
        BY <1>11 DEF Settle, done, x, a, g
    <2> HIDE DEF y, d
    <2> QED  BY <1>9, <2>2, <2>3, <2>4 DEF d
<1> QED  BY <1>10, <1>11

\* Only the counts are left alone, and the question.
LEMMA CancelKeepsReady ==
    ASSUME NEW c \in Pair, ~c.m.closed => Whole(c)
    PROVE  LET d == Cancel(c)
           IN /\ AtRest(d) /\ SameCounts(c, d) /\ d.m.closed = c.m.closed
              /\ d.e.cursor = c.e.cursor /\ (d.m.waiting => c.m.waiting)
<1> DEFINE i == [c EXCEPT !.e.interrupted = TRUE]
           x == EndTurn(i)
           y == CancelGrace(x)
           d == Cancel(c)
<1>1. i \in Pair
    BY ZenonT(30) DEF Pair, Engine
<1>2. i.m = c.m /\ i.e.turn = c.e.turn /\ i.e.suppress = c.e.suppress
      /\ i.e.cursor = c.e.cursor
    BY ZenonT(30) DEF Pair, Engine
<1> HIDE DEF i
<1>3. /\ x \in Pair /\ x.m = i.m /\ x.e.turn = "none" /\ SamePlace(i, x)
      /\ x.e.suppress = i.e.suppress
    BY <1>1, EndTurnTyped
<1> HIDE DEF x
<1>4. /\ y \in Pair /\ y.m = c.m /\ y.e.turn = "none" /\ y.e.grace = "none"
      /\ y.e.suppress = c.e.suppress /\ y.e.cursor = c.e.cursor
    BY <1>2, <1>3, CancelGraceIsCalm, ZenonT(30) DEF Calm, SamePlace, SameEnd
<1>5. d = IF c.e.turn = "none" THEN y ELSE AiDone(y, FALSE)
    BY DEF Cancel, y, x, i
<1> HIDE DEF y, d
<1>6. CASE c.e.turn = "none"
    <2>1. SameEnd(c, y) /\ SameCounts(c, y)
        BY <1>4, <1>6, ZenonT(30) DEF SameEnd, SameCounts
    <2>2. AtRest(y)
        BY <1>4, <2>1, SameEndKeepsWhole DEF AtRest
    <2> QED  BY <1>4, <1>5, <1>6, <2>1, <2>2 DEF d
<1>7. CASE c.e.turn # "none"
    <2>1. ~y.m.closed => Core(y)
        <3>1. "none" # "notice" /\ "none" \notin Protected
            BY DEF Protected
        <3> QED  BY <1>4, <3>1, ZenonT(30) DEF Whole, Core
    <2>2. Settles(y, d, FALSE) /\ (~d.m.closed => Whole(d))
        BY <1>4, <1>5, <1>7, <2>1, AiDoneKeepsWhole
    <2>3. SameCounts(c, d)
        BY <1>4, <2>2, ZenonT(30) DEF Settles, SameCounts
    <2>4. AtRest(d)
        BY <1>4, <2>2, ZenonT(30) DEF Settles, AtRest
    <2> QED  BY <1>4, <2>2, <2>3, <2>4, ZenonT(30) DEF Settles, d
<1> QED  BY <1>6, <1>7

LEMMA BargeInKeepsReady ==
    ASSUME NEW c, AtRest(c)
    PROVE  LET d == IF c.m.speaking THEN OnBargeIn(c) ELSE LeaveWaiting(c)
           IN /\ AtRest(d) /\ SameCounts(c, d) /\ d.m.closed = c.m.closed
              /\ d.e.cursor = c.e.cursor /\ ~d.m.waiting
<1> DEFINE w == LeaveWaiting(c)
           k == MarkAiDone(w)
           d == Cancel(k)
<1>1. c \in Pair
    BY DEF AtRest
<1>2. Calm(c, w) /\ ~w.m.waiting /\ w \in Pair
    BY <1>1, LeaveWaitingIsCalm DEF Calm
<1>3. AtRest(w) /\ SameCounts(c, w) /\ w.m.closed = c.m.closed /\ w.e.cursor = c.e.cursor
    BY <1>2, CalmKeepsReady DEF Calm, SameEnd, SamePlace
<1> HIDE DEF w
<1>4. Calm(w, k) /\ k.m.waiting = w.m.waiting /\ k \in Pair
    BY <1>2, MarkAiDoneIsCalm DEF Calm
<1>5. AtRest(k) /\ k.m.closed = w.m.closed /\ k.e.cursor = w.e.cursor
    BY <1>3, <1>4, CalmKeepsReady DEF Calm, SameEnd, SamePlace
<1> HIDE DEF k
<1>6. /\ AtRest(d) /\ SameCounts(k, d) /\ d.m.closed = k.m.closed
      /\ d.e.cursor = k.e.cursor /\ (d.m.waiting => k.m.waiting)
    BY <1>4, <1>5, CancelKeepsReady DEF AtRest
<1> HIDE DEF d
<1>7. SameCounts(c, d)
    BY <1>3, <1>4, <1>6, ZenonT(30) DEF Calm, SameCounts
<1>8. CASE c.m.speaking
    <2>1. OnBargeIn(c) = d
        BY <1>8 DEF OnBargeIn, d, k, w
    <2> QED
        BY <1>2, <1>3, <1>4, <1>5, <1>6, <1>7, <1>8, <2>1
<1>9. CASE ~c.m.speaking
    BY <1>2, <1>3, <1>9 DEF w
<1> QED  BY <1>8, <1>9

LEMMA TeardownKeepsReady ==
    ASSUME NEW c \in Pair
    PROVE  LET d == Teardown(c)
           IN /\ AtRest(d) /\ SameCounts(c, d) /\ d.m.closed
              /\ d.e.cursor = c.e.cursor /\ (d.m.waiting => c.m.waiting)
<1> DEFINE t == [c EXCEPT !.m.closed = TRUE, !.m.timer = "off", !.e.suppress = FALSE]
           d == Teardown(c)
<1>1. t \in Pair
    BY ZenonT(30) DEF Pair, Engine, Media
<1>2. t.m.closed /\ t.e.cursor = c.e.cursor
      /\ t.m.negative = c.m.negative /\ t.m.judged = c.m.judged
      /\ t.m.judging = c.m.judging /\ t.m.valid = c.m.valid
      /\ t.m.streak = c.m.streak /\ t.m.cursor = c.m.cursor
      /\ t.m.waiting = c.m.waiting
    BY ZenonT(30) DEF Pair, Engine, Media
<1>3. d = Cancel(t)
    BY DEF Teardown
<1> HIDE DEF t, d
<1>4. /\ AtRest(d) /\ SameCounts(t, d) /\ d.m.closed = t.m.closed
      /\ d.e.cursor = t.e.cursor /\ (d.m.waiting => t.m.waiting)
    BY <1>1, <1>2, <1>3, CancelKeepsReady
<1>5. SameCounts(c, d)
    BY <1>2, <1>4, ZenonT(30) DEF SameCounts
<1> QED  BY <1>2, <1>4, <1>5, ZenonT(30) DEF d

-----------------------------------------------------------------------------
(* The watchdog's tick                                                     *)

\* Counts other than the warnings.
SameJudge(c, d) ==
    /\ d.m.judged = c.m.judged /\ d.m.judging = c.m.judging
    /\ d.m.valid = c.m.valid /\ d.m.streak = c.m.streak

LEMMA SeeCursorKeepsReady ==
    ASSUME NEW c, AtRest(c)
    PROVE  LET d == SeeCursor(c)
           IN /\ AtRest(d) /\ SameEnd(c, d) /\ d.e = c.e /\ SameJudge(c, d)
              /\ d.m.cursor = c.e.cursor /\ d.m.negative = c.m.negative
              /\ d.m.waiting => c.m.waiting /\ c.m.cursor = c.e.cursor
<1> DEFINE w == IF c.m.waiting THEN LeaveWaiting(c) ELSE c
           d == SeeCursor(c)
<1>1. c \in Pair /\ c.e.cursor \in 0..(Questions - 1)
    BY DEF AtRest, Pair, Engine
<1>2. CASE c.m.cursor = c.e.cursor
    BY <1>1, <1>2, CalmToItself DEF SeeCursor, Calm, SameCounts, SameJudge
<1>3. CASE c.m.cursor # c.e.cursor
    <2>1. Calm(c, w) /\ w.e = c.e /\ ~w.m.waiting
        BY <1>1, LeaveWaitingIsCalm, CalmToItself
    <2>2. d = [w EXCEPT !.m.cursor = c.e.cursor]
        BY <1>3 DEF SeeCursor
    <2> HIDE DEF w, d
    <2>3. w \in Pair
        BY <2>1 DEF Calm
    <2>4. d \in Pair
        BY <1>1, <2>2, <2>3, ZenonT(30) DEF Pair, Media
    <2>5. d.e = w.e /\ d.m.cursor = c.e.cursor
        BY <2>2, <2>3, ZenonT(30) DEF Pair, Media
    <2>6. /\ d.m.forced = w.m.forced /\ d.m.closed = w.m.closed
          /\ d.m.timer = w.m.timer /\ d.m.draining = w.m.draining
          /\ d.m.playing = w.m.playing /\ d.m.guard = w.m.guard
          /\ d.m.negative = w.m.negative /\ d.m.judged = w.m.judged
          /\ d.m.judging = w.m.judging /\ d.m.valid = w.m.valid
          /\ d.m.streak = w.m.streak /\ d.m.waiting = w.m.waiting
        BY <2>2, <2>3, ZenonT(30) DEF Pair, Media
    <2>7. SameEnd(c, d)
        BY <2>1, <2>5, <2>6, ZenonT(30) DEF Calm, SameEnd
    <2>8. SameJudge(c, d) /\ d.m.negative = c.m.negative
        BY <2>1, <2>6, ZenonT(30) DEF Calm, SameCounts, SameJudge
    <2>9. AtRest(d)
        BY <2>1, <2>4, <2>5, <2>7, SameEndKeepsWhole DEF AtRest, HasNext, SameEnd
    <2> QED  BY <2>1, <2>5, <2>6, <2>7, <2>8, <2>9 DEF d
<1> QED  BY <1>2, <1>3

\* A violation is counted in an open session; it may force the end.
LEMMA NegativeKeepsReady ==
    ASSUME NEW c, AtRest(c), ~c.m.closed
    PROVE  LET d == Negative(c)
           IN /\ AtRest(d) /\ ~d.m.closed /\ SameJudge(c, d) /\ SamePlace(c, d)
              /\ d.m.cursor = c.m.cursor
<1> DEFINE d == Negative(c)
<1>1. c \in Pair /\ Whole(c) /\ c.m.negative \in 0..(WarnMax + 1)
    BY DEF AtRest, Pair, Media
<1>2. PICK n \in 0..(WarnMax + 1) :
        \/ d = NudgeNotice([c EXCEPT !.m.negative = n], "warning")
        \/ d = Arm([c EXCEPT !.m.negative = n])
    <2>1. CASE c.m.negative < WarnMax
        <3>1. c.m.negative + 1 \in 0..(WarnMax + 1)
            BY <1>1, <2>1, ConductAssumption DEF ConductAssumption
        <3> QED  BY <2>1, <3>1 DEF Negative
    <2>2. CASE ~(c.m.negative < WarnMax)
        <3>1. WarnMax + 1 \in 0..(WarnMax + 1)
            BY ConductAssumption DEF ConductAssumption
        <3> QED  BY <2>2, <3>1 DEF Negative
    <2> QED  BY <2>1, <2>2
<1> DEFINE b == [c EXCEPT !.m.negative = n]
<1>3. b \in Pair
    BY <1>1, ZenonT(30) DEF Pair, Media
<1>4. b.e = c.e
    BY <1>1, ZenonT(30) DEF Pair, Media
<1>5. /\ b.m.forced = c.m.forced /\ b.m.closed = c.m.closed
      /\ b.m.timer = c.m.timer /\ b.m.draining = c.m.draining
      /\ b.m.playing = c.m.playing /\ b.m.guard = c.m.guard
      /\ b.m.judged = c.m.judged
      /\ b.m.judging = c.m.judging /\ b.m.valid = c.m.valid
      /\ b.m.streak = c.m.streak /\ b.m.cursor = c.m.cursor
      /\ b.m.waiting = c.m.waiting
    BY <1>1, ZenonT(30) DEF Pair, Media
<1> HIDE DEF b, d
<1>6. Whole(b)
    BY <1>1, <1>4, <1>5, ZenonT(30) DEF Whole, Core
<1>7. /\ d \in Pair /\ SameCounts(b, d) /\ SamePlace(b, d)
      /\ Whole(d) /\ d.m.closed = b.m.closed
    BY <1>2, <1>3, <1>6, WarningKeepsWhole, ArmKeepsWhole DEF b
<1>8. SameJudge(c, d) /\ d.m.cursor = c.m.cursor
    BY <1>5, <1>7, ZenonT(30) DEF SameCounts, SameJudge
<1>9. SamePlace(c, d)
    BY <1>4, <1>5, <1>7, ZenonT(30) DEF SamePlace
<1>10. AtRest(d)
    BY <1>7, <1>9 DEF AtRest, SamePlace, HasNext
<1> QED  BY <1>5, <1>7, <1>8, <1>9, <1>10 DEF d

LEMMA CheckSilenceKeepsReady ==
    ASSUME NEW c, AtRest(c), ~c.m.closed, NEW long \in BOOLEAN
    PROVE  LET d == CheckSilence(c, long)
           IN /\ AtRest(d) /\ SameJudge(c, d) /\ SamePlace(c, d)
              /\ d.m.cursor = c.m.cursor
              /\ d.m.negative # c.m.negative => c.m.waiting
<1> DEFINE b == [c EXCEPT !.m.counted = TRUE]
           d == CheckSilence(c, long)
<1>1. c \in Pair
    BY DEF AtRest
<1>2. CASE ~(c.m.waiting /\ ~c.m.speaking /\ ~c.m.counted /\ long)
    BY <1>2 DEF CheckSilence, SameJudge, SamePlace
<1>3. CASE c.m.waiting /\ ~c.m.speaking /\ ~c.m.counted /\ long
    <2>1. b \in Pair
        BY <1>1, ZenonT(30) DEF Pair, Media
    <2>2. b.e = c.e
        BY <1>1, ZenonT(30) DEF Pair, Media
    <2>3. /\ b.m.forced = c.m.forced /\ b.m.closed = c.m.closed
          /\ b.m.timer = c.m.timer /\ b.m.draining = c.m.draining
          /\ b.m.playing = c.m.playing /\ b.m.guard = c.m.guard
          /\ b.m.negative = c.m.negative /\ b.m.judged = c.m.judged
          /\ b.m.judging = c.m.judging /\ b.m.valid = c.m.valid
          /\ b.m.streak = c.m.streak /\ b.m.cursor = c.m.cursor
          /\ b.m.waiting = c.m.waiting
        BY <1>1, ZenonT(30) DEF Pair, Media
    <2>4. d = Negative(b)
        BY <1>3 DEF CheckSilence
    <2> HIDE DEF b, d
    <2>5. Calm(c, b)
        BY <2>1, <2>2, <2>3, MediaStepIsCalm
    <2>6. AtRest(b)
        BY <2>5, CalmKeepsReady
    <2>7. /\ AtRest(d) /\ ~d.m.closed /\ SameJudge(b, d) /\ SamePlace(b, d)
          /\ d.m.cursor = b.m.cursor
        BY <2>3, <2>4, <2>6, NegativeKeepsReady
    <2>8. SameJudge(c, d) /\ d.m.cursor = c.m.cursor
        BY <2>3, <2>7, ZenonT(30) DEF SameJudge
    <2>9. SamePlace(c, d)
        BY <2>2, <2>3, <2>7, ZenonT(30) DEF SamePlace
    <2> QED  BY <1>3, <2>7, <2>8, <2>9 DEF d
<1> QED  BY <1>2, <1>3

LEMMA AskForMoreIsCalm ==
    ASSUME NEW c \in Pair
    PROVE  Calm(c, AskForMore(c))
<1> DEFINE n == Nudge(c, "nudge")
           r == IF Accepts(c) THEN "playing" ELSE "pending"
           d == AskForMore(c)
<1>1. Calm(c, n)
    BY RunTurnIsCalm, CalmToItself DEF Nudge, Ordinary
<1>2. r \in {"idle", "pending", "playing", "after"}
    OBVIOUS
<1>3. d = [n EXCEPT !.m.r3 = r]
    BY DEF AskForMore
<1> HIDE DEF n, r, d
<1>4. n \in Pair
    BY <1>1 DEF Calm
<1>5. d \in Pair
    BY <1>2, <1>3, <1>4, ZenonT(30) DEF Pair, Media
<1>6. d.e = n.e
    BY <1>3, <1>4, ZenonT(30) DEF Pair, Media
<1>7. /\ d.m.forced = n.m.forced /\ d.m.closed = n.m.closed
      /\ d.m.timer = n.m.timer /\ d.m.draining = n.m.draining
      /\ d.m.playing = n.m.playing /\ d.m.guard = n.m.guard
      /\ d.m.negative = n.m.negative /\ d.m.judged = n.m.judged
      /\ d.m.judging = n.m.judging /\ d.m.valid = n.m.valid
      /\ d.m.streak = n.m.streak /\ d.m.cursor = n.m.cursor
      /\ d.m.waiting = n.m.waiting
    BY <1>3, <1>4, ZenonT(30) DEF Pair, Media
<1>8. Calm(n, d)
    BY <1>5, <1>6, <1>7, MediaStepIsCalm
<1> QED  BY <1>1, <1>8, CalmIsTransitive DEF d

\* The cursor may move, and then nobody waits.
LEMMA FireR3KeepsReady ==
    ASSUME NEW c, AtRest(c), c.e.grace = "none", NEW voiced \in BOOLEAN
    PROVE  LET d == FireR3(c, voiced)
           IN /\ AtRest(d) /\ SameCounts(c, d)
              /\ d.e.cursor \in {c.e.cursor, c.e.cursor + 1}
              /\ d.m.waiting => c.m.waiting /\ d.e.cursor = c.e.cursor
<1> DEFINE a == AdvanceOnSilence(c, voiced)
           d == FireR3(c, voiced)
<1>1. c \in Pair
    BY DEF AtRest
<1>2. Steady(c, a) /\ a.e.grace = "none"
    BY <1>1, SilenceIsSteady
<1> HIDE DEF a
<1>3. a \in Pair /\ AtRest(a)
    BY <1>2, SameEndKeepsWhole DEF Steady, AtRest, SameEnd
<1>4. d = IF a.e.cursor # c.e.cursor THEN LeaveWaiting(a) ELSE ResetR3(a)
    BY DEF FireR3, a
<1> HIDE DEF d
<1>5. Calm(a, d) /\ (a.e.cursor # c.e.cursor => ~d.m.waiting)
    BY <1>3, <1>4, LeaveWaitingIsCalm, ResetR3IsCalm
<1>6. AtRest(d)
    BY <1>3, <1>5, CalmKeepsReady
<1>7. SameCounts(c, d)
    BY <1>2, <1>5, ZenonT(30) DEF Steady, Calm, SameCounts
<1> QED  BY <1>2, <1>5, <1>6, <1>7 DEF Steady, Calm, SamePlace, d

LEMMA CheckR3KeepsReady ==
    ASSUME NEW c, AtRest(c), NEW long \in BOOLEAN, NEW voiced \in BOOLEAN,
           long => c.e.grace = "none"
    PROVE  LET d == CheckR3(c, long, voiced)
           IN /\ AtRest(d) /\ SameCounts(c, d)
              /\ d.e.cursor \in {c.e.cursor, c.e.cursor + 1}
              /\ d.m.waiting => c.m.waiting /\ d.e.cursor = c.e.cursor
<1> DEFINE d == CheckR3(c, long, voiced)
           b == [c EXCEPT !.m.epoch = c.e.cursor]
<1>1. c \in Pair /\ c.e.cursor \in 0..(Questions - 1)
    BY DEF AtRest, Pair, Engine
<1>2. ASSUME NEW x, Calm(c, x)
      PROVE  /\ AtRest(x) /\ SameCounts(c, x)
             /\ x.e.cursor \in {c.e.cursor, c.e.cursor + 1}
             /\ x.m.waiting => c.m.waiting /\ x.e.cursor = c.e.cursor
    BY <1>2, CalmKeepsReady DEF Calm, SamePlace
<1>3. Calm(c, b)
    <2>1. c.e.cursor \in 0..NoQuestion
        BY <1>1, ConductAssumption DEF NoQuestion, ConductAssumption
    <2>2. b \in Pair
        BY <1>1, <2>1, ZenonT(30) DEF Pair, Media
    <2>3. b.e = c.e
        BY <1>1, ZenonT(30) DEF Pair, Media
    <2>4. /\ b.m.forced = c.m.forced /\ b.m.closed = c.m.closed
          /\ b.m.timer = c.m.timer /\ b.m.draining = c.m.draining
          /\ b.m.playing = c.m.playing /\ b.m.guard = c.m.guard
          /\ b.m.negative = c.m.negative /\ b.m.judged = c.m.judged
          /\ b.m.judging = c.m.judging /\ b.m.valid = c.m.valid
          /\ b.m.streak = c.m.streak /\ b.m.cursor = c.m.cursor
          /\ b.m.waiting = c.m.waiting
        BY <1>1, ZenonT(30) DEF Pair, Media
    <2> HIDE DEF b
    <2> QED  BY <2>2, <2>3, <2>4, MediaStepIsCalm
<1>4. Calm(c, AskForMore(b)) /\ Calm(c, AskForMore(c)) /\ Calm(c, c)
    <2> HIDE DEF b
    <2>1. b \in Pair
        BY <1>3 DEF Calm
    <2> QED  BY <1>1, <1>3, <2>1, AskForMoreIsCalm, CalmIsTransitive, CalmToItself
<1>5. CASE long /\ d = FireR3(c, voiced)
    BY <1>5, FireR3KeepsReady, ZenonT(40)
<1>6. \/ d = c \/ d = AskForMore(b) \/ d = AskForMore(c)
      \/ long /\ d = FireR3(c, voiced)
    <2>1. CASE c.m.speaking \/ ~c.m.waiting
        BY <2>1 DEF CheckR3
    <2>2. CASE ~(c.m.speaking \/ ~c.m.waiting)
        <3> HIDE DEF b
        <3>1. d = CASE c.m.r3 = "idle" /\ long -> AskForMore(b)
                    [] c.m.r3 = "pending" /\ ~long -> AskForMore(c)
                    [] c.m.r3 \in {"pending", "after"} /\ long -> FireR3(c, voiced)
                    [] OTHER -> c
            BY <2>2 DEF CheckR3, b
        <3> HIDE DEF d
        <3>2. CASE c.m.r3 = "idle" /\ long
            BY <3>1, <3>2
        <3>3. CASE c.m.r3 = "pending" /\ ~long
            BY <3>1, <3>3
        <3>4. CASE c.m.r3 \in {"pending", "after"} /\ long
            BY <3>1, <3>4
        <3>5. CASE /\ ~(c.m.r3 = "idle" /\ long) /\ ~(c.m.r3 = "pending" /\ ~long)
                   /\ ~(c.m.r3 \in {"pending", "after"} /\ long)
            BY <3>1, <3>5
        <3> QED  BY <3>2, <3>3, <3>4, <3>5
    <2> QED  BY <2>1, <2>2
<1> HIDE DEF d, b
<1> QED  BY <1>2, <1>4, <1>5, <1>6 DEF d

LEMMA TickKeepsReady ==
    ASSUME NEW c, AtRest(c), ~c.m.closed,
           NEW hung \in BOOLEAN, NEW long \in BOOLEAN, NEW voiced \in BOOLEAN,
           long => c.e.grace = "none"
    PROVE  LET d == WatchdogTick(c, hung, long, voiced)
           IN /\ AtRest(d) /\ SameJudge(c, d) /\ d.m.cursor = c.e.cursor
              /\ d.e.cursor \in {c.e.cursor, c.e.cursor + 1}
              /\ d.m.waiting => /\ c.m.waiting /\ c.m.cursor = c.e.cursor
                                /\ d.e.cursor = c.e.cursor
              /\ d.m.negative # c.m.negative =>
                    c.m.waiting /\ c.m.cursor = c.e.cursor
<1> DEFINE k == IF hung /\ c.m.speaking THEN MarkAiDone(c) ELSE c
           s == SeeCursor(k)
           d == WatchdogTick(c, hung, long, voiced)
<1>1. c \in Pair
    BY DEF AtRest
<1>2. Calm(c, k) /\ k.e = c.e /\ k.m.waiting = c.m.waiting
    BY <1>1, MarkAiDoneIsCalm, CalmToItself
<1> HIDE DEF k
<1>3. AtRest(k) /\ ~k.m.closed /\ k.m.cursor = c.m.cursor /\ k.m.negative = c.m.negative
    BY <1>2, CalmKeepsReady DEF Calm, SameCounts, SameEnd
<1>4. /\ AtRest(s) /\ SameEnd(k, s) /\ s.e = k.e /\ SameJudge(k, s)
      /\ s.m.cursor = k.e.cursor /\ s.m.negative = k.m.negative
      /\ s.m.waiting => k.m.waiting /\ k.m.cursor = k.e.cursor
    BY <1>3, SeeCursorKeepsReady
<1> HIDE DEF s
<1>5. /\ SameJudge(c, s) /\ ~s.m.closed /\ s.m.negative = c.m.negative
      /\ s.m.cursor = c.e.cursor /\ s.e.cursor = c.e.cursor
      /\ s.m.waiting => c.m.waiting /\ c.m.cursor = c.e.cursor
      /\ s \in Pair /\ s.e.grace = c.e.grace
    <2>1. SameJudge(c, s)
        BY <1>2, <1>4, ZenonT(30) DEF Calm, SameCounts, SameJudge
    <2> QED  BY <1>2, <1>3, <1>4, <2>1, ZenonT(30) DEF SameEnd, AtRest
<1>6. CASE s.e.answerSeen
    <2>1. d = CheckR3(s, long, voiced)
        BY <1>6 DEF WatchdogTick, s, k
    <2> HIDE DEF d
    <2> long => s.e.grace = "none"
        BY <1>5
    <2>2. /\ AtRest(d) /\ SameCounts(s, d)
          /\ d.e.cursor \in {s.e.cursor, s.e.cursor + 1}
          /\ d.m.waiting => s.m.waiting /\ d.e.cursor = s.e.cursor
        BY <1>4, <2>1, CheckR3KeepsReady
    <2>3. SameJudge(c, d) /\ d.m.cursor = c.e.cursor /\ d.m.negative = c.m.negative
        BY <1>5, <2>2, ZenonT(30) DEF SameCounts, SameJudge
    <2> QED  BY <1>5, <2>2, <2>3 DEF d
<1>7. CASE ~s.e.answerSeen
    <2> DEFINE r == ResetR3(s)
    <2>1. d = CheckSilence(r, long)
        BY <1>7 DEF WatchdogTick, s, k
    <2>2. Calm(s, r) /\ r.m.waiting = s.m.waiting
        BY <1>5, ResetR3IsCalm
    <2> HIDE DEF r, d
    <2>3. AtRest(r) /\ ~r.m.closed
        BY <1>4, <1>5, <2>2, CalmKeepsReady DEF Calm, SameEnd
    <2>4. /\ AtRest(d) /\ SameJudge(r, d) /\ SamePlace(r, d)
          /\ d.m.cursor = r.m.cursor
          /\ d.m.negative # r.m.negative => r.m.waiting
        BY <2>1, <2>3, CheckSilenceKeepsReady
    <2>5. SameJudge(c, d)
        BY <1>5, <2>2, <2>4, ZenonT(30) DEF Calm, SameCounts, SameJudge
    <2>6. d.m.cursor = c.e.cursor /\ d.e.cursor = c.e.cursor
        BY <1>5, <2>2, <2>4, ZenonT(30) DEF Calm, SameCounts, SamePlace
    <2>7. (d.m.waiting => s.m.waiting) /\ (d.m.negative # c.m.negative => s.m.waiting)
        BY <1>5, <2>2, <2>4, ZenonT(30) DEF Calm, SameCounts, SamePlace
    <2> QED  BY <1>5, <2>4, <2>5, <2>6, <2>7 DEF d
<1> QED  BY <1>6, <1>7

-----------------------------------------------------------------------------
(* The judge of abuse                                                      *)

LEMMA JudgeKeepsReady ==
    ASSUME NEW c, AtRest(c)
    PROVE  LET d == Judge(c)
           IN /\ AtRest(d) /\ d.e = c.e /\ d.m.waiting = c.m.waiting
              /\ d.m.cursor = c.m.cursor /\ d.m.negative = c.m.negative
              /\ c.m.judged => SameJudge(c, d)
              /\ ~c.m.judged /\ c.m.judging =>
                    ~d.m.judged /\ d.m.judging /\ ~d.m.valid /\ d.m.streak = 0
              /\ ~c.m.judged /\ ~c.m.judging =>
                    d.m.judged /\ d.m.judging /\ d.m.valid /\ d.m.streak = c.m.streak
<1> DEFINE d == Judge(c)
<1>1. c \in Pair
    BY DEF AtRest
<1>2. CASE c.m.judged
    BY <1>2 DEF Judge, SameJudge
<1>3. ASSUME NEW x \in Pair, x.e = c.e,
             x.m.forced = c.m.forced, x.m.closed = c.m.closed,
             x.m.timer = c.m.timer, x.m.draining = c.m.draining,
             x.m.playing = c.m.playing, x.m.guard = c.m.guard
      PROVE  AtRest(x)
    <2>1. SameEnd(c, x)
        BY <1>3, ZenonT(30) DEF SameEnd
    <2> QED  BY <1>3, <2>1, SameEndKeepsWhole DEF AtRest, HasNext
<1>4. CASE ~c.m.judged /\ c.m.judging
    <2> DEFINE x == [c EXCEPT !.m.valid = FALSE, !.m.streak = 0]
    <2>1. 0 \in 0..(ChatterTurns - 1)
        BY ConductAssumption DEF ConductAssumption
    <2>2. x \in Pair
        BY <1>1, <2>1, ZenonT(30) DEF Pair, Media
    <2>3. x.e = c.e
        BY <1>1, ZenonT(30) DEF Pair, Media
    <2>4. /\ x.m.forced = c.m.forced /\ x.m.closed = c.m.closed
          /\ x.m.timer = c.m.timer /\ x.m.draining = c.m.draining
          /\ x.m.playing = c.m.playing /\ x.m.guard = c.m.guard
          /\ x.m.negative = c.m.negative /\ x.m.judged = c.m.judged
          /\ x.m.judging = c.m.judging /\ ~x.m.valid
          /\ x.m.streak = 0 /\ x.m.cursor = c.m.cursor
          /\ x.m.waiting = c.m.waiting
        BY <1>1, ZenonT(30) DEF Pair, Media
    <2>5. d = x
        BY <1>4 DEF Judge
    <2> HIDE DEF x, d
    <2>6. AtRest(x)
        BY <1>3, <2>2, <2>3, <2>4
    <2> QED  BY <1>4, <2>3, <2>4, <2>5, <2>6, ZenonT(30) DEF d
<1>5. CASE ~c.m.judged /\ ~c.m.judging
    <2> DEFINE x == [c EXCEPT !.m.judged = TRUE, !.m.judging = TRUE, !.m.valid = TRUE]
    <2>1. x \in Pair
        BY <1>1, ZenonT(30) DEF Pair, Media
    <2>2. x.e = c.e
        BY <1>1, ZenonT(30) DEF Pair, Media
    <2>3. /\ x.m.forced = c.m.forced /\ x.m.closed = c.m.closed
          /\ x.m.timer = c.m.timer /\ x.m.draining = c.m.draining
          /\ x.m.playing = c.m.playing /\ x.m.guard = c.m.guard
          /\ x.m.negative = c.m.negative /\ x.m.judged
          /\ x.m.judging /\ x.m.valid
          /\ x.m.streak = c.m.streak /\ x.m.cursor = c.m.cursor
          /\ x.m.waiting = c.m.waiting
        BY <1>1, ZenonT(30) DEF Pair, Media
    <2>4. d = x
        BY <1>5 DEF Judge
    <2> HIDE DEF x, d
    <2>5. AtRest(x)
        BY <1>3, <2>1, <2>2, <2>3
    <2> QED  BY <1>5, <2>2, <2>3, <2>4, <2>5, ZenonT(30) DEF d
<1> QED  BY <1>2, <1>4, <1>5

\* What an answer of the judge may do: only chatter reaches the count.
LEMMA SevereKeepsReady ==
    ASSUME NEW c, AtRest(c), ~c.m.closed
    PROVE  LET d == Severe(c)
           IN AtRest(d) /\ SameCounts(c, d) /\ SamePlace(c, d)
<1> DEFINE d == Severe(c)
<1>1. c \in Pair /\ Whole(c) /\ c.m.severe \in 0..SevereMax
    BY DEF AtRest, Pair, Media
<1>2. PICK n \in 0..SevereMax :
        \/ d = NudgeNotice([c EXCEPT !.m.severe = n], "warning")
        \/ d = Arm([c EXCEPT !.m.severe = n])
    <2>1. SevereMax \in 0..SevereMax
        BY ConductAssumption DEF ConductAssumption
    <2>2. CASE c.m.severe + 1 >= SevereMax
        BY <2>1, <2>2 DEF Severe
    <2>3. CASE ~(c.m.severe + 1 >= SevereMax)
        <3>1. c.m.severe + 1 \in 0..SevereMax
            BY <1>1, <2>3, ConductAssumption DEF ConductAssumption
        <3>2. (IF Accepts(c) THEN c.m.severe + 1 ELSE c.m.severe) \in 0..SevereMax
            BY <1>1, <3>1
        <3> QED  BY <2>3, <3>2 DEF Severe
    <2> QED  BY <2>2, <2>3
<1> DEFINE b == [c EXCEPT !.m.severe = n]
<1>3. b \in Pair
    BY <1>1, ZenonT(30) DEF Pair, Media
<1>4. b.e = c.e
    BY <1>1, ZenonT(30) DEF Pair, Media
<1>5. /\ b.m.forced = c.m.forced /\ b.m.closed = c.m.closed
      /\ b.m.timer = c.m.timer /\ b.m.draining = c.m.draining
      /\ b.m.playing = c.m.playing /\ b.m.guard = c.m.guard
      /\ b.m.negative = c.m.negative /\ b.m.judged = c.m.judged
      /\ b.m.judging = c.m.judging /\ b.m.valid = c.m.valid
      /\ b.m.streak = c.m.streak /\ b.m.cursor = c.m.cursor
      /\ b.m.waiting = c.m.waiting
    BY <1>1, ZenonT(30) DEF Pair, Media
<1> HIDE DEF b, d
<1>6. Calm(c, b)
    BY <1>3, <1>4, <1>5, MediaStepIsCalm
<1>7. Whole(b)
    BY <1>1, <1>6, SameEndKeepsWhole DEF Calm
<1>8. /\ d \in Pair /\ SameCounts(b, d) /\ SamePlace(b, d)
      /\ Whole(d) /\ d.m.closed = b.m.closed
    BY <1>2, <1>3, <1>7, WarningKeepsWhole, ArmKeepsWhole DEF b
<1>9. SameCounts(c, d) /\ SamePlace(c, d)
    BY <1>6, <1>8, ZenonT(30) DEF Calm, SameCounts, SamePlace
<1>10. AtRest(d)
    BY <1>8, <1>9 DEF AtRest, SamePlace, HasNext
<1> QED  BY <1>9, <1>10 DEF d

LEMMA UnrelatedKeepsReady ==
    ASSUME NEW c, AtRest(c), ~c.m.closed
    PROVE  LET d == Unrelated(c)
           IN /\ AtRest(d) /\ SamePlace(c, d) /\ d.m.cursor = c.m.cursor
              /\ d.m.judged = c.m.judged /\ d.m.judging = c.m.judging
              /\ d.m.valid = c.m.valid
              /\ c.m.streak + 1 < ChatterTurns =>
                    d.m.streak = c.m.streak + 1 /\ d.m.negative = c.m.negative
              /\ ~(c.m.streak + 1 < ChatterTurns) => d.m.streak = 0
<1> DEFINE d == Unrelated(c)
<1>1. c \in Pair /\ c.m.streak \in 0..(ChatterTurns - 1)
    BY DEF AtRest, Pair, Media
<1>2. ASSUME NEW n \in 0..(ChatterTurns - 1)
      PROVE  LET b == [c EXCEPT !.m.streak = n]
             IN /\ AtRest(b) /\ SamePlace(c, b) /\ b.m.cursor = c.m.cursor
                /\ b.m.closed = c.m.closed
                /\ b.m.judged = c.m.judged /\ b.m.judging = c.m.judging
                /\ b.m.valid = c.m.valid /\ b.m.streak = n
                /\ b.m.negative = c.m.negative
    <2> DEFINE b == [c EXCEPT !.m.streak = n]
    <2>1. b \in Pair
        BY <1>1, ZenonT(30) DEF Pair, Media
    <2>2. b.e = c.e
        BY <1>1, ZenonT(30) DEF Pair, Media
    <2>3. /\ b.m.forced = c.m.forced /\ b.m.closed = c.m.closed
          /\ b.m.timer = c.m.timer /\ b.m.draining = c.m.draining
          /\ b.m.playing = c.m.playing /\ b.m.guard = c.m.guard
          /\ b.m.negative = c.m.negative /\ b.m.judged = c.m.judged
          /\ b.m.judging = c.m.judging /\ b.m.valid = c.m.valid
          /\ b.m.streak = n /\ b.m.cursor = c.m.cursor
          /\ b.m.waiting = c.m.waiting
        BY <1>1, ZenonT(30) DEF Pair, Media
    <2> HIDE DEF b
    <2>4. SameEnd(c, b) /\ SamePlace(c, b)
        BY <2>2, <2>3, ZenonT(30) DEF SameEnd, SamePlace
    <2>5. AtRest(b)
        BY <2>1, <2>2, <2>3, <2>4, SameEndKeepsWhole DEF AtRest, HasNext
    <2> QED  BY <2>3, <2>4, <2>5, ZenonT(30) DEF b
<1>3. CASE c.m.streak + 1 < ChatterTurns
    <2>1. c.m.streak + 1 \in 0..(ChatterTurns - 1)
        BY <1>1, <1>3, ConductAssumption DEF ConductAssumption
    <2> DEFINE n == c.m.streak + 1
               b == [c EXCEPT !.m.streak = n]
    <2>2. d = b
        BY <1>3 DEF Unrelated
    <2> HIDE DEF n
    <2>3. /\ AtRest(b) /\ SamePlace(c, b) /\ b.m.cursor = c.m.cursor
          /\ b.m.judged = c.m.judged /\ b.m.judging = c.m.judging
          /\ b.m.valid = c.m.valid /\ b.m.streak = n
          /\ b.m.negative = c.m.negative
        BY <1>2, <2>1, ZenonT(30) DEF n
    <2> HIDE DEF b, d
    <2> QED  BY <1>3, <2>2, <2>3 DEF d, n
<1>4. CASE ~(c.m.streak + 1 < ChatterTurns)
    <2> DEFINE b == [c EXCEPT !.m.streak = 0]
    <2>1. 0 \in 0..(ChatterTurns - 1)
        BY ConductAssumption DEF ConductAssumption
    <2>2. /\ AtRest(b) /\ SamePlace(c, b) /\ b.m.cursor = c.m.cursor
          /\ ~b.m.closed
          /\ b.m.judged = c.m.judged /\ b.m.judging = c.m.judging
          /\ b.m.valid = c.m.valid /\ b.m.streak = 0
        BY <1>2, <2>1, Zenon
    <2>3. d = Negative(b)
        BY <1>4 DEF Unrelated
    <2> HIDE DEF b, d
    <2>4. /\ AtRest(d) /\ ~d.m.closed /\ SameJudge(b, d) /\ SamePlace(b, d)
          /\ d.m.cursor = b.m.cursor
        BY <2>2, <2>3, NegativeKeepsReady
    <2>5. SamePlace(c, d)
        BY <2>2, <2>4, ZenonT(30) DEF SamePlace
    <2> QED  BY <1>4, <2>2, <2>4, <2>5, ZenonT(30) DEF SameJudge, d
<1> QED  BY <1>3, <1>4

LEMMA VerdictKeepsReady ==
    ASSUME NEW c, AtRest(c), ~c.m.closed, NEW kind \in {"other", "unrelated", "severe"}
    PROVE  LET d == ApplyVerdict(c, kind)
           IN /\ AtRest(d) /\ SamePlace(c, d) /\ d.m.cursor = c.m.cursor
              /\ d.m.judged = c.m.judged /\ ~d.m.judging /\ ~d.m.valid
              /\ ~c.m.valid \/ kind = "severe" =>
                    d.m.streak = c.m.streak /\ d.m.negative = c.m.negative
              /\ c.m.valid /\ kind = "other" =>
                    d.m.streak = 0 /\ d.m.negative = c.m.negative
              /\ c.m.valid /\ kind = "unrelated" =>
                    /\ c.m.streak + 1 < ChatterTurns =>
                          d.m.streak = c.m.streak + 1 /\ d.m.negative = c.m.negative
                    /\ ~(c.m.streak + 1 < ChatterTurns) => d.m.streak = 0
<1> DEFINE b == [c EXCEPT !.m.judging = FALSE, !.m.valid = FALSE]
           d == ApplyVerdict(c, kind)
<1>1. c \in Pair
    BY DEF AtRest
<1>2. b \in Pair
    BY <1>1, ZenonT(30) DEF Pair, Media
<1>3. b.e = c.e
    BY <1>1, ZenonT(30) DEF Pair, Media
<1>4. /\ b.m.forced = c.m.forced /\ b.m.closed = c.m.closed
      /\ b.m.timer = c.m.timer /\ b.m.draining = c.m.draining
      /\ b.m.playing = c.m.playing /\ b.m.guard = c.m.guard
      /\ b.m.negative = c.m.negative /\ b.m.judged = c.m.judged
      /\ ~b.m.judging /\ ~b.m.valid
      /\ b.m.streak = c.m.streak /\ b.m.cursor = c.m.cursor
      /\ b.m.waiting = c.m.waiting
    BY <1>1, ZenonT(30) DEF Pair, Media
<1>5. d = IF ~c.m.valid THEN b
          ELSE CASE kind = "unrelated" -> Unrelated(b)
                 [] kind = "severe"    -> Severe(b)
                 [] OTHER              -> [b EXCEPT !.m.streak = 0]
    BY DEF ApplyVerdict
<1> HIDE DEF b, d
<1>6. SameEnd(c, b) /\ SamePlace(c, b)
    BY <1>3, <1>4, ZenonT(30) DEF SameEnd, SamePlace
<1>7. AtRest(b) /\ ~b.m.closed
    BY <1>2, <1>3, <1>4, <1>6, SameEndKeepsWhole DEF AtRest, HasNext
<1>8. CASE ~c.m.valid
    BY <1>4, <1>5, <1>6, <1>7, <1>8 DEF d
<1>9. CASE c.m.valid /\ kind = "severe"
    <2>1. d = Severe(b)
        BY <1>5, <1>9
    <2>2. AtRest(d) /\ SameCounts(b, d) /\ SamePlace(b, d)
        BY <1>7, <2>1, SevereKeepsReady
    <2>3. SamePlace(c, d)
        BY <1>6, <2>2, ZenonT(30) DEF SamePlace
    <2> QED  BY <1>4, <1>9, <2>2, <2>3 DEF SameCounts, d
<1>10. CASE c.m.valid /\ kind = "other"
    <2>1. d = [b EXCEPT !.m.streak = 0]
        BY <1>5, <1>10
    <2>2. 0 \in 0..(ChatterTurns - 1)
        BY ConductAssumption DEF ConductAssumption
    <2>3. d \in Pair
        BY <1>2, <2>1, <2>2, ZenonT(30) DEF Pair, Media
    <2>4. d.e = b.e
        BY <1>2, <2>1, ZenonT(30) DEF Pair, Media
    <2>5. /\ d.m.forced = b.m.forced /\ d.m.closed = b.m.closed
          /\ d.m.timer = b.m.timer /\ d.m.draining = b.m.draining
          /\ d.m.playing = b.m.playing /\ d.m.guard = b.m.guard
          /\ d.m.negative = b.m.negative /\ d.m.judged = b.m.judged
          /\ d.m.judging = b.m.judging /\ d.m.valid = b.m.valid
          /\ d.m.streak = 0 /\ d.m.cursor = b.m.cursor
          /\ d.m.waiting = b.m.waiting
        BY <1>2, <2>1, ZenonT(30) DEF Pair, Media
    <2>6. SameEnd(b, d) /\ SamePlace(c, d)
        BY <1>6, <2>4, <2>5, ZenonT(30) DEF SameEnd, SamePlace
    <2>7. AtRest(d)
        BY <1>7, <2>3, <2>4, <2>5, <2>6, SameEndKeepsWhole DEF AtRest, HasNext
    <2> QED  BY <1>4, <1>10, <2>5, <2>6, <2>7 DEF d
<1>11. CASE c.m.valid /\ kind = "unrelated"
    <2>1. d = Unrelated(b)
        BY <1>5, <1>11
    <2>2. /\ AtRest(d) /\ SamePlace(b, d) /\ d.m.cursor = b.m.cursor
          /\ d.m.judged = b.m.judged /\ d.m.judging = b.m.judging
          /\ d.m.valid = b.m.valid
          /\ b.m.streak + 1 < ChatterTurns =>
                d.m.streak = b.m.streak + 1 /\ d.m.negative = b.m.negative
          /\ ~(b.m.streak + 1 < ChatterTurns) => d.m.streak = 0
        BY <1>7, <2>1, UnrelatedKeepsReady
    <2>3. SamePlace(c, d)
        BY <1>6, <2>2, ZenonT(30) DEF SamePlace
    <2> QED  BY <1>4, <1>11, <2>2, <2>3 DEF d
<1> QED  BY <1>8, <1>9, <1>10, <1>11

-----------------------------------------------------------------------------
(* The invariant                                                           *)

(* The watchdog lags behind the engine's cursor; a wait it has not         *)
(* outdated is for the question the last completed turn left.  The answer  *)
(* that is outstanding counts unless a later turn has been heard, and the  *)
(* streak is the chain of turns judged to be chatter.                      *)
Evidence ==
    /\ media.cursor <= engine.cursor
    /\ media.waiting /\ media.cursor = engine.cursor => seen.owed = engine.cursor
    /\ media.judged => seen.inTurn
    /\ media.valid => media.judging /\ ~seen.older
    /\ media.judging /\ ~media.valid => seen.older
    /\ seen.inTurn /\ ~media.judged /\ media.judging => seen.older
    /\ seen.older => seen.chain = 0
    /\ media.streak = seen.chain

Seen == [chain : 0..(ChatterTurns - 1), older : BOOLEAN, inTurn : BOOLEAN,
         owed : 0..NoQuestion]

ConductInv ==
    /\ AtRest(Now)
    /\ said \in {"nothing", "sound", "final"}
    /\ seen \in Seen
    /\ Evidence

\* What CountsHaveEvidence says of a step.
Evident ==
    media'.negative # media.negative =>
        IF media.judging /\ ~media'.judging
        THEN seen.chain + 1 = ChatterTurns /\ ~seen.older
        ELSE seen.owed = engine.cursor

LEMMA NowFields ==
    /\ Now.e = engine /\ Now.m = media
    /\ Now.e' = engine' /\ Now.m' = media'
  BY DEF Now

LEMMA Installed ==
    ASSUME NEW d, d \in Pair, Become(d)
    PROVE  /\ Now' = d /\ engine' = d.e /\ media' = d.m
<1>1. d = [e |-> d.e, m |-> d.m]
    BY DEF Pair
<1> QED  BY <1>1 DEF Now, Become

LEMMA ConductInvInit ==
    ASSUME ConductInit
    PROVE  ConductInv
<1> USE DEF ConductInit
<1>1. Now = [e |-> EngineInit, m |-> MediaInit]
    BY DEF Now
<1>2. /\ 0 \in 0..(Questions - 1) /\ 0 \in 0..(VoicedStallMax - 1)
      /\ NoQuestion \in 0..NoQuestion /\ 0 \in 0..(WarnMax + 1) /\ 0 \in 0..SevereMax
      /\ 0 \in 0..(ChatterTurns - 1)
    BY ConductAssumption DEF ConductAssumption, NoQuestion
<1>3. EngineInit \in Engine
    BY <1>2 DEF EngineInit, Engine, TurnKinds
<1>4. MediaInit \in Media
    BY <1>2, ZenonT(30) DEF MediaInit, Media
<1>5. Now \in Pair
    BY <1>1, <1>3, <1>4 DEF Pair
<1>6. AtRest(Now)
    BY <1>5, NowFields DEF AtRest, Whole, Core, EngineInit, MediaInit, Protected
<1>7. seen \in Seen
    BY <1>2 DEF Seen
<1>8. Evidence
    BY DEF Evidence, EngineInit, MediaInit
<1> QED  BY <1>6, <1>7, <1>8 DEF ConductInv

\* A step that counts and judges nothing, whatever the candidate now owes.
LEMMA UncountedStep ==
    ASSUME ConductInv, NEW d, AtRest(d), Become(d), SameCounts(Now, d),
           d.e.cursor \in {engine.cursor, engine.cursor + 1},
           NEW q \in 0..NoQuestion, seen' = [seen EXCEPT !.owed = q],
           d.m.waiting /\ d.m.cursor = d.e.cursor => q = d.e.cursor,
           said' \in {"nothing", "sound", "final"}
    PROVE  ConductInv' /\ Evident
<1>1. d \in Pair /\ Now \in Pair
    BY DEF AtRest, ConductInv
<1>2. Now' = d /\ engine' = d.e /\ media' = d.m
    BY <1>1, Installed
<1>3. /\ media'.negative = media.negative /\ media'.judged = media.judged
      /\ media'.judging = media.judging /\ media'.valid = media.valid
      /\ media'.streak = media.streak /\ media'.cursor = media.cursor
    BY <1>2, NowFields DEF SameCounts
<1>4. /\ seen'.chain = seen.chain /\ seen'.older = seen.older
      /\ seen'.inTurn = seen.inTurn /\ seen'.owed = q /\ seen' \in Seen
    BY DEF ConductInv, Seen
<1>5. engine.cursor \in Nat /\ media.cursor \in Nat
    BY <1>1, NowFields DEF Pair, Engine, Media
<1>6. media'.cursor <= engine'.cursor
    BY <1>2, <1>3, <1>5 DEF ConductInv, Evidence
<1>7. Evidence'
    BY <1>2, <1>3, <1>4, <1>6, ZenonT(30) DEF ConductInv, Evidence
<1>8. Evident
    BY <1>3 DEF Evident
<1>9. AtRest(Now)'
    BY <1>2
<1> QED  BY <1>4, <1>7, <1>8, <1>9 DEF ConductInv

\* The same, with nothing said: the wait of the candidate is no other.
LEMMA SilentStep ==
    ASSUME ConductInv, NEW d, AtRest(d), Become(d), SameCounts(Now, d),
           d.e.cursor \in {engine.cursor, engine.cursor + 1},
           d.m.waiting => media.waiting, seen' = seen,
           said' \in {"nothing", "sound", "final"}
    PROVE  ConductInv' /\ Evident
<1>1. seen.owed \in 0..NoQuestion /\ seen' = [seen EXCEPT !.owed = seen.owed]
    BY DEF ConductInv, Seen
<1>2. engine.cursor \in Nat /\ media.cursor \in Nat
    BY NowFields DEF ConductInv, AtRest, Pair, Engine, Media
<1>3. d.m.cursor = media.cursor
    BY NowFields DEF SameCounts
<1>4. d.m.waiting /\ d.m.cursor = d.e.cursor => seen.owed = d.e.cursor
    BY <1>2, <1>3 DEF ConductInv, Evidence
<1> QED  BY <1>1, <1>4, UncountedStep

LEMMA CalmStep ==
    ASSUME ConductInv, NEW d, Calm(Now, d), Become(d), seen' = seen,
           said' \in {"nothing", "sound", "final"}
    PROVE  ConductInv' /\ Evident
<1>1. AtRest(d)
    BY CalmKeepsReady DEF ConductInv
<1>2. /\ SameCounts(Now, d) /\ d.e.cursor = engine.cursor
      /\ d.m.waiting => media.waiting
    BY NowFields DEF Calm, SamePlace
<1> QED  BY <1>1, <1>2, SilentStep

-----------------------------------------------------------------------------
(* Every action keeps the invariant, and counts with evidence              *)

LEMMA SaidAfterSound ==
    ASSUME ConductInv, Sound
    PROVE  said' \in {"nothing", "sound", "final"}
  BY DEF ConductInv, Sound

LEMMA AudioOutStep ==
    ASSUME ConductInv, AudioOut
    PROVE  ConductInv' /\ Evident
<1> DEFINE d == [Now EXCEPT !.e.sounded = TRUE, !.m.speaking = TRUE]
<1>1. Now \in Pair
    BY DEF ConductInv, AtRest
<1>2. d \in Pair
    BY <1>1, ZenonT(30) DEF Pair, Engine, Media
<1>3. d.e.turn = Now.e.turn /\ d.e.suppress = Now.e.suppress
      /\ d.e.cursor = Now.e.cursor /\ d.e.grace = Now.e.grace
    BY <1>1, ZenonT(30) DEF Pair, Engine, Media
<1>4. /\ d.m.forced = Now.m.forced /\ d.m.closed = Now.m.closed
      /\ d.m.timer = Now.m.timer /\ d.m.draining = Now.m.draining
      /\ d.m.playing = Now.m.playing /\ d.m.guard = Now.m.guard
      /\ d.m.negative = Now.m.negative /\ d.m.judged = Now.m.judged
      /\ d.m.judging = Now.m.judging /\ d.m.valid = Now.m.valid
      /\ d.m.streak = Now.m.streak /\ d.m.cursor = Now.m.cursor
      /\ d.m.waiting = Now.m.waiting
    BY <1>1, ZenonT(30) DEF Pair, Engine, Media
<1>5. Become(d) /\ seen' = seen /\ said' \in {"nothing", "sound", "final"}
    BY DEF AudioOut, ConductInv
<1> HIDE DEF d
<1>6. Calm(Now, d)
    BY <1>2, <1>3, <1>4, ZenonT(30) DEF Calm, SameEnd, SameCounts, SamePlace
<1> QED  BY <1>5, <1>6, CalmStep

LEMMA LlmEndsStep ==
    ASSUME ConductInv, LlmEnds
    PROVE  ConductInv' /\ Evident
<1> DEFINE d == [Now EXCEPT !.e.phase = "tts"]
<1>1. Now \in Pair
    BY DEF ConductInv, AtRest
<1>2. d \in Pair
    BY <1>1, ZenonT(30) DEF Pair, Engine
<1>3. d.m = Now.m /\ d.e.turn = Now.e.turn /\ d.e.suppress = Now.e.suppress
      /\ d.e.cursor = Now.e.cursor /\ d.e.grace = Now.e.grace
    BY <1>1, ZenonT(30) DEF Pair, Engine
<1>4. Become(d) /\ seen' = seen /\ said' \in {"nothing", "sound", "final"}
    BY DEF LlmEnds, ConductInv
<1> HIDE DEF d
<1>5. Calm(Now, d)
    BY <1>2, <1>3, EngineStepIsCalm
<1> QED  BY <1>4, <1>5, CalmStep

LEMMA AnswersAreTwo ==
    ASSUME NEW c, NEW next \in Answers(c)
    PROVE  next \in {"user", "direct"}
  BY DEF Answers

LEMMA CompleteStep ==
    ASSUME ConductInv, Complete
    PROVE  ConductInv' /\ Evident
<1>1. PICK outcome \in Outcomes(Now), next \in Answers(Now) :
            Become(Settle(Now, TRUE, outcome, next))
    BY DEF Complete
<1> DEFINE d == Settle(Now, TRUE, outcome, next)
<1>2. AtRest(Now) /\ TRUE \in BOOLEAN /\ next \in {"user", "direct"}
    BY AnswersAreTwo DEF ConductInv
<1>3. /\ AtRest(d) /\ SameCounts(Now, d)
      /\ d.e.cursor \in {Now.e.cursor, Now.e.cursor + 1}
    BY <1>2, SettleKeepsReady
<1>4. Become(d)
    BY <1>1
<1> HIDE DEF d
<1>5. engine' = d.e
    BY <1>3, <1>4, Installed DEF AtRest
<1>6. d.e.cursor \in 0..NoQuestion
    BY <1>3, ConductAssumption DEF AtRest, Pair, Engine, NoQuestion, ConductAssumption
<1>7. seen' = [seen EXCEPT !.owed = d.e.cursor]
    BY <1>5 DEF Complete
<1>8. said' \in {"nothing", "sound", "final"}
    BY DEF Complete, ConductInv
<1> QED  BY <1>3, <1>4, <1>6, <1>7, <1>8, NowFields, UncountedStep

LEMMA FailStep ==
    ASSUME ConductInv, Fail
    PROVE  ConductInv' /\ Evident
<1>1. PICK next \in Answers(Now) : Become(Settle(Now, FALSE, "none", next))
    BY DEF Fail
<1> DEFINE d == Settle(Now, FALSE, "none", next)
<1>2. AtRest(Now) /\ FALSE \in BOOLEAN /\ next \in {"user", "direct"}
      /\ "none" \in Outcomes(Now)
    BY AnswersAreTwo DEF ConductInv, Outcomes
<1>3. /\ AtRest(d) /\ SameCounts(Now, d)
      /\ d.m.waiting => Now.m.waiting \/ FALSE
      /\ d.e.cursor \in {Now.e.cursor, Now.e.cursor + 1}
    BY <1>2, SettleKeepsReady
<1>4. Become(d) /\ seen' = seen /\ said' \in {"nothing", "sound", "final"}
    BY <1>1 DEF Fail, ConductInv
<1> HIDE DEF d
<1> QED  BY <1>3, <1>4, NowFields, SilentStep

LEMMA GraceExpiresStep ==
    ASSUME ConductInv, GraceExpires
    PROVE  ConductInv' /\ Evident
<1> DEFINE g == CancelGrace(Now)
           a == Advance(g)
           d == Continue(a)
<1>1. AtRest(Now) /\ Now \in Pair /\ HasNext(Now)
    BY NowFields DEF GraceExpires, ConductInv, AtRest
<1>2. Calm(Now, g) /\ g.e.grace = "none"
    BY <1>1, CancelGraceIsCalm
<1>3. seen' = seen /\ said' \in {"nothing", "sound", "final"}
    BY DEF GraceExpires, ConductInv
<1>4. CASE engine.turn # "none"
    <2>1. Become(g)
        BY <1>4 DEF GraceExpires
    <2> HIDE DEF g
    <2> QED  BY <1>2, <1>3, <2>1, CalmStep
<1>5. CASE engine.turn = "none"
    <2>1. Become(d)
        BY <1>5 DEF GraceExpires
    <2> HIDE DEF g
    <2>2. g \in Pair /\ HasNext(g) /\ g.e.cursor = engine.cursor
        BY <1>1, <1>2, NowFields DEF Calm, SamePlace, HasNext
    <2>3. Steady(g, a) /\ a.e.grace = "none" /\ a \in Pair
        BY <1>2, <2>2, AdvanceIsSteady DEF Steady
    <2> HIDE DEF a
    <2>4. Calm(a, d)
        BY <2>3, ContinueIsCalm
    <2>5. AtRest(g)
        BY <1>1, <1>2, CalmKeepsReady
    <2>6. AtRest(a)
        BY <2>3, <2>5, SameEndKeepsWhole DEF Steady, AtRest, SameEnd
    <2>7. AtRest(d)
        BY <2>4, <2>6, CalmKeepsReady
    <2>8. SameCounts(Now, d)
        BY <1>2, <2>3, <2>4, ZenonT(30) DEF Calm, Steady, SameCounts
    <2>9. d.e.cursor \in {engine.cursor, engine.cursor + 1} /\ (d.m.waiting => media.waiting)
        BY <1>2, <2>2, <2>3, <2>4, NowFields DEF Calm, Steady, SamePlace
    <2> HIDE DEF d
    <2> QED  BY <1>3, <2>1, <2>7, <2>8, <2>9, SilentStep
<1> QED  BY <1>4, <1>5

LEMMA SpeakStep ==
    ASSUME ConductInv, Speak
    PROVE  ConductInv' /\ Evident
<1> DEFINE d == LeaveWaiting(Now)
<1>1. AtRest(Now) /\ Now \in Pair
    BY DEF ConductInv, AtRest
<1>2. Calm(Now, d) /\ ~d.m.waiting
    BY <1>1, LeaveWaitingIsCalm
<1>3. Become(d) /\ seen' = [seen EXCEPT !.owed = NoQuestion] /\ Sound
    BY DEF Speak
<1>4. NoQuestion \in 0..NoQuestion
    BY ConductAssumption DEF ConductAssumption, NoQuestion
<1> HIDE DEF d
<1>5. AtRest(d) /\ SameCounts(Now, d) /\ d.e.cursor = engine.cursor
    BY <1>1, <1>2, CalmKeepsReady, NowFields DEF Calm, SamePlace
<1> QED  BY <1>2, <1>3, <1>4, <1>5, SaidAfterSound, UncountedStep

LEMMA BargeInStep ==
    ASSUME ConductInv, BargeIn
    PROVE  ConductInv' /\ Evident
<1> DEFINE d == IF Now.m.speaking THEN OnBargeIn(Now) ELSE LeaveWaiting(Now)
<1>1. AtRest(Now)
    BY DEF ConductInv
<1>2. /\ AtRest(d) /\ SameCounts(Now, d) /\ d.e.cursor = Now.e.cursor
      /\ ~d.m.waiting
    BY <1>1, BargeInKeepsReady
<1>3. Become(d) /\ seen' = [seen EXCEPT !.owed = NoQuestion] /\ Sound
    BY NowFields DEF BargeIn
<1>4. NoQuestion \in 0..NoQuestion
    BY ConductAssumption DEF ConductAssumption, NoQuestion
<1> HIDE DEF d
<1> QED  BY <1>2, <1>3, <1>4, NowFields, SaidAfterSound, UncountedStep

LEMMA AsrPartialStep ==
    ASSUME ConductInv, AsrPartial
    PROVE  ConductInv' /\ Evident
<1>1. Calm(Now, CancelGrace(Now))
    BY CancelGraceIsCalm DEF ConductInv, AtRest
<1>2. Become(CancelGrace(Now)) /\ seen' = seen /\ Sound
    BY DEF AsrPartial
<1> QED  BY <1>1, <1>2, SaidAfterSound, CalmStep

LEMMA AsrFinalStep ==
    ASSUME ConductInv, NEW text \in BOOLEAN, AsrFinal(text)
    PROVE  ConductInv' /\ Evident
<1> DEFINE g == CancelGrace(Now)
           c == [g EXCEPT !.e.held = text]
           d == IF text THEN Judge(c) ELSE c
           late == text /\ ~seen.inTurn /\ media.judging
<1>1. AtRest(Now) /\ Now \in Pair
    BY DEF ConductInv, AtRest
<1>2. Calm(Now, g) /\ g \in Pair
    BY <1>1, CancelGraceIsCalm DEF Calm
<1>3. Become(d) /\ said' = "final"
    BY DEF AsrFinal
<1>4. seen' = [seen EXCEPT
                 !.inTurn = @ \/ text,
                 !.older = late \/ (@ /\ (media.judging \/ ~media'.judging)),
                 !.chain = IF late THEN 0 ELSE @]
    BY DEF AsrFinal
<1> HIDE DEF g
<1>5. c \in Pair
    BY <1>2, ZenonT(30) DEF Pair, Engine
<1>6. c.m = g.m /\ c.e.turn = g.e.turn /\ c.e.suppress = g.e.suppress
      /\ c.e.cursor = g.e.cursor /\ c.e.grace = g.e.grace
    BY <1>2, ZenonT(30) DEF Pair, Engine
<1> HIDE DEF c
<1>7. Calm(Now, c)
    BY <1>2, <1>5, <1>6, EngineStepIsCalm, CalmIsTransitive
<1>8. AtRest(c)
    BY <1>1, <1>7, CalmKeepsReady
<1>9. /\ c.m.negative = media.negative /\ c.m.judged = media.judged
      /\ c.m.judging = media.judging /\ c.m.valid = media.valid
      /\ c.m.streak = media.streak /\ c.m.cursor = media.cursor
      /\ c.e.cursor = engine.cursor /\ (c.m.waiting => media.waiting)
    BY <1>7, NowFields DEF Calm, SameCounts, SamePlace
<1>10. /\ AtRest(d) /\ d.e = c.e /\ d.m.waiting = c.m.waiting
       /\ d.m.cursor = c.m.cursor /\ d.m.negative = c.m.negative
       /\ ~text \/ c.m.judged => SameJudge(c, d)
       /\ text /\ ~c.m.judged /\ c.m.judging =>
             ~d.m.judged /\ d.m.judging /\ ~d.m.valid /\ d.m.streak = 0
       /\ text /\ ~c.m.judged /\ ~c.m.judging =>
             d.m.judged /\ d.m.judging /\ d.m.valid /\ d.m.streak = c.m.streak
    <2>1. CASE text
        BY <1>8, <2>1, JudgeKeepsReady
    <2>2. CASE ~text
        BY <1>8, <2>2 DEF SameJudge
    <2> QED  BY <2>1, <2>2
<1> HIDE DEF d
<1>11. Now' = d /\ engine' = d.e /\ media' = d.m
    BY <1>3, <1>10, Installed DEF AtRest
<1>12. /\ engine'.cursor = engine.cursor /\ media'.cursor = media.cursor
       /\ media'.waiting => media.waiting
       /\ media'.negative = media.negative
       /\ ~text \/ media.judged =>
            /\ media'.judged = media.judged /\ media'.judging = media.judging
            /\ media'.valid = media.valid /\ media'.streak = media.streak
       /\ text /\ ~media.judged /\ media.judging =>
             ~media'.judged /\ media'.judging /\ ~media'.valid /\ media'.streak = 0
       /\ text /\ ~media.judged /\ ~media.judging =>
             media'.judged /\ media'.judging /\ media'.valid
             /\ media'.streak = media.streak
    BY <1>9, <1>10, <1>11, ZenonT(30) DEF SameJudge
<1>13. seen \in Seen /\ Evidence
    BY DEF ConductInv
<1>14. /\ media.judged \in BOOLEAN /\ media.judging \in BOOLEAN
       /\ media.valid \in BOOLEAN /\ media'.judging \in BOOLEAN
    BY <1>1, <1>10, <1>11, NowFields DEF AtRest, Pair, Media
<1>15. /\ seen'.inTurn = (seen.inTurn \/ text) /\ seen'.owed = seen.owed
       /\ seen'.older = (late \/ (seen.older /\ (media.judging \/ ~media'.judging)))
       /\ late => seen'.chain = 0
       /\ ~late => seen'.chain = seen.chain
    BY <1>4, <1>13, ZenonT(30) DEF Seen
<1>16. seen' \in Seen
    <2>1. (IF late THEN 0 ELSE seen.chain) \in 0..(ChatterTurns - 1)
        BY <1>13, ConductAssumption DEF Seen, ConductAssumption
    <2>2. (seen.inTurn \/ text) \in BOOLEAN
          /\ (late \/ (seen.older /\ (media.judging \/ ~media'.judging))) \in BOOLEAN
        BY <1>13, <1>14 DEF Seen
    <2> HIDE DEF late
    <2> QED  BY <1>4, <1>13, <2>1, <2>2, ZenonT(30) DEF Seen
<1>17. Evidence'
    <2>1. media'.cursor <= engine'.cursor
        BY <1>12, <1>13 DEF Evidence
    <2>2. media'.waiting /\ media'.cursor = engine'.cursor => seen'.owed = engine'.cursor
        BY <1>12, <1>13, <1>15, ZenonT(30) DEF Evidence
    <2>3. CASE ~text \/ media.judged
        BY <1>12, <1>13, <1>15, <2>1, <2>2, <2>3, ZenonT(30) DEF Evidence
    <2>4. CASE text /\ ~media.judged /\ media.judging
        BY <1>12, <1>13, <1>15, <2>1, <2>2, <2>4, ZenonT(30) DEF Evidence
    <2>5. CASE text /\ ~media.judged /\ ~media.judging
        BY <1>12, <1>13, <1>15, <2>1, <2>2, <2>5, ZenonT(30) DEF Evidence
    <2> QED  BY <1>14, <2>3, <2>4, <2>5
<1>18. AtRest(Now)'
    BY <1>10, <1>11
<1> QED  BY <1>3, <1>12, <1>16, <1>17, <1>18 DEF ConductInv, Evident

LEMMA TurnEndStep ==
    ASSUME ConductInv, TurnEnd
    PROVE  ConductInv' /\ Evident
<1> DEFINE c == [Now EXCEPT !.e.interrupted = FALSE, !.m.judged = FALSE]
           h == [c EXCEPT !.e.held = FALSE]
<1>1. PICK as \in Answers(Now) :
        Become(IF Busy(c) \/ c.e.suppress THEN c
               ELSE IF c.e.held THEN Respond(h, as) ELSE Continue(c))
    BY DEF TurnEnd
<1>2. AtRest(Now) /\ Now \in Pair /\ as \in {"user", "direct"}
    BY AnswersAreTwo DEF ConductInv, AtRest
<1>3. c \in Pair
    BY <1>2, ZenonT(30) DEF Pair, Engine, Media
<1>4. c.e.turn = Now.e.turn /\ c.e.suppress = Now.e.suppress
      /\ c.e.cursor = Now.e.cursor /\ c.e.grace = Now.e.grace
    BY <1>2, ZenonT(30) DEF Pair, Engine, Media
<1>5. /\ c.m.forced = Now.m.forced /\ c.m.closed = Now.m.closed
      /\ c.m.timer = Now.m.timer /\ c.m.draining = Now.m.draining
      /\ c.m.playing = Now.m.playing /\ c.m.guard = Now.m.guard
      /\ c.m.negative = Now.m.negative /\ ~c.m.judged
      /\ c.m.judging = Now.m.judging /\ c.m.valid = Now.m.valid
      /\ c.m.streak = Now.m.streak /\ c.m.cursor = Now.m.cursor
      /\ c.m.waiting = Now.m.waiting
    BY <1>2, ZenonT(30) DEF Pair, Engine, Media
<1> HIDE DEF c
<1>6. AtRest(c)
    <2>1. SameEnd(Now, c)
        BY <1>4, <1>5, ZenonT(30) DEF SameEnd
    <2> QED  BY <1>2, <1>3, <1>4, <1>5, <2>1, SameEndKeepsWhole DEF AtRest, HasNext
<1>7. Calm(c, h) /\ h \in Pair
    <2>1. h \in Pair
        BY <1>3, ZenonT(30) DEF Pair, Engine
    <2>2. h.m = c.m /\ h.e.turn = c.e.turn /\ h.e.suppress = c.e.suppress
          /\ h.e.cursor = c.e.cursor /\ h.e.grace = c.e.grace
        BY <1>3, ZenonT(30) DEF Pair, Engine
    <2> HIDE DEF h
    <2> QED  BY <2>1, <2>2, EngineStepIsCalm
<1> HIDE DEF h
<1>8. PICK d : Become(d) /\ Calm(c, d)
    <2>1. Calm(c, Respond(h, as))
        BY <1>2, <1>7, RespondIsCalm, CalmIsTransitive
    <2>2. Calm(c, c) /\ Calm(c, Continue(c))
        BY <1>3, CalmToItself, ContinueIsCalm
    <2> QED  BY <1>1, <2>1, <2>2
<1>9. AtRest(d) /\ Now' = d /\ engine' = d.e /\ media' = d.m
    BY <1>6, <1>8, CalmKeepsReady, Installed DEF Calm
<1>10. /\ engine'.cursor = engine.cursor /\ media'.cursor = media.cursor
       /\ media'.waiting => media.waiting
       /\ media'.negative = media.negative /\ ~media'.judged
       /\ media'.judging = media.judging /\ media'.valid = media.valid
       /\ media'.streak = media.streak
    BY <1>4, <1>5, <1>8, <1>9, NowFields, ZenonT(30) DEF Calm, SameCounts, SamePlace
<1>11. seen \in Seen /\ Evidence
    BY DEF ConductInv
<1>12. /\ seen'.owed = seen.owed /\ ~seen'.inTurn /\ seen'.older = seen.older
       /\ seen'.chain = seen.chain /\ seen' \in Seen
    BY <1>11 DEF TurnEnd, Seen
<1>13. media'.cursor <= engine'.cursor
    BY <1>10, <1>11 DEF Evidence
<1>14. Evidence'
    BY <1>10, <1>11, <1>12, <1>13, ZenonT(30) DEF Evidence
<1>15. said' = "nothing"
    BY DEF TurnEnd
<1> QED  BY <1>9, <1>10, <1>12, <1>14, <1>15 DEF ConductInv, Evident

LEMMA VerdictStep ==
    ASSUME ConductInv, NEW kind \in {"other", "unrelated", "severe"}, Verdict(kind)
    PROVE  ConductInv' /\ Evident
<1> DEFINE d == ApplyVerdict(Now, kind)
<1>1. AtRest(Now) /\ ~Now.m.closed /\ media.judging /\ Now \in Pair
    BY NowFields DEF ConductInv, Verdict, Open, AtRest
<1>2. /\ AtRest(d) /\ SamePlace(Now, d) /\ d.m.cursor = media.cursor
      /\ d.m.judged = media.judged /\ ~d.m.judging /\ ~d.m.valid
      /\ ~media.valid \/ kind = "severe" =>
            d.m.streak = media.streak /\ d.m.negative = media.negative
      /\ media.valid /\ kind = "other" =>
            d.m.streak = 0 /\ d.m.negative = media.negative
      /\ media.valid /\ kind = "unrelated" =>
            /\ media.streak + 1 < ChatterTurns =>
                  d.m.streak = media.streak + 1 /\ d.m.negative = media.negative
            /\ ~(media.streak + 1 < ChatterTurns) => d.m.streak = 0
    BY <1>1, VerdictKeepsReady, NowFields
<1>3. Become(d)
    BY DEF Verdict
<1>4. seen' = [seen EXCEPT
                 !.older = FALSE,
                 !.chain = IF kind = "severe" THEN @
                           ELSE IF kind = "other" \/ seen.older THEN 0
                           ELSE (@ + 1) % ChatterTurns]
    BY DEF Verdict
<1>5. said' \in {"nothing", "sound", "final"} /\ seen \in Seen /\ Evidence
    BY DEF Verdict, ConductInv
<1> HIDE DEF d
<1>6. Now' = d /\ engine' = d.e /\ media' = d.m
    BY <1>2, <1>3, Installed DEF AtRest
<1>7. /\ engine'.cursor = engine.cursor /\ media'.cursor = media.cursor
      /\ media'.waiting => media.waiting
      /\ media'.judged = media.judged /\ ~media'.judging /\ ~media'.valid
    BY <1>2, <1>6, NowFields DEF SamePlace
<1>8. /\ ~seen'.older /\ seen'.inTurn = seen.inTurn /\ seen'.owed = seen.owed
      /\ kind = "severe" => seen'.chain = seen.chain
      /\ kind = "other" \/ (kind = "unrelated" /\ seen.older) => seen'.chain = 0
      /\ kind = "unrelated" /\ ~seen.older =>
            seen'.chain = (seen.chain + 1) % ChatterTurns
    BY <1>4, <1>5 DEF Seen
<1>9. seen.chain \in 0..(ChatterTurns - 1) /\ media.valid \in BOOLEAN
    BY <1>1, <1>5, NowFields DEF Seen, Pair, Media
<1>10. /\ seen.chain + 1 < ChatterTurns => (seen.chain + 1) % ChatterTurns = seen.chain + 1
       /\ ~(seen.chain + 1 < ChatterTurns) =>
            (seen.chain + 1) % ChatterTurns = 0 /\ seen.chain + 1 = ChatterTurns
       /\ (seen.chain + 1) % ChatterTurns \in 0..(ChatterTurns - 1)
       /\ 0 \in 0..(ChatterTurns - 1)
    BY <1>9, ConductAssumption DEF ConductAssumption
<1>11. /\ media.valid => ~seen.older
       /\ ~media.valid => seen.older
       /\ seen.older => seen.chain = 0
       /\ media.streak = seen.chain
    BY <1>1, <1>5 DEF Evidence
<1>12. media'.streak = seen'.chain
    <2>1. CASE kind = "severe"
        BY <1>2, <1>6, <1>8, <1>11, <2>1
    <2>2. CASE kind # "severe" /\ ~media.valid
        BY <1>2, <1>6, <1>8, <1>11, <2>2
    <2>3. CASE kind = "other" /\ media.valid
        BY <1>2, <1>6, <1>8, <2>3
    <2>4. CASE kind = "unrelated" /\ media.valid
        BY <1>2, <1>6, <1>8, <1>10, <1>11, <2>4
    <2> QED  BY <1>9, <2>1, <2>2, <2>3, <2>4
<1>13. Evident
    <2>1. ASSUME media'.negative # media.negative
          PROVE  seen.chain + 1 = ChatterTurns /\ ~seen.older
        BY <1>2, <1>6, <1>9, <1>10, <1>11, <2>1
    <2> QED  BY <1>1, <1>7, <2>1 DEF Evident
<1>14. media'.cursor <= engine'.cursor
    BY <1>5, <1>7 DEF Evidence
<1>15. Evidence'
    BY <1>5, <1>7, <1>8, <1>12, <1>14, ZenonT(30) DEF Evidence
<1>16. seen' \in Seen
    <2> DEFINE n == IF kind = "severe" THEN seen.chain
                    ELSE IF kind = "other" \/ seen.older THEN 0
                    ELSE (seen.chain + 1) % ChatterTurns
    <2>1. n \in 0..(ChatterTurns - 1)
        BY <1>9, <1>10
    <2>2. seen' = [seen EXCEPT !.older = FALSE, !.chain = n]
        BY <1>4
    <2> HIDE DEF n
    <2> QED  BY <1>5, <2>1, <2>2, ZenonT(30) DEF Seen
<1>17. AtRest(Now)'
    BY <1>2, <1>6
<1> QED  BY <1>5, <1>13, <1>15, <1>16, <1>17 DEF ConductInv

LEMMA TickStep ==
    ASSUME ConductInv, NEW hung \in BOOLEAN, NEW long \in BOOLEAN, NEW voiced \in BOOLEAN,
           Tick(hung, long, voiced)
    PROVE  ConductInv' /\ Evident
<1> DEFINE d == WatchdogTick(Now, hung, long, voiced)
<1>1. AtRest(Now) /\ ~Now.m.closed /\ (long => Now.e.grace = "none") /\ Now \in Pair
    BY NowFields DEF ConductInv, Tick, Open, AtRest
<1>2. /\ AtRest(d) /\ SameJudge(Now, d) /\ d.m.cursor = engine.cursor
      /\ d.e.cursor \in {engine.cursor, engine.cursor + 1}
      /\ d.m.waiting => /\ media.waiting /\ media.cursor = engine.cursor
                        /\ d.e.cursor = engine.cursor
      /\ d.m.negative # media.negative => media.waiting /\ media.cursor = engine.cursor
    BY <1>1, TickKeepsReady, NowFields
<1>3. Become(d) /\ seen' = seen /\ said' = said
    BY DEF Tick
<1> HIDE DEF d
<1>4. Now' = d /\ engine' = d.e /\ media' = d.m
    BY <1>2, <1>3, Installed DEF AtRest
<1>5. Evidence /\ seen \in Seen /\ engine.cursor \in Nat /\ media.judging \in BOOLEAN
    BY <1>1, NowFields DEF ConductInv, Pair, Engine, Media
<1>6. media'.cursor <= engine'.cursor
    BY <1>2, <1>4, <1>5
<1>7. /\ media'.judged = media.judged /\ media'.judging = media.judging
      /\ media'.valid = media.valid /\ media'.streak = media.streak
    BY <1>2, <1>4, NowFields DEF SameJudge
<1>8. media'.waiting /\ media'.cursor = engine'.cursor => seen'.owed = engine'.cursor
    BY <1>2, <1>3, <1>4, <1>5 DEF Evidence
<1>9. Evidence'
    BY <1>3, <1>5, <1>6, <1>7, <1>8, ZenonT(30) DEF Evidence
<1>10. Evident
    BY <1>2, <1>4, <1>5, <1>7, ZenonT(30) DEF Evident, Evidence
<1>11. AtRest(Now)' /\ said' \in {"nothing", "sound", "final"} /\ seen' \in Seen
    BY <1>2, <1>3, <1>4 DEF ConductInv
<1> QED  BY <1>9, <1>10, <1>11 DEF ConductInv

LEMMA ForcedTimerStep ==
    ASSUME ConductInv, ForcedTimer
    PROVE  ConductInv' /\ Evident
<1> DEFINE d == Teardown(Now)
<1>1. Now \in Pair
    BY DEF ConductInv, AtRest
<1>2. /\ AtRest(d) /\ SameCounts(Now, d)
      /\ d.e.cursor = Now.e.cursor /\ (d.m.waiting => Now.m.waiting)
    BY <1>1, TeardownKeepsReady
<1>3. Become(d) /\ seen' = seen /\ said' \in {"nothing", "sound", "final"}
    BY DEF ForcedTimer, ConductInv
<1> HIDE DEF d
<1> QED  BY <1>2, <1>3, NowFields, SilentStep

LEMMA ConductStep ==
    ASSUME ConductInv, [ConductNext]_conductVars
    PROVE  ConductInv' /\ Evident
<1>1. CASE UNCHANGED conductVars
    <2>1. Now' = Now
        BY <1>1 DEF conductVars, Now
    <2> QED  BY <1>1, <2>1 DEF conductVars, ConductInv, Evidence, Evident
<1>2. CASE ConductNext
    BY <1>2, AudioOutStep, LlmEndsStep, CompleteStep, FailStep, GraceExpiresStep,
       SpeakStep, BargeInStep, AsrPartialStep, AsrFinalStep, TurnEndStep,
       VerdictStep, TickStep, ForcedTimerStep
    DEF ConductNext, Recognised, Judged, Ticks
<1> QED  BY <1>1, <1>2

-----------------------------------------------------------------------------
(* Theorems                                                                *)

LEMMA ConductInvariance == ConductSpec => []ConductInv
<1>1. ConductInv /\ [ConductNext]_conductVars => ConductInv'
    BY ConductStep
<1> QED  BY <1>1, ConductInvInit, PTL DEF ConductSpec

(* Every field stays in its type through all calls of either object: the   *)
(* counters within their limits, the cursor on a question.                 *)
THEOREM ConductIsTyped == ConductSpec => []ConductTypeOK
<1>1. ConductInv => ConductTypeOK
    <2> SUFFICES ASSUME ConductInv PROVE ConductTypeOK
        OBVIOUS
    <2>1. engine \in Engine /\ media \in Media /\ engine.grace # "intent"
        BY NowFields DEF ConductInv, AtRest, Pair
    <2>2. engine \in [turn : TurnKinds, phase : {"llm", "tts"}, sounded : BOOLEAN,
                   held : BOOLEAN, interrupted : BOOLEAN, suppress : BOOLEAN,
                   cursor : 0..(Questions - 1), answerSeen : BOOLEAN,
                   stall : 0..(VoicedStallMax - 1),
                   grace : {"none", "armed"}, autoNext : BOOLEAN]
        BY <2>1 DEF Engine
    <2> QED  BY <2>1, <2>2, ZenonT(30) DEF ConductTypeOK, ConductInv, Media, Seen
<1> QED  BY <1>1, ConductInvariance, PTL

(* However many turns end, are cut or fail between the forced end and the  *)
(* close, it keeps its timer, and what drains stays drained.               *)
THEOREM TheEndIsFinal == ConductSpec => []ForcedEndIsFinal
<1>1. ConductInv => ForcedEndIsFinal
    BY NowFields DEF ConductInv, AtRest, Whole, Core, ForcedEndIsFinal, Open
<1> QED  BY <1>1, ConductInvariance, PTL

(* The guard is set with the turn it protects and gone when that turn is.  *)
THEOREM TheGuardFollows == ConductSpec => []GuardFollowsTurn
<1>1. ConductInv => GuardFollowsTurn
    BY NowFields DEF ConductInv, AtRest, Whole, Core, GuardFollowsTurn, Open
<1> QED  BY <1>1, ConductInvariance, PTL

(* Nothing is counted against the candidate without its evidence.          *)
THEOREM CountsAreEarned == ConductSpec => CountsHaveEvidence
<1>1. ConductInv /\ [ConductNext]_conductVars =>
        [ media'.negative # media.negative =>
          IF media.judging /\ ~media'.judging
          THEN seen.chain + 1 = ChatterTurns /\ ~seen.older
          ELSE seen.owed = engine.cursor ]_conductVars
    BY ConductStep DEF Evident
<1> QED  BY <1>1, ConductInvariance, PTL DEF ConductSpec, CountsHaveEvidence


(***************************************************************************)
(* TurnMetrics                                                             *)
(***************************************************************************)

\* What stands for nothing is no figure.
AbsentIsNothing ==
    /\ Absent \notin EngineMetrics /\ Absent \notin Endpoints
    /\ Absent \notin Browsers /\ Absent \notin Completes

-----------------------------------------------------------------------------
(* The engine's records                                                      *)

\* What an older version a says of the engine's part, m says too.
Below(a, m) ==
    /\ a.ack # "open" => m.ack = a.ack
    /\ a.heard \subseteq m.heard
    /\ a.whole => m.whole

EngineInv ==
    /\ gpuMetrics \in [Turns -> SUBSET Segments]
    /\ metric \in [Turns -> EngineMetrics \cup {Absent}]
    /\ cancelAck \in Turns \cup {0}
    /\ calls \in Seq(Turns)
    /\ \A t \in records : t \in Turns /\ metric[t] # Absent
    /\ cancelAck # 0 => metric[cancelAck] # Absent /\ metric[cancelAck].ack = "open"
    /\ \A i \in 1..Len(calls) : metric[calls[i]] # Absent
    /\ \A t \in Turns : metric[t] # Absent => metric[t].heard \subseteq gpuMetrics[t]

\* The records only gain.
Gains ==
    \A t \in Turns : metric[t] # Absent =>
        metric'[t] # Absent /\ Below(metric[t], metric'[t])

LEMMA BelowItself == ASSUME NEW a PROVE Below(a, a)
    BY DEF Below

LEMMA BelowFurther ==
    ASSUME NEW a, NEW b, NEW c, Below(a, b), Below(b, c)
    PROVE  Below(a, c)
    BY DEF Below

LEMMA AppliedFacts ==
    ASSUME NEW m \in EngineMetrics, NEW t, NEW S \in SUBSET Segments, m.heard \subseteq S
    PROVE  /\ Applied(m, t, S) \in EngineMetrics /\ Below(m, Applied(m, t, S))
           /\ Applied(m, t, S).heard \subseteq S /\ Applied(m, t, S).ack = m.ack
<1> DEFINE w == m.whole \/ AllHeard(t, S)
<1>1. m.whole \in BOOLEAN /\ m.bargeIn \in BOOLEAN /\ m.ack \in {"open", "acked", "timeout"}
      /\ m.heard \subseteq Segments
    BY Zenon DEF EngineMetrics
<1>2. CASE S = {}
    <2>1. Applied(m, t, S) = m
        BY <1>2, Zenon DEF Applied
    <2> QED  BY <1>2, <2>1, BelowItself, Zenon
<1>3. CASE S # {}
    <2>0. Applied(m, t, S) = [m EXCEPT !.heard = S, !.whole = w]
        BY <1>3, Zenon DEF Applied
    <2>w. w \in BOOLEAN /\ (m.whole => w)
        BY <1>1, Zenon DEF AllHeard
    <2> HIDE DEF w
    <2>1. Applied(m, t, S) = [bargeIn |-> m.bargeIn, ack |-> m.ack, heard |-> S, whole |-> w]
        BY <2>0 DEF EngineMetrics
    <2> QED
        BY <1>1, <2>1, <2>w DEF EngineMetrics, Below
<1> QED  BY <1>2, <1>3

LEMMA EngineStarts == MetricsInit => EngineInv
    BY DEF MetricsInit, EngineInv, Turns

LEMMA ReportGains ==
    ASSUME AbsentIsNothing, EngineInv, NEW t \in Turns, NEW barged \in BOOLEAN,
           ReportMetrics(t, barged)
    PROVE  EngineInv' /\ Gains
<1> DEFINE blank == [bargeIn |-> barged, ack |-> "open", heard |-> {}, whole |-> FALSE]
           new == Applied(blank, t, gpuMetrics[t])
<1>1. blank \in EngineMetrics /\ blank.heard \subseteq gpuMetrics[t] /\ blank.ack = "open"
      /\ gpuMetrics[t] \in SUBSET Segments
    BY DEF EngineMetrics, EngineInv
<1>2. new \in EngineMetrics /\ new.heard \subseteq gpuMetrics[t] /\ new.ack = "open"
    <2> HIDE DEF blank
    <2> QED  BY <1>1, AppliedFacts
<1> DEFINE Late(u) == barged /\ u = cancelAck
<1>3. /\ metric[t] = Absent /\ metric' = [u \in Turns |->
           IF u = t THEN new ELSE IF Late(u) THEN [metric[u] EXCEPT !.ack = "timeout"]
           ELSE metric[u]]
      /\ records' = records \cup {t}
      /\ cancelAck' = IF barged THEN t ELSE cancelAck
      /\ calls' = IF barged /\ cancelAck # 0 THEN <<t, cancelAck>> ELSE <<t>>
      /\ UNCHANGED gpuMetrics
    BY Zenon DEF ReportMetrics, engineVars
<1> HIDE DEF new
<1>4. new # Absent
    BY <1>2 DEF AbsentIsNothing
<1>5. ASSUME NEW u \in Turns, u # t, metric[u] # Absent
      PROVE  /\ metric'[u] # Absent /\ metric'[u] \in EngineMetrics
             /\ Below(metric[u], metric'[u]) /\ metric'[u].heard = metric[u].heard
             /\ ~Late(u) => metric'[u] = metric[u]
    <2>1. metric[u] \in EngineMetrics
        BY <1>5 DEF EngineInv
    <2>2. CASE Late(u)
        <3>0. u # 0
            BY DEF Turns
        <3>a. metric'[u] = [metric[u] EXCEPT !.ack = "timeout"]
            BY <1>3, <1>5, <2>2, Zenon
        <3>1. metric'[u] = [metric[u] EXCEPT !.ack = "timeout"] /\ metric[u].ack = "open"
            BY <2>2, <3>0, <3>a DEF EngineInv
        <3>2. /\ metric'[u] \in EngineMetrics /\ metric'[u].heard = metric[u].heard
              /\ metric'[u].whole = metric[u].whole
            BY <2>1, <3>1 DEF EngineMetrics
        <3> QED  BY <2>2, <3>1, <3>2 DEF Below, AbsentIsNothing
    <2>3. CASE ~Late(u)
        <3>1. metric'[u] = metric[u]
            BY <1>3, <1>5, <2>3
        <3> QED  BY <1>5, <2>1, <3>1, BelowItself
    <2> QED  BY <2>2, <2>3
<1>6. metric'[t] = new
    BY <1>3
<1>7. Gains
    BY <1>3, <1>5 DEF Gains
<1>8. metric' \in [Turns -> EngineMetrics \cup {Absent}]
    <2>1. \A u \in Turns : metric'[u] \in EngineMetrics \cup {Absent}
        <3> SUFFICES ASSUME NEW u \in Turns PROVE metric'[u] \in EngineMetrics \cup {Absent}
            OBVIOUS
        <3>1. CASE u = t
            BY <1>2, <1>6, <3>1
        <3>2. CASE u # t /\ metric[u] # Absent
            BY <1>5, <3>2
        <3>3. CASE u # t /\ metric[u] = Absent
            <4>1. ~Late(u)
                BY <3>3 DEF EngineInv, Turns
            <4> QED  BY <1>3, <3>3, <4>1
        <3> QED  BY <3>1, <3>2, <3>3
    <2> QED  BY <1>3, <2>1
<1>9. /\ \A u \in records' : u \in Turns /\ metric'[u] # Absent
      /\ cancelAck' # 0 => metric'[cancelAck'] # Absent /\ metric'[cancelAck'].ack = "open"
    <2>1. \A u \in records' : u \in Turns /\ metric'[u] # Absent
        BY <1>3, <1>4, <1>5, <1>6 DEF EngineInv
    <2>2. CASE barged
        BY <1>2, <1>3, <1>4, <1>6, <2>1, <2>2
    <2>3. CASE ~barged /\ cancelAck # 0
        <3>1. cancelAck \in Turns /\ metric[cancelAck] # Absent /\ metric[cancelAck].ack = "open"
              /\ cancelAck # t
            BY <1>3, <2>3 DEF EngineInv
        <3> QED  BY <1>3, <1>5, <2>1, <2>3, <3>1
    <2>4. CASE ~barged /\ cancelAck = 0
        BY <1>3, <2>1, <2>4
    <2> QED  BY <2>1, <2>2, <2>3, <2>4
<1>10. calls' \in Seq(Turns) /\ \A i \in 1..Len(calls') : metric'[calls'[i]] # Absent
    <2>1. CASE barged /\ cancelAck # 0
        <3>1. calls' = <<t, cancelAck>> /\ cancelAck \in Turns /\ cancelAck # t
              /\ metric[cancelAck] # Absent
            BY <1>3, <2>1 DEF EngineInv
        <3> QED  BY <1>4, <1>5, <1>6, <3>1
    <2>2. CASE ~(barged /\ cancelAck # 0)
        <3>1. calls' = <<t>>
            BY <1>3, <2>2
        <3> QED  BY <1>4, <1>6, <3>1
    <2> QED  BY <2>1, <2>2
<1>11. \A u \in Turns : metric'[u] # Absent => metric'[u].heard \subseteq gpuMetrics'[u]
    <2> SUFFICES ASSUME NEW u \in Turns, metric'[u] # Absent
                 PROVE  metric'[u].heard \subseteq gpuMetrics'[u]
        OBVIOUS
    <2>1. CASE u = t
        BY <1>2, <1>3, <1>6, <2>1
    <2>2. CASE u # t /\ metric[u] # Absent
        BY <1>3, <1>5, <2>2 DEF EngineInv
    <2>3. CASE u # t /\ metric[u] = Absent
        <3>1. ~Late(u)
            BY <2>3 DEF EngineInv, Turns
        <3> QED  BY <1>3, <2>3, <3>1
    <2> QED  BY <2>1, <2>2, <2>3
<1>12. cancelAck' \in Turns \cup {0} /\ gpuMetrics' \in [Turns -> SUBSET Segments]
    BY <1>3 DEF EngineInv
<1> QED  BY <1>7, <1>8, <1>9, <1>10, <1>11, <1>12 DEF EngineInv

\* One record m of a turn that was reported is replaced by a later one.
LEMMA OneGains ==
    ASSUME AbsentIsNothing, EngineInv, NEW t \in Turns, metric[t] # Absent, NEW m \in EngineMetrics,
           Below(metric[t], m), metric' = [metric EXCEPT ![t] = m]
    PROVE  Gains /\ metric' \in [Turns -> EngineMetrics \cup {Absent}]
           /\ \A u \in Turns : metric'[u] # Absent <=> metric[u] # Absent
<1>1. \A u \in Turns : metric'[u] = IF u = t THEN m ELSE metric[u]
    BY DEF EngineInv
<1>2. m # Absent
    BY DEF AbsentIsNothing
<1>3. Gains
    BY <1>1, <1>2, BelowItself DEF Gains
<1> QED  BY <1>1, <1>2, <1>3 DEF EngineInv

LEMMA SettleGains ==
    ASSUME AbsentIsNothing, EngineInv, NEW v \in {"acked", "timeout"}, SettleCancelAck(v)
    PROVE  EngineInv' /\ Gains
<1> DEFINE m == [metric[cancelAck] EXCEPT !.ack = v]
<1>1. /\ cancelAck \in Turns /\ metric[cancelAck] # Absent /\ metric[cancelAck].ack = "open"
      /\ metric[cancelAck] \in EngineMetrics
    BY DEF SettleCancelAck, EngineInv
<1>2. m \in EngineMetrics /\ Below(metric[cancelAck], m) /\ m.heard = metric[cancelAck].heard
    BY <1>1 DEF EngineMetrics, Below
<1>3. /\ metric' = [metric EXCEPT ![cancelAck] = m]
      /\ calls' = <<cancelAck>> /\ cancelAck' = 0 /\ UNCHANGED <<gpuMetrics, records>>
    BY DEF SettleCancelAck, EngineInv
<1> HIDE DEF m
<1>4. Gains /\ metric' \in [Turns -> EngineMetrics \cup {Absent}]
      /\ \A u \in Turns : metric'[u] # Absent <=> metric[u] # Absent
    BY <1>1, <1>2, <1>3, OneGains
<1>5. \A u \in Turns : metric'[u] # Absent => metric'[u].heard \subseteq gpuMetrics'[u]
    BY <1>1, <1>2, <1>3, <1>4 DEF EngineInv
<1>6. calls' \in Seq(Turns) /\ \A i \in 1..Len(calls') : metric'[calls'[i]] # Absent
    BY <1>1, <1>3, <1>4
<1> QED  BY <1>3, <1>4, <1>5, <1>6 DEF EngineInv

LEMMA GpuGains ==
    ASSUME AbsentIsNothing, EngineInv, NEW t \in Turns, NEW s \in Segments, NEW tail \in BOOLEAN,
           OnGpuTtsMetrics(t, s, tail)
    PROVE  EngineInv' /\ Gains
<1> DEFINE S == gpuMetrics[t] \cup {s}
           again == t \in records /\ (AllHeard(t, S) \/ tail)
           m == Applied(metric[t], t, S)
<1>1. /\ gpuMetrics' = [gpuMetrics EXCEPT ![t] = S]
      /\ metric' = IF again THEN [metric EXCEPT ![t] = m] ELSE metric
      /\ calls' = IF again THEN <<t>> ELSE <<>>
      /\ UNCHANGED <<records, cancelAck>>
    BY DEF OnGpuTtsMetrics
<1>2. S \in SUBSET Segments /\ gpuMetrics[t] \subseteq S
    BY DEF EngineInv
<1>3. \A u \in Turns : gpuMetrics[u] \subseteq gpuMetrics'[u]
      /\ gpuMetrics' \in [Turns -> SUBSET Segments] /\ gpuMetrics'[t] = S
    BY <1>1, <1>2 DEF EngineInv
<1>4. CASE again
    <2>1. metric[t] # Absent /\ metric[t] \in EngineMetrics /\ metric[t].heard \subseteq S
        BY <1>2, <1>4 DEF EngineInv
    <2>2. m \in EngineMetrics /\ Below(metric[t], m) /\ m.heard \subseteq S
          /\ m.ack = metric[t].ack
        BY <1>2, <2>1, AppliedFacts
    <2>3. metric' = [metric EXCEPT ![t] = m] /\ calls' = <<t>>
        BY <1>1, <1>4
    <2> HIDE DEF m, S, again
    <2>4. Gains /\ metric' \in [Turns -> EngineMetrics \cup {Absent}]
          /\ \A u \in Turns : metric'[u] # Absent <=> metric[u] # Absent
        BY <2>1, <2>2, <2>3, OneGains
    <2>5. \A u \in Turns : metric'[u] = IF u = t THEN m ELSE metric[u]
        BY <2>3 DEF EngineInv
    <2>6. \A u \in Turns : metric'[u] # Absent => metric'[u].heard \subseteq gpuMetrics'[u]
        BY <1>3, <2>2, <2>4, <2>5 DEF EngineInv
    <2>7. calls' \in Seq(Turns) /\ \A i \in 1..Len(calls') : metric'[calls'[i]] # Absent
        BY <2>1, <2>3, <2>4
    <2>8. cancelAck' # 0 => metric'[cancelAck'] # Absent /\ metric'[cancelAck'].ack = "open"
        BY <1>1, <2>2, <2>4, <2>5 DEF EngineInv
    <2> QED  BY <1>1, <1>3, <2>4, <2>6, <2>7, <2>8 DEF EngineInv
<1>5. CASE ~again
    <2>1. metric' = metric /\ calls' = <<>>
        BY <1>1, <1>5
    <2>2. Gains
        BY <2>1, BelowItself DEF Gains
    <2>3. \A u \in Turns : metric'[u] # Absent => metric'[u].heard \subseteq gpuMetrics'[u]
        BY <1>3, <2>1 DEF EngineInv
    <2>4. calls' \in Seq(Turns) /\ \A i \in 1..Len(calls') : metric'[calls'[i]] # Absent
        BY <2>1
    <2>5. UNCHANGED <<records, cancelAck, metric>>
        BY <1>1, <2>1
    <2> QED  BY <1>3, <2>2, <2>3, <2>4, <2>5 DEF EngineInv
<1> QED  BY <1>4, <1>5

\* Every other step leaves the records alone.
EngineRests ==
    /\ UNCHANGED <<gpuMetrics, metric, cancelAck>> /\ records' \subseteq records
    /\ \/ calls' = calls
       \/ calls # <<>> /\ calls' = Tail(calls)

LEMMA EngineSteps ==
    ASSUME MetricsNext
    PROVE  \/ EngineRests
           \/ \E t \in Turns, b \in BOOLEAN : ReportMetrics(t, b)
           \/ \E v \in {"acked", "timeout"} : SettleCancelAck(v)
           \/ \E t \in Turns, s \in Segments, b \in BOOLEAN : OnGpuTtsMetrics(t, s, b)
<1> USE DEF EngineRests, engineVars, metricsVars
<1>1. CASE StartTurn
    BY <1>1 DEF StartTurn
<1>2. CASE OnAudioOut \/ DetectBargeIn \/ OnRecoveryWindowElapsed \/ SessionEnds
           \/ \E b \in BOOLEAN : OnTurnEnd(b)
    BY <1>2 DEF OnAudioOut, DetectBargeIn, OnRecoveryWindowElapsed, SessionEnds, OnTurnEnd
<1>3. CASE OnMetrics
    <2>1. UNCHANGED engineVars /\ calls # <<>> /\ calls' = Tail(calls)
        BY <1>3, Zenon DEF OnMetrics
    <2> QED  BY <2>1
<1>4. CASE \E t \in Turns : DispatchSentence(t) \/ OnTurnAudioBegin(t)
    BY <1>4 DEF DispatchSentence, OnTurnAudioBegin
<1>5. CASE \E t \in Turns, measured \in Browsers : NoteUxTelemetry(t, measured)
    <2>1. UNCHANGED engineVars /\ UNCHANGED calls
        BY <1>5, Zenon DEF NoteUxTelemetry
    <2>2. /\ gpuMetrics' = gpuMetrics /\ metric' = metric /\ cancelAck' = cancelAck
          /\ records' = records /\ calls' = calls
        BY <2>1
    <2> QED  BY <2>2, Zenon
<1>6. CASE \E w \in 1..Len(puts) : WriteSnapshot(w) \/ Lands(w) \/ Fails(w) \/ LandsLate(w) \/ Returns(w)
    <2>1. UNCHANGED engineVars /\ UNCHANGED calls
        BY <1>6, Zenon DEF WriteSnapshot, Lands, Fails, LandsLate, Returns
    <2>2. /\ gpuMetrics' = gpuMetrics /\ metric' = metric /\ cancelAck' = cancelAck
          /\ records' = records /\ calls' = calls
        BY <2>1
    <2> QED  BY <2>2, Zenon
<1> QED  BY <1>1, <1>2, <1>3, <1>4, <1>5, <1>6, Zenon DEF MetricsNext

LEMMA EngineKeeps ==
    ASSUME AbsentIsNothing, EngineInv, MetricsNext
    PROVE  EngineInv' /\ Gains
<1>1. CASE EngineRests
    <2>1. Gains
        BY <1>1, BelowItself DEF Gains, EngineRests
    <2>2. calls' \in Seq(Turns) /\ \A i \in 1..Len(calls') : metric'[calls'[i]] # Absent
        <3>1. CASE calls' = calls
            BY SMTT(30), <1>1, <3>1 DEF EngineRests, EngineInv
        <3>2. CASE calls # <<>> /\ calls' = Tail(calls)
            <4>1. /\ Tail(calls) \in Seq(Turns) /\ Len(Tail(calls)) = Len(calls) - 1
                  /\ \A i \in 1..Len(Tail(calls)) : i + 1 \in 1..Len(calls)
                                                  /\ Tail(calls)[i] = calls[i + 1]
                BY <3>2 DEF EngineInv
            <4> QED  BY <1>1, <3>2, <4>1 DEF EngineRests, EngineInv
        <3> QED  BY <1>1, <3>1, <3>2 DEF EngineRests
    <2> QED  BY <1>1, <2>1, <2>2 DEF EngineRests, EngineInv
<1> QED  BY <1>1, EngineSteps, ReportGains, SettleGains, GpuGains, Zenon

-----------------------------------------------------------------------------
(* What the session and the store hold                                       *)

SessionTyped ==
    /\ pendingEndpoint \in Endpoints /\ pendingBarge \in Nat /\ speech \in Nat
    /\ endpointByTurn \in [Turns -> Endpoints \cup {Absent}]
    /\ uxByTurn \in [Turns -> Browsers \cup {Absent}]
    /\ complete \in [Turns -> Completes \cup {Absent}]
    /\ puts \in Seq(Puts)
    /\ lastPut \in [Turns -> Nat] /\ row \in [Turns -> Nat]

\* The versions are the ones there were, or c of turn t is one more.
SameVersions ==
    /\ Len(puts') = Len(puts)
    /\ \A i \in 1..Len(puts) : puts'[i].turn = puts[i].turn /\ puts'[i].what = puts[i].what
OneMoreVersion(t, c) ==
    /\ Len(puts') = Len(puts) + 1
    /\ \A i \in 1..Len(puts) : puts'[i] = puts[i]
    /\ puts'[Len(puts) + 1] = [turn |-> t, what |-> c, after |-> lastPut[t],
                               state |-> "waiting"]

UxOf(t) == IF uxByTurn[t] = Absent THEN Unseen ELSE uxByTurn[t]

\* What a report does: c, with the endpoint ep, is the version of t; out, gone and
\* both are the turns the maps lose.
Merges(t, ep, c, out, gone, both) ==
    /\ t \in Turns /\ metric[t] # Absent /\ c \in Completes /\ ep \in Endpoints
    /\ c.em = metric[t]
    /\ IF endpointByTurn[t] # Absent
       THEN ep = endpointByTurn[t]
            /\ UNCHANGED <<pendingEndpoint, pendingBarge, endpointByTurn, outrun>>
       ELSE /\ pendingEndpoint' = Unmeasured /\ pendingBarge' = 0
            /\ endpointByTurn' = Cleared([endpointByTurn EXCEPT ![t] = ep], out)
            /\ outrun' = outrun \cup out
            /\ \A f \in EndpointFields : ep[f] \in {pendingEndpoint[f], pendingBarge}
    /\ IF complete[t] = Absent
       THEN c.ep = ep /\ c.ux = UxOf(t)
       ELSE c.ep = Spread(complete[t].ep, ep, 0) /\ c.ux = Spread(complete[t].ux, UxOf(t), Absent)
    /\ complete' = Cleared([complete EXCEPT ![t] = c], gone)
    /\ uxByTurn' = Cleared(uxByTurn, both)
    /\ gone \subseteq both /\ dropped' = dropped \cup both
    /\ Put(t, c)
    /\ UNCHANGED <<speech, metric>>

\* What a measurement of the browser does.
Notes(t, next, gone, both) ==
    /\ t \in Turns /\ next \in Browsers
    /\ \A f \in Fields : UxOf(t)[f] # Absent => next[f] = UxOf(t)[f]
    /\ uxByTurn' = Cleared([uxByTurn EXCEPT ![t] = next], both)
    /\ gone \subseteq both /\ dropped' = dropped \cup both
    /\ IF complete[t] = Absent
       THEN complete' = Cleared(complete, gone) /\ UNCHANGED <<puts, lastPut>>
       ELSE \E c \in Completes :
               /\ c = [complete[t] EXCEPT !.ux = Spread(complete[t].ux, next, Absent)]
               /\ complete' = Cleared([complete EXCEPT ![t] = c], gone)
               /\ Put(t, c)
    /\ UNCHANGED <<speech, metric, pendingEndpoint, pendingBarge, endpointByTurn, outrun, row>>

LEMMA SpreadFacts ==
    ASSUME NEW F, NEW V, NEW a \in [F -> V], NEW b \in [F -> V], NEW nothing
    PROVE  /\ Spread(a, b, nothing) \in [F -> V]
           /\ \A f \in F : Spread(a, b, nothing)[f] = IF b[f] = nothing THEN a[f] ELSE b[f]
    BY DEF Spread

LEMMA SpreadOver ==
    ASSUME NEW F, NEW V, NEW a \in [F -> V], NEW nothing
    PROVE  Spread(a, a, nothing) = a
    BY DEF Spread

LEMMA UxOfFacts ==
    ASSUME SessionTyped, NEW t \in Turns
    PROVE  UxOf(t) \in Browsers
    BY DEF SessionTyped, UxOf, Unseen, Browsers

LEMMA ReportMerges ==
    ASSUME AbsentIsNothing, EngineInv, SessionTyped, OnMetrics
    PROVE  \E t, ep, c, out, gone, both : Merges(t, ep, c, out, gone, both) /\ UNCHANGED row
<1> DEFINE t == calls[1]
           first == endpointByTurn[t] = Absent
           barge == IF metric[t].bargeIn THEN pendingBarge ELSE 0
           ep == IF ~first THEN endpointByTurn[t]
                 ELSE IF barge = 0 THEN pendingEndpoint
                 ELSE [pendingEndpoint EXCEPT !.barge = barge]
           out == Oldest(Append(endpointOrder, t), EndpointMax)
           c == [em |-> metric[t],
                 ep |-> IF complete[t] = Absent THEN ep ELSE Spread(complete[t].ep, ep, 0),
                 ux |-> IF complete[t] = Absent THEN UxOf(t)
                        ELSE Spread(complete[t].ux, UxOf(t), Absent)]
           gone == Oldest(Entered(completeOrder, t), CacheMax)
           both == gone \cup Oldest(Deleted(uxOrder, gone), CacheMax)
<1>1. t \in Turns /\ metric[t] # Absent /\ metric[t] \in EngineMetrics
    <2>1. calls # <<>> /\ calls \in Seq(Turns)
        BY Zenon DEF OnMetrics, EngineInv
    <2>2. 1 \in 1..Len(calls) /\ calls[1] \in Turns
        BY <2>1
    <2> QED  BY <2>2 DEF EngineInv
<1>2. ep \in Endpoints /\ (first => \A f \in EndpointFields :
                                      ep[f] \in {pendingEndpoint[f], pendingBarge})
    <2>1. pendingEndpoint \in Endpoints /\ pendingBarge \in Nat
          /\ endpointByTurn[t] \in Endpoints \cup {Absent}
        BY <1>1 DEF SessionTyped
    <2> HIDE DEF t
    <2> QED  BY <2>1 DEF Endpoints, EndpointFields
<1>3. UxOf(t) \in Browsers
    BY <1>1, UxOfFacts
<1>4. c \in Completes /\ c.em = metric[t]
      /\ (complete[t] = Absent => c.ep = ep /\ c.ux = UxOf(t))
      /\ (complete[t] # Absent => c.ep = Spread(complete[t].ep, ep, 0)
                                /\ c.ux = Spread(complete[t].ux, UxOf(t), Absent))
    <2>1. complete[t] # Absent => complete[t].ep \in Endpoints /\ complete[t].ux \in Browsers
        BY <1>1 DEF SessionTyped, Completes
    <2>2. complete[t] # Absent => Spread(complete[t].ep, ep, 0) \in Endpoints
                                /\ Spread(complete[t].ux, UxOf(t), Absent) \in Browsers
        <3> HIDE DEF t, ep
        <3> QED  BY <1>2, <1>3, <2>1, SpreadFacts, Zenon DEF Endpoints, Browsers
    <2> HIDE DEF t, ep
    <2> QED  BY <1>1, <1>2, <1>3, <2>2 DEF Completes
<1>5. /\ IF first
         THEN /\ pendingEndpoint' = Unmeasured /\ pendingBarge' = 0
              /\ endpointByTurn' = Cleared([endpointByTurn EXCEPT ![t] = ep], out)
              /\ outrun' = outrun \cup out
         ELSE UNCHANGED <<pendingEndpoint, pendingBarge, endpointByTurn, endpointOrder, outrun>>
      /\ Trims([complete EXCEPT ![t] = c], Entered(completeOrder, t), uxByTurn, uxOrder)
      /\ Put(t, c)
      /\ UNCHANGED <<engineVars, anchored, speech, uxIssued, over>>
    BY Zenon DEF OnMetrics, UxOf
<1>6. /\ complete' = Cleared([complete EXCEPT ![t] = c], gone)
      /\ uxByTurn' = Cleared(uxByTurn, both)
      /\ gone \subseteq both /\ dropped' = dropped \cup both
    BY <1>5, Zenon DEF Trims
<1>7. UNCHANGED <<speech, metric, row>>
    <2>1. UNCHANGED engineVars /\ speech' = speech /\ row' = row
        <3>1. speech' = speech /\ UNCHANGED engineVars
            BY <1>5
        <3>2. row' = row
            BY <1>5, Zenon DEF Put
        <3> QED  BY <3>1, <3>2
    <2> QED  BY <2>1 DEF engineVars
<1> HIDE DEF t, ep, c, out, gone, both
<1>8. IF endpointByTurn[t] # Absent
      THEN ep = endpointByTurn[t]
           /\ UNCHANGED <<pendingEndpoint, pendingBarge, endpointByTurn, outrun>>
      ELSE /\ pendingEndpoint' = Unmeasured /\ pendingBarge' = 0
           /\ endpointByTurn' = Cleared([endpointByTurn EXCEPT ![t] = ep], out)
           /\ outrun' = outrun \cup out
           /\ \A f \in EndpointFields : ep[f] \in {pendingEndpoint[f], pendingBarge}
    <2>1. CASE endpointByTurn[t] # Absent
        BY <1>5, <2>1 DEF ep
    <2>2. CASE endpointByTurn[t] = Absent
        BY <1>2, <1>5, <2>2
    <2> QED  BY <2>1, <2>2
<1>9. IF complete[t] = Absent
      THEN c.ep = ep /\ c.ux = UxOf(t)
      ELSE c.ep = Spread(complete[t].ep, ep, 0) /\ c.ux = Spread(complete[t].ux, UxOf(t), Absent)
    BY <1>4
<1>10. Put(t, c) /\ UNCHANGED <<speech, metric>>
    BY <1>5, <1>7
<1>11. Merges(t, ep, c, out, gone, both)
    <2>1. t \in Turns /\ metric[t] # Absent /\ c \in Completes /\ ep \in Endpoints
          /\ c.em = metric[t]
        BY <1>1, <1>2, <1>4
    <2> QED  BY <1>6, <1>8, <1>9, <1>10, <2>1 DEF Merges
<1> QED  BY <1>7, <1>11

LEMMA MeasurementNotes ==
    ASSUME AbsentIsNothing, SessionTyped, NEW t \in Turns, NEW measured \in Browsers,
           NoteUxTelemetry(t, measured)
    PROVE  \E next, gone, both : Notes(t, next, gone, both)
<1> DEFINE next == Spread(measured, UxOf(t), Absent)
           c == [complete[t] EXCEPT !.ux = Spread(complete[t].ux, next, Absent)]
           gone == Oldest(completeOrder, CacheMax)
           both == gone \cup Oldest(Deleted(Entered(uxOrder, t), gone), CacheMax)
<1>1. next \in Browsers /\ \A f \in Fields : UxOf(t)[f] # Absent => next[f] = UxOf(t)[f]
    <2>1. UxOf(t) \in [Fields -> Values \cup {Absent}] /\ measured \in [Fields -> Values \cup {Absent}]
        BY UxOfFacts DEF Browsers
    <2>2. /\ next \in [Fields -> Values \cup {Absent}]
          /\ \A f \in Fields : next[f] = IF UxOf(t)[f] = Absent THEN measured[f] ELSE UxOf(t)[f]
        BY <2>1 DEF Spread
    <2> HIDE DEF next
    <2> QED  BY <2>2 DEF Browsers
<1>2. complete[t] # Absent => c \in Completes
    <2>1. complete[t] # Absent => complete[t] \in Completes /\ complete[t].ux \in Browsers
        BY DEF SessionTyped, Completes
    <2> DEFINE x == Spread(complete[t].ux, next, Absent)
    <2>2. complete[t] # Absent => x \in Browsers
        <3> HIDE DEF next
        <3> QED  BY <1>1, <2>1, SpreadFacts, Zenon DEF Browsers
    <2> HIDE DEF x
    <2>3. complete[t] # Absent => [complete[t] EXCEPT !.ux = x] \in Completes
        BY <2>1, <2>2 DEF Completes
    <2> QED  BY <2>3 DEF x
<1>3. IF complete[t] = Absent
      THEN /\ Trims(complete, completeOrder, [uxByTurn EXCEPT ![t] = next], Entered(uxOrder, t))
           /\ UNCHANGED store
      ELSE /\ Trims([complete EXCEPT ![t] = c], completeOrder, [uxByTurn EXCEPT ![t] = next],
                    Entered(uxOrder, t))
           /\ Put(t, c)
    <2>1. complete[t] # Absent => c = [complete[t] EXCEPT !.ux = Spread(@, next, Absent)]
        OBVIOUS
    <2> QED  BY <2>1, Zenon DEF NoteUxTelemetry, UxOf
<1>4. UNCHANGED <<speech, metric, pendingEndpoint, pendingBarge, endpointByTurn, outrun>>
    <2>1. UNCHANGED engineVars /\ UNCHANGED pending /\ UNCHANGED <<endpointByTurn, outrun>>
        BY Zenon DEF NoteUxTelemetry
    <2> QED  BY <2>1 DEF engineVars, pending
<1>5. row' = row
    <2>1. CASE complete[t] = Absent
        BY <1>3, <2>1 DEF store
    <2>2. CASE complete[t] # Absent
        BY <1>3, <2>2, Zenon DEF Put
    <2> QED  BY <2>1, <2>2
<1>6. UNCHANGED store => UNCHANGED <<puts, lastPut>>
    BY DEF store
<1> HIDE DEF next, c
<1>7. uxByTurn' = Cleared([uxByTurn EXCEPT ![t] = next], both)
      /\ gone \subseteq both /\ dropped' = dropped \cup both
    <2>1. PICK byTurn : Trims(byTurn, completeOrder, [uxByTurn EXCEPT ![t] = next],
                              Entered(uxOrder, t))
        BY <1>3
    <2> QED  BY <2>1, Zenon DEF Trims
<1>8. IF complete[t] = Absent
      THEN complete' = Cleared(complete, gone) /\ UNCHANGED <<puts, lastPut>>
      ELSE /\ complete' = Cleared([complete EXCEPT ![t] = c], gone)
           /\ Put(t, c)
    BY <1>3, <1>6, Zenon DEF Trims
<1>9. complete[t] # Absent =>
          c \in Completes /\ c = [complete[t] EXCEPT !.ux = Spread(complete[t].ux, next, Absent)]
    BY <1>2 DEF c
<1> HIDE DEF gone, both
<1>10. IF complete[t] = Absent
       THEN complete' = Cleared(complete, gone) /\ UNCHANGED <<puts, lastPut>>
       ELSE \E d \in Completes :
               /\ d = [complete[t] EXCEPT !.ux = Spread(complete[t].ux, next, Absent)]
               /\ complete' = Cleared([complete EXCEPT ![t] = d], gone)
               /\ Put(t, d)
    <2>1. CASE complete[t] = Absent
        BY <1>8, <2>1
    <2>2. CASE complete[t] # Absent
        BY <1>8, <1>9, <2>2, Zenon
    <2> QED  BY <2>1, <2>2
<1>11. UNCHANGED <<speech, metric, pendingEndpoint, pendingBarge, endpointByTurn, outrun, row>>
    BY <1>4, <1>5
<1>12. Notes(t, next, gone, both)
    BY <1>1, <1>7, <1>10, <1>11 DEF Notes
<1> QED  BY <1>12

-----------------------------------------------------------------------------
(* The kinds of steps                                                        *)

StoreMoves(w) == WriteSnapshot(w) \/ Lands(w) \/ Fails(w) \/ LandsLate(w) \/ Returns(w)
SpeechMoves ==
    OnAudioOut \/ DetectBargeIn \/ OnRecoveryWindowElapsed \/ \E b \in BOOLEAN : OnTurnEnd(b)

StoreRests == UNCHANGED <<puts, lastPut, row>>
CachesRest == UNCHANGED <<endpointByTurn, uxByTurn, complete, dropped, outrun>>
PendingRests == UNCHANGED <<pendingEndpoint, pendingBarge, speech>>
EmfRests == UNCHANGED <<sampled, samples, repeated, forgotten>>

LEMMA StepKinds ==
    ASSUME MetricsNext
    PROVE  \/ StoreRests /\ CachesRest /\ PendingRests
           \/ StoreRests /\ CachesRest /\ SpeechMoves
           \/ CachesRest /\ PendingRests /\ \E w \in 1..Len(puts) : StoreMoves(w)
           \/ StoreRests /\ PendingRests /\ SessionEnds
           \/ OnMetrics
           \/ \E t \in Turns, measured \in Browsers : NoteUxTelemetry(t, measured)
<1> USE DEF StoreRests, CachesRest, PendingRests, store, caches, pending
<1>1. CASE StartTurn
    BY <1>1 DEF StartTurn
<1>2. CASE SpeechMoves
    BY <1>2 DEF SpeechMoves, OnAudioOut, DetectBargeIn, OnRecoveryWindowElapsed, OnTurnEnd
<1>3. CASE SessionEnds
    BY <1>3 DEF SessionEnds
<1>4. CASE \E v \in {"acked", "timeout"} : SettleCancelAck(v)
    BY <1>4 DEF SettleCancelAck
<1>5. CASE \E t \in Turns : DispatchSentence(t) \/ OnTurnAudioBegin(t)
    BY <1>5 DEF DispatchSentence, OnTurnAudioBegin
<1>6. CASE \E t \in Turns, b \in BOOLEAN : ReportMetrics(t, b)
    <2>1. UNCHANGED pending /\ UNCHANGED caches /\ UNCHANGED store
        BY <1>6, Zenon DEF ReportMetrics
    <2>2. StoreRests /\ CachesRest /\ PendingRests
        BY <2>1
    <2> QED  BY <2>2, Zenon
<1>7. CASE \E t \in Turns, s \in Segments, b \in BOOLEAN : OnGpuTtsMetrics(t, s, b)
    <2>1. UNCHANGED pending /\ UNCHANGED caches /\ UNCHANGED store
        BY <1>7, Zenon DEF OnGpuTtsMetrics
    <2>2. StoreRests /\ CachesRest /\ PendingRests
        BY <2>1
    <2> QED  BY <2>2, Zenon
<1>8. CASE \E w \in 1..Len(puts) : StoreMoves(w)
    <2>1. UNCHANGED pending /\ UNCHANGED caches
        BY <1>8, Zenon DEF StoreMoves, WriteSnapshot, Lands, Fails, LandsLate, Returns
    <2>2. CachesRest /\ PendingRests
        BY <2>1
    <2> QED  BY <1>8, <2>2, Zenon
<1> QED
    BY <1>1, <1>2, <1>3, <1>4, <1>5, <1>6, <1>7, <1>8, Zenon DEF MetricsNext, SpeechMoves,
       StoreMoves

LEMMA EmfKinds ==
    ASSUME MetricsNext
    PROVE  EmfRests \/ \E w \in 1..Len(puts) : EmitEmf(puts[w].turn, puts[w].what)
<1> USE DEF EmfRests, store
<1>1. CASE StartTurn
    BY <1>1 DEF StartTurn
<1>2. CASE SpeechMoves
    BY <1>2 DEF SpeechMoves, OnAudioOut, DetectBargeIn, OnRecoveryWindowElapsed, OnTurnEnd
<1>3. CASE SessionEnds
    BY <1>3 DEF SessionEnds
<1>4. CASE \E v \in {"acked", "timeout"} : SettleCancelAck(v)
    BY <1>4 DEF SettleCancelAck
<1>5. CASE \E t \in Turns : DispatchSentence(t) \/ OnTurnAudioBegin(t)
    BY <1>5 DEF DispatchSentence, OnTurnAudioBegin
<1>6. CASE \E t \in Turns, b \in BOOLEAN : ReportMetrics(t, b)
    <2>1. UNCHANGED store
        BY <1>6, Zenon DEF ReportMetrics
    <2> QED  BY <2>1
<1>7. CASE \E t \in Turns, s \in Segments, b \in BOOLEAN : OnGpuTtsMetrics(t, s, b)
    <2>1. UNCHANGED store
        BY <1>7, Zenon DEF OnGpuTtsMetrics
    <2> QED  BY <2>1
<1>8. CASE \E w \in 1..Len(puts) : StoreMoves(w)
    <2>1. PICK w \in 1..Len(puts) : StoreMoves(w)
        BY <1>8
    <2>2. CASE WriteSnapshot(w)
        BY <2>2, Zenon DEF WriteSnapshot
    <2>3. CASE ~WriteSnapshot(w)
        BY <2>1, <2>3 DEF StoreMoves, Lands, Fails, LandsLate, Returns
    <2> QED  BY <2>2, <2>3
<1>9. CASE OnMetrics
    <2>1. UNCHANGED <<row, sampled, sampledOrder, samples, repeated, forgotten>>
        BY <1>9, Zenon DEF OnMetrics, Put
    <2> QED  BY <2>1
<1>10. CASE \E t \in Turns, measured \in Browsers : NoteUxTelemetry(t, measured)
    <2>1. UNCHANGED store \/ UNCHANGED <<row, sampled, sampledOrder, samples, repeated, forgotten>>
        BY <1>10, Zenon DEF NoteUxTelemetry, Put
    <2> QED  BY <2>1
<1> QED
    BY <1>1, <1>2, <1>3, <1>4, <1>5, <1>6, <1>7, <1>8, <1>9, <1>10, Zenon DEF MetricsNext,
       SpeechMoves, StoreMoves

-----------------------------------------------------------------------------
(* The samples                                                               *)

EmfInv ==
    /\ \A t \in Turns : t \notin forgotten => \A x : <<t, x>> \in samples => x \in sampled[t]
    /\ \A x \in repeated : x[1] \in forgotten

LEMMA EmfKeeps ==
    ASSUME EmfInv, NEW t \in Turns, NEW c \in Completes, EmitEmf(t, c)
    PROVE  /\ \A u \in Turns : u \notin forgotten' =>
                 \A x : <<u, x>> \in samples' => x \in sampled'[u]
           /\ \A x \in repeated' : x[1] \in forgotten'
<1> DEFINE gone == Oldest(Entered(sampledOrder, t), EmfMax)
           new == (SchemasOf(t, c) \X NamesOf(c)) \ sampled[t]
<1>1. /\ sampled' = [u \in Turns |-> IF u \in gone THEN {}
                                     ELSE IF u = t THEN sampled[u] \cup new ELSE sampled[u]]
      /\ samples' = samples \cup ({t} \X new)
      /\ repeated' = repeated \cup (({t} \X new) \cap samples)
      /\ forgotten' = forgotten \cup gone
    BY Zenon DEF EmitEmf
<1>2. \A x \in new : x \notin sampled[t]
    BY Zenon
<1> HIDE DEF gone, new
<1>3. ASSUME NEW u \in Turns, u \notin forgotten', NEW x, <<u, x>> \in samples'
      PROVE  x \in sampled'[u]
    <2>1. u \notin gone /\ u \notin forgotten
        BY <1>1, <1>3
    <2>2. sampled'[u] = IF u = t THEN sampled[u] \cup new ELSE sampled[u]
        BY <1>1, <2>1
    <2>3. CASE <<u, x>> \in samples
        BY <2>1, <2>2, <2>3 DEF EmfInv
    <2>4. CASE <<u, x>> \in {t} \X new
        BY <2>2, <2>4
    <2> QED  BY <1>1, <1>3, <2>3, <2>4
<1>4. ASSUME NEW x \in repeated' PROVE x[1] \in forgotten'
    <2>1. CASE x \in repeated
        BY <1>1, <2>1 DEF EmfInv
    <2>2. CASE x \in ({t} \X new) \cap samples
        <3>1. x = <<t, x[2]>> /\ x[2] \in new /\ x[1] = t
            BY <2>2
        <3>2. x[2] \notin sampled[t] /\ <<t, x[2]>> \in samples
            BY <1>2, <2>2, <3>1
        <3> QED  BY <1>1, <3>1, <3>2 DEF EmfInv
    <2> QED  BY <1>1, <1>4, <2>1, <2>2
<1> QED  BY <1>3, <1>4

-----------------------------------------------------------------------------
(* The writes                                                                *)

\* A write waits for the one before it of its turn, or all before it are settled;
\* the map has the last that is not.
OrderOf(w) ==
    LET t == puts[w].turn
        p == puts[w].after
    IN  /\ IF p = 0
           THEN \A v \in 1..(w - 1) : puts[v].turn = t => puts[v].state \in Settled
           ELSE /\ p \in 1..(w - 1) /\ puts[p].turn = t
                /\ \A v \in 1..(w - 1) : p < v => puts[v].turn # t
        /\ puts[w].state # "waiting" =>
               \A v \in 1..(w - 1) : puts[v].turn = t => puts[v].state \in Settled
LastOf(t) ==
    /\ IF lastPut[t] = 0
       THEN \A v \in 1..Len(puts) : puts[v].turn = t => puts[v].state \in Settled
       ELSE /\ lastPut[t] \in 1..Len(puts) /\ puts[lastPut[t]].turn = t
            /\ \A v \in 1..Len(puts) : lastPut[t] < v => puts[v].turn # t
    /\ row[t] # 0 => row[t] \in 1..Len(puts) /\ puts[row[t]].turn = t
                     /\ puts[row[t]].state \in Sent
StoreInv ==
    /\ \A w \in 1..Len(puts) : OrderOf(w)
    /\ \A t \in Turns : LastOf(t)

LEMMA PutMore ==
    ASSUME SessionTyped, NEW t \in Turns, NEW c \in Completes, Put(t, c)
    PROVE  /\ OneMoreVersion(t, c) /\ puts' \in Seq(Puts)
           /\ lastPut' = [lastPut EXCEPT ![t] = Len(puts) + 1] /\ lastPut' \in [Turns -> Nat]
           /\ row' = row
<1> DEFINE e == [turn |-> t, what |-> c, after |-> lastPut[t], state |-> "waiting"]
<1>1. e \in Puts
    BY DEF Puts, SessionTyped
<1>2. puts' = Append(puts, e) /\ lastPut' = [lastPut EXCEPT ![t] = Len(puts) + 1] /\ row' = row
    BY Zenon DEF Put
<1>3. puts \in Seq(Puts) /\ lastPut \in [Turns -> Nat]
    BY DEF SessionTyped
<1> HIDE DEF e
<1>4. /\ Len(puts') = Len(puts) + 1 /\ puts' \in Seq(Puts) /\ lastPut' \in [Turns -> Nat]
      /\ \A i \in 1..Len(puts) : puts'[i] = puts[i]
      /\ puts'[Len(puts) + 1] = e
    BY <1>1, <1>2, <1>3
<1> QED  BY <1>2, <1>4 DEF e, OneMoreVersion

\* Only the state of version w changes.
StateBecomes(w, s) ==
    /\ puts' \in Seq(Puts) /\ Len(puts') = Len(puts)
    /\ \A i \in 1..Len(puts) :
          /\ puts'[i].turn = puts[i].turn /\ puts'[i].what = puts[i].what
          /\ puts'[i].after = puts[i].after
          /\ puts'[i].state = IF i = w THEN s ELSE puts[i].state

LEMMA PutState ==
    ASSUME SessionTyped, NEW w \in 1..Len(puts),
           NEW s \in {"waiting", "sending"} \cup Settled,
           puts' = [puts EXCEPT ![w].state = s]
    PROVE  StateBecomes(w, s)
<1>1. puts \in Seq(Puts)
    BY DEF SessionTyped
<1>2. \A i \in 1..Len(puts) : puts[i] \in Puts
    BY <1>1
<1> DEFINE e == [puts[w] EXCEPT !.state = s]
<1>3. e \in Puts /\ e.turn = puts[w].turn /\ e.what = puts[w].what /\ e.after = puts[w].after
      /\ e.state = s
    BY <1>2 DEF Puts
<1>4. puts' = [puts EXCEPT ![w] = e]
    OBVIOUS
<1> HIDE DEF e
<1>5. /\ puts' \in Seq(Puts) /\ Len(puts') = Len(puts)
      /\ \A i \in 1..Len(puts) : puts'[i] = IF i = w THEN e ELSE puts[i]
    BY <1>1, <1>3, <1>4
<1> QED  BY <1>3, <1>5 DEF StateBecomes

LEMMA StoreMoveKinds ==
    ASSUME SessionTyped, NEW w \in 1..Len(puts), StoreMoves(w)
    PROVE  \/ /\ puts[w].state = "waiting"
              /\ puts[w].after # 0 => puts[puts[w].after].state \in Settled
              /\ \E s \in {"sending", "skipped"} : StateBecomes(w, s)
              /\ UNCHANGED <<lastPut, row>>
           \/ /\ puts[w].state = "sending"
              /\ StateBecomes(w, "landed")
              /\ row' = [row EXCEPT ![puts[w].turn] = w] /\ UNCHANGED lastPut
           \/ /\ puts[w].state = "sending"
              /\ StateBecomes(w, "failed") /\ UNCHANGED <<lastPut, row>>
           \/ /\ puts[w].state \in Sent
              /\ row' = [row EXCEPT ![puts[w].turn] = w] /\ UNCHANGED <<puts, lastPut>>
           \/ /\ puts[w].state \in Settled /\ lastPut[puts[w].turn] = w
              /\ lastPut' = [lastPut EXCEPT ![puts[w].turn] = 0] /\ UNCHANGED <<puts, row>>
<1>1. CASE WriteSnapshot(w)
    <2> DEFINE s == IF HasTable THEN "sending" ELSE "skipped"
    <2>1. /\ puts[w].state = "waiting"
          /\ puts[w].after # 0 => puts[puts[w].after].state \in Settled
          /\ puts' = [puts EXCEPT ![w].state = s] /\ lastPut' = lastPut /\ row' = row
        BY <1>1, Zenon DEF WriteSnapshot
    <2>2. s \in {"sending", "skipped"}
        OBVIOUS
    <2> HIDE DEF s
    <2>3. StateBecomes(w, s)
        BY <2>1, <2>2, PutState DEF Settled
    <2> QED  BY <2>1, <2>2, <2>3
<1>2. CASE Lands(w)
    <2>1. StateBecomes(w, "landed")
        BY <1>2, PutState DEF Lands, Settled
    <2> QED  BY <1>2, <2>1 DEF Lands
<1>3. CASE Fails(w)
    <2>1. StateBecomes(w, "failed")
        BY <1>3, PutState DEF Fails, Settled
    <2> QED  BY <1>3, <2>1 DEF Fails
<1>4. CASE Returns(w)
    BY <1>4 DEF Returns
<1>5. CASE LandsLate(w)
    BY <1>5 DEF LandsLate
<1> QED  BY <1>1, <1>2, <1>3, <1>4, <1>5 DEF StoreMoves

LEMMA PutKeepsStore ==
    ASSUME SessionTyped, StoreInv, NEW t \in Turns, NEW c \in Completes, Put(t, c)
    PROVE  StoreInv'
<1> DEFINE n == Len(puts)
<1>1. /\ OneMoreVersion(t, c) /\ lastPut' = [lastPut EXCEPT ![t] = n + 1] /\ row' = row
      /\ n \in Nat /\ lastPut \in [Turns -> Nat] /\ row \in [Turns -> Nat]
    BY PutMore DEF SessionTyped
<1>2. /\ Len(puts') = n + 1 /\ \A i \in 1..n : puts'[i] = puts[i]
      /\ puts'[n + 1].turn = t /\ puts'[n + 1].after = lastPut[t]
      /\ puts'[n + 1].state = "waiting"
    BY <1>1 DEF OneMoreVersion
<1>3. \A v \in 1..n : puts[v].turn \in Turns
    <2>1. \A v \in 1..n : puts[v] \in Puts
        BY DEF SessionTyped
    <2> QED  BY <2>1 DEF Puts
<1>4. \A w \in 1..n :
          LET u == puts[w].turn
              p == puts[w].after
          IN  /\ IF p = 0
                 THEN \A v \in 1..(w - 1) : puts[v].turn = u => puts[v].state \in Settled
                 ELSE /\ p \in 1..(w - 1) /\ puts[p].turn = u
                      /\ \A v \in 1..(w - 1) : p < v => puts[v].turn # u
              /\ puts[w].state # "waiting" =>
                     \A v \in 1..(w - 1) : puts[v].turn = u => puts[v].state \in Settled
    BY Zenon DEF StoreInv, OrderOf, LastOf
<1>5. \A u \in Turns :
          /\ IF lastPut[u] = 0
             THEN \A v \in 1..n : puts[v].turn = u => puts[v].state \in Settled
             ELSE /\ lastPut[u] \in 1..n /\ puts[lastPut[u]].turn = u
                  /\ \A v \in 1..n : lastPut[u] < v => puts[v].turn # u
          /\ row[u] # 0 => row[u] \in 1..n /\ puts[row[u]].turn = u
                           /\ puts[row[u]].state \in Sent
    BY Zenon DEF StoreInv, OrderOf, LastOf
<1> HIDE DEF n
<1>6. ASSUME NEW w \in 1..(n + 1)
      PROVE  LET u == puts'[w].turn
                 p == puts'[w].after
             IN  /\ IF p = 0
                    THEN \A v \in 1..(w - 1) : puts'[v].turn = u => puts'[v].state \in Settled
                    ELSE /\ p \in 1..(w - 1) /\ puts'[p].turn = u
                         /\ \A v \in 1..(w - 1) : p < v => puts'[v].turn # u
                 /\ puts'[w].state # "waiting" =>
                        \A v \in 1..(w - 1) : puts'[v].turn = u => puts'[v].state \in Settled
    <2>1. CASE w \in 1..n
        <3>1. \A v \in 1..(w - 1) : v \in 1..n /\ puts'[v] = puts[v]
            BY <1>1, <1>2, <2>1
        <3>2. puts'[w] = puts[w]
            BY <1>2, <2>1
        <3> QED  BY <1>4, <2>1, <3>1, <3>2
    <2>2. CASE w = n + 1
        <3>1. \A v \in 1..(w - 1) : v \in 1..n /\ puts'[v] = puts[v]
            BY <1>1, <1>2, <2>2
        <3>2. w - 1 = n
            BY <1>1, <2>2
        <3> QED  BY <1>2, <1>5, <2>2, <3>1, <3>2
    <2> QED  BY <1>1, <2>1, <2>2
<1>7. ASSUME NEW u \in Turns
      PROVE  /\ IF lastPut'[u] = 0
                THEN \A v \in 1..(n + 1) : puts'[v].turn = u => puts'[v].state \in Settled
                ELSE /\ lastPut'[u] \in 1..(n + 1) /\ puts'[lastPut'[u]].turn = u
                     /\ \A v \in 1..(n + 1) : lastPut'[u] < v => puts'[v].turn # u
             /\ row'[u] # 0 => row'[u] \in 1..(n + 1) /\ puts'[row'[u]].turn = u
                               /\ puts'[row'[u]].state \in Sent
    <2>1. CASE u = t
        BY <1>1, <1>2, <1>5, <2>1
    <2>2. CASE u # t
        <3>1. lastPut'[u] = lastPut[u] /\ row'[u] = row[u]
            BY <1>1, <2>2
        <3>2. \A v \in 1..(n + 1) : (v \in 1..n /\ puts'[v] = puts[v]) \/ v = n + 1
            BY <1>1, <1>2
        <3>3. \A v \in 1..n : v \in 1..(n + 1)
            BY <1>1
        <3> QED  BY <1>2, <1>5, <2>2, <3>1, <3>2, <3>3
    <2> QED  BY <2>1, <2>2
<1>8. Len(puts') = n + 1
    BY <1>2
<1>9. \A w \in 1..(n + 1) : OrderOf(w)'
    BY <1>6, Zenon DEF OrderOf
<1>10. \A u \in Turns : LastOf(u)'
    <2>1. 1..Len(puts') = 1..(n + 1)
        BY <1>8
    <2> QED  BY <1>7, <2>1 DEF LastOf
<1> QED  BY <1>8, <1>9, <1>10 DEF StoreInv

LEMMA MovesKeepStore ==
    ASSUME SessionTyped, StoreInv, NEW w \in 1..Len(puts), StoreMoves(w)
    PROVE  StoreInv' /\ Forward
<1> DEFINE n == Len(puts)
           T == puts[w].turn
<1>0. n \in Nat /\ lastPut \in [Turns -> Nat] /\ row \in [Turns -> Nat] /\ w \in 1..n
      /\ \A v \in 1..n : puts[v].turn \in Turns
    <2>1. \A v \in 1..n : puts[v] \in Puts
        BY DEF SessionTyped
    <2> QED  BY SMTT(30), <2>1 DEF Puts, SessionTyped
<1>4. \A v \in 1..n :
          LET u == puts[v].turn
              p == puts[v].after
          IN  /\ IF p = 0
                 THEN \A x \in 1..(v - 1) : puts[x].turn = u => puts[x].state \in Settled
                 ELSE /\ p \in 1..(v - 1) /\ puts[p].turn = u
                      /\ \A x \in 1..(v - 1) : p < x => puts[x].turn # u
              /\ puts[v].state # "waiting" =>
                     \A x \in 1..(v - 1) : puts[x].turn = u => puts[x].state \in Settled
    BY Zenon DEF StoreInv, OrderOf, LastOf
<1>5. \A u \in Turns :
          /\ IF lastPut[u] = 0
             THEN \A v \in 1..n : puts[v].turn = u => puts[v].state \in Settled
             ELSE /\ lastPut[u] \in 1..n /\ puts[lastPut[u]].turn = u
                  /\ \A v \in 1..n : lastPut[u] < v => puts[v].turn # u
          /\ row[u] # 0 => row[u] \in 1..n /\ puts[row[u]].turn = u
                           /\ puts[row[u]].state \in Sent
    BY Zenon DEF StoreInv, OrderOf, LastOf
<1>6. "landed" \in Settled /\ "failed" \in Settled /\ "skipped" \in Settled
      /\ "waiting" \notin Settled /\ "sending" \notin Settled
      /\ "landed" \in Sent /\ "waiting" \notin Sent /\ Sent \subseteq Settled
    BY DEF Settled, Sent
<1>w. puts[w].state # "waiting" =>
          \A x \in 1..(w - 1) : puts[x].turn = T => puts[x].state \in Settled
    BY <1>0, <1>4
\* What was settled stays so, and w, if it no longer waits, was the next to go.
<1>7. ASSUME NEW s \in {"sending", "skipped", "landed", "failed"}, StateBecomes(w, s),
             puts[w].state \notin Settled,
             \A x \in 1..(w - 1) : puts[x].turn = T => puts[x].state \in Settled,
             lastPut' = lastPut,
             \A u \in Turns : row'[u] = row[u] \/ (u = T /\ s = "landed" /\ row'[u] = w)
      PROVE  StoreInv'
    <2>1. /\ Len(puts') = n
          /\ \A i \in 1..n : /\ puts'[i].turn = puts[i].turn /\ puts'[i].after = puts[i].after
                             /\ puts'[i].state = IF i = w THEN s ELSE puts[i].state
        BY <1>7 DEF StateBecomes
    <2>2. \A i \in 1..n : puts[i].state \in Settled => puts'[i].state = puts[i].state
        BY <1>7, <2>1
    <2> HIDE DEF n, T
    <2>3. ASSUME NEW v \in 1..n
          PROVE  LET u == puts'[v].turn
                     p == puts'[v].after
                 IN  /\ IF p = 0
                        THEN \A x \in 1..(v - 1) : puts'[x].turn = u => puts'[x].state \in Settled
                        ELSE /\ p \in 1..(v - 1) /\ puts'[p].turn = u
                             /\ \A x \in 1..(v - 1) : p < x => puts'[x].turn # u
                     /\ puts'[v].state # "waiting" =>
                            \A x \in 1..(v - 1) : puts'[x].turn = u => puts'[x].state \in Settled
        <3>1. \A x \in 1..(v - 1) : x \in 1..n
            BY <1>0
        <3>2. puts'[v].turn = puts[v].turn /\ puts'[v].after = puts[v].after
            BY <2>1
        <3>3. puts'[v].state # "waiting" =>
                  \A x \in 1..(v - 1) : puts[x].turn = puts[v].turn => puts[x].state \in Settled
            <4>1. CASE v = w
                BY <1>7, <4>1 DEF T
            <4>2. CASE v # w
                BY <1>4, <2>1, <4>2
            <4> QED  BY <4>1, <4>2
        <3>4. IF puts[v].after = 0
              THEN \A x \in 1..(v - 1) : puts[x].turn = puts[v].turn => puts[x].state \in Settled
              ELSE /\ puts[v].after \in 1..(v - 1) /\ puts[puts[v].after].turn = puts[v].turn
                   /\ \A x \in 1..(v - 1) : puts[v].after < x => puts[x].turn # puts[v].turn
            BY <1>4
        <3>5. \A x \in 1..(v - 1) : puts'[x].turn = puts[x].turn
                  /\ (puts[x].state \in Settled => puts'[x].state \in Settled)
            BY <2>1, <2>2, <3>1
        <3> QED  BY <3>2, <3>3, <3>4, <3>5
    <2>4. ASSUME NEW u \in Turns
          PROVE  /\ IF lastPut'[u] = 0
                    THEN \A v \in 1..n : puts'[v].turn = u => puts'[v].state \in Settled
                    ELSE /\ lastPut'[u] \in 1..n /\ puts'[lastPut'[u]].turn = u
                         /\ \A v \in 1..n : lastPut'[u] < v => puts'[v].turn # u
                 /\ row'[u] # 0 => row'[u] \in 1..n /\ puts'[row'[u]].turn = u
                                   /\ puts'[row'[u]].state \in Sent
        <3>1. \A v \in 1..n : puts'[v].turn = puts[v].turn
                  /\ (puts[v].state \in Settled => puts'[v].state \in Settled)
            BY <2>1, <2>2
        <3>2. row'[u] # 0 => row'[u] \in 1..n /\ puts'[row'[u]].turn = u
                             /\ puts'[row'[u]].state \in Sent
            <4>1. CASE row'[u] = row[u]
                BY <1>5, <1>6, <2>1, <2>2, <4>1
            <4>2. CASE u = T /\ s = "landed" /\ row'[u] = w
                BY <1>0, <1>6, <2>1, <4>2 DEF T
            <4> QED  BY <1>7, <4>1, <4>2
        <3> QED  BY <1>5, <1>7, <3>1, <3>2
    <2>5. \A v \in 1..n : OrderOf(v)'
        BY <2>3, Zenon DEF OrderOf
    <2>6. \A u \in Turns : LastOf(u)'
        <3>1. 1..Len(puts') = 1..n
            BY <2>1
        <3> QED  BY <2>4, <3>1 DEF LastOf
    <2> QED  BY <2>1, <2>5, <2>6 DEF StoreInv
<1>8. CASE /\ puts[w].state = "waiting"
           /\ puts[w].after # 0 => puts[puts[w].after].state \in Settled
           /\ \E s \in {"sending", "skipped"} : StateBecomes(w, s)
           /\ UNCHANGED <<lastPut, row>>
    <2>1. \A x \in 1..(w - 1) : puts[x].turn = T => puts[x].state \in Settled
        <3>1. CASE puts[w].after = 0
            BY <1>0, <1>4, <3>1
        <3>2. CASE puts[w].after # 0
            <4> DEFINE p == puts[w].after
            <4>1. p \in 1..(w - 1) /\ puts[p].turn = T /\ puts[p].state \in Settled
                  /\ \A v \in 1..(w - 1) : p < v => puts[v].turn # T
                BY <1>0, <1>4, <1>8, <3>2
            <4> HIDE DEF p
            <4>2. p \in 1..n /\ puts[p].state # "waiting"
                BY <1>0, <1>6, <4>1
            <4>3. \A x \in 1..(p - 1) : puts[x].turn = T => puts[x].state \in Settled
                BY <1>4, <4>1, <4>2
            <4>4. \A x \in 1..(w - 1) : x \in 1..(p - 1) \/ x = p \/ p < x
                BY <1>0, <4>1
            <4> QED  BY <4>1, <4>3, <4>4
        <3> QED  BY <3>1, <3>2
    <2>2. PICK s \in {"sending", "skipped"} : StateBecomes(w, s)
        BY <1>8
    <2>3. puts[w].state \notin Settled /\ lastPut' = lastPut /\ row' = row
          /\ s \in {"sending", "skipped", "landed", "failed"}
        BY <1>6, <1>8
    <2>4. StoreInv'
        BY <1>7, <2>1, <2>2, <2>3
    <2> QED  BY <1>0, <2>3, <2>4 DEF Forward
<1>9. CASE /\ puts[w].state = "sending" /\ StateBecomes(w, "landed")
           /\ row' = [row EXCEPT ![T] = w] /\ UNCHANGED lastPut
    <2>1. \A x \in 1..(w - 1) : puts[x].turn = T => puts[x].state \in Settled
        BY <1>9, <1>w
    <2>2. \A u \in Turns : row'[u] = row[u] \/ (u = T /\ row'[u] = w)
        BY <1>0, <1>9
    <2>3. row[T] <= w
        <3>1. CASE row[T] = 0
            BY <1>0, <3>1
        <3>2. CASE row[T] # 0
            <4> DEFINE r == row[T]
            <4>1. r \in 1..n /\ puts[r].turn = T /\ puts[r].state # "waiting"
                BY <1>0, <1>5, <1>6, <3>2
            <4> HIDE DEF r
            <4>2. \A x \in 1..(r - 1) : puts[x].turn = T => puts[x].state \in Settled
                BY <1>4, <4>1
            <4>3. w \notin 1..(r - 1)
                BY <1>6, <1>9, <4>2
            <4>4. r <= w
                BY <1>0, <4>1, <4>3
            <4> QED  BY <4>4 DEF r
        <3> QED  BY <3>1, <3>2
    <2>a. puts[w].state \notin Settled /\ lastPut' = lastPut /\ StateBecomes(w, "landed")
        BY <1>6, <1>9
    <2>4. StoreInv'
        BY <1>7, <2>1, <2>2, <2>a
    <2>5. \A u \in Turns : row'[u] >= row[u]
        BY <1>0, <2>2, <2>3
    <2> QED  BY <2>4, <2>5 DEF Forward
<1>10. CASE /\ puts[w].state = "sending" /\ StateBecomes(w, "failed") /\ UNCHANGED <<lastPut, row>>
    <2>1. \A x \in 1..(w - 1) : puts[x].turn = T => puts[x].state \in Settled
        BY <1>10, <1>w
    <2>a. puts[w].state \notin Settled /\ lastPut' = lastPut /\ row' = row
          /\ StateBecomes(w, "failed")
        BY <1>6, <1>10
    <2>2. StoreInv'
        BY <1>7, <2>1, <2>a
    <2> QED  BY <1>0, <2>2, <2>a DEF Forward
<1>11. CASE /\ puts[w].state \in Settled /\ lastPut[T] = w
            /\ lastPut' = [lastPut EXCEPT ![T] = 0] /\ UNCHANGED <<puts, row>>
    <2>1. \A v \in 1..n : puts[v].turn = T => puts[v].state \in Settled
        <3>1. \A x \in 1..(w - 1) : puts[x].turn = T => puts[x].state \in Settled
            <4>1. puts[w].state # "waiting"
                BY <1>6, <1>11
            <4> QED  BY <4>1, <1>w
        <3>2. \A v \in 1..n : w < v => puts[v].turn # T
            <4>1. T \in Turns /\ lastPut[T] = w /\ lastPut[T] # 0
                BY <1>0, <1>11
            <4> HIDE DEF T
            <4>2. \A v \in 1..n : lastPut[T] < v => puts[v].turn # T
                BY <1>5, <4>1
            <4> QED  BY <4>1, <4>2
        <3>3. \A v \in 1..n : v \in 1..(w - 1) \/ v = w \/ w < v
            BY <1>0
        <3> QED  BY <1>11, <3>1, <3>2, <3>3
    <2>2. \A u \in Turns :
              /\ IF lastPut'[u] = 0
                 THEN \A v \in 1..n : puts[v].turn = u => puts[v].state \in Settled
                 ELSE /\ lastPut'[u] \in 1..n /\ puts[lastPut'[u]].turn = u
                      /\ \A v \in 1..n : lastPut'[u] < v => puts[v].turn # u
              /\ row'[u] # 0 => row'[u] \in 1..n /\ puts[row'[u]].turn = u
                                /\ puts[row'[u]].state \in Sent
        <3>1. \A u \in Turns : lastPut'[u] = IF u = T THEN 0 ELSE lastPut[u]
            BY <1>0, <1>11
        <3>2. row' = row
            BY <1>11
        <3> HIDE DEF T, n
        <3> QED  BY <1>5, <2>1, <3>1, <3>2
    <2>3. puts' = puts
        BY <1>11
    <2>4. StoreInv'
        <3>1. \A v \in 1..n : OrderOf(v)'
            BY <2>3 DEF StoreInv, OrderOf
        <3>2. \A u \in Turns : LastOf(u)'
            BY <2>2, <2>3 DEF LastOf
        <3> QED  BY <2>3, <3>1, <3>2 DEF StoreInv
    <2>5. row' = row
        BY <1>11
    <2> QED  BY <1>0, <2>4, <2>5 DEF Forward
<1>12. CASE /\ puts[w].state \in Sent
            /\ row' = [row EXCEPT ![T] = w] /\ UNCHANGED <<puts, lastPut>>
    <2>1. \A u \in Turns : row'[u] = IF u = T THEN w ELSE row[u]
        BY <1>0, <1>12
    <2>2. puts' = puts /\ lastPut' = lastPut
        BY <1>12
    <2>3. \A v \in 1..n : OrderOf(v)'
        BY <2>2 DEF StoreInv, OrderOf
    <2>4. ASSUME NEW u \in Turns PROVE LastOf(u)'
        <3>1. row'[u] # 0 => row'[u] \in 1..n /\ puts[row'[u]].turn = u
                             /\ puts[row'[u]].state \in Sent
            BY <1>0, <1>5, <1>12, <2>1
        <3> QED  BY <1>5, <2>2, <3>1 DEF LastOf
    <2>5. Forward
        BY <1>0, <1>12, <2>1 DEF Forward
    <2> QED  BY <2>2, <2>3, <2>4, <2>5 DEF StoreInv
<1> QED  BY <1>8, <1>9, <1>10, <1>11, <1>12, StoreMoveKinds, Zenon

-----------------------------------------------------------------------------
(* The types                                                                 *)

\* What a report and a measurement make of the maps, entry by entry.
LEMMA MergedMaps ==
    ASSUME SessionTyped, NEW t, NEW ep, NEW c, NEW out, NEW gone, NEW both,
           Merges(t, ep, c, out, gone, both)
    PROVE  /\ \A u \in Turns :
                 /\ complete'[u] = IF u \in gone THEN Absent ELSE IF u = t THEN c ELSE complete[u]
                 /\ uxByTurn'[u] = IF u \in both THEN Absent ELSE uxByTurn[u]
                 /\ endpointByTurn'[u] = IF endpointByTurn[t] # Absent THEN endpointByTurn[u]
                                         ELSE IF u \in out THEN Absent
                                         ELSE IF u = t THEN ep ELSE endpointByTurn[u]
           /\ complete' \in [Turns -> Completes \cup {Absent}]
           /\ uxByTurn' \in [Turns -> Browsers \cup {Absent}]
           /\ endpointByTurn' \in [Turns -> Endpoints \cup {Absent}]
           /\ pendingEndpoint' \in Endpoints /\ pendingBarge' \in Nat
           /\ OneMoreVersion(t, c) /\ puts' \in Seq(Puts) /\ lastPut' \in [Turns -> Nat]
<1>1. t \in Turns /\ c \in Completes /\ ep \in Endpoints /\ Put(t, c)
      /\ complete' = Cleared([complete EXCEPT ![t] = c], gone)
      /\ uxByTurn' = Cleared(uxByTurn, both)
    BY Zenon DEF Merges
<1>2. /\ complete' \in [Turns -> Completes \cup {Absent}]
      /\ uxByTurn' \in [Turns -> Browsers \cup {Absent}]
      /\ \A u \in Turns :
            /\ complete'[u] = IF u \in gone THEN Absent ELSE IF u = t THEN c ELSE complete[u]
            /\ uxByTurn'[u] = IF u \in both THEN Absent ELSE uxByTurn[u]
    <2>1. complete \in [Turns -> Completes \cup {Absent}] /\ uxByTurn \in [Turns -> Browsers \cup {Absent}]
        BY DEF SessionTyped
    <2>2. /\ complete' \in [Turns -> Completes \cup {Absent}]
          /\ \A u \in Turns : complete'[u] =
                IF u \in gone THEN Absent ELSE IF u = t THEN c ELSE complete[u]
        BY <1>1, <2>1 DEF Cleared
    <2>3. /\ uxByTurn' \in [Turns -> Browsers \cup {Absent}]
          /\ \A u \in Turns : uxByTurn'[u] = IF u \in both THEN Absent ELSE uxByTurn[u]
        BY <1>1, <2>1 DEF Cleared
    <2> QED  BY <2>2, <2>3
<1>3. /\ OneMoreVersion(t, c) /\ puts' \in Seq(Puts) /\ lastPut' \in [Turns -> Nat]
    BY <1>1, PutMore
<1>4. CASE endpointByTurn[t] # Absent
    <2>1. UNCHANGED <<pendingEndpoint, pendingBarge, endpointByTurn>>
        BY <1>4 DEF Merges
    <2> QED  BY <1>2, <1>3, <1>4, <2>1 DEF SessionTyped
<1>5. CASE endpointByTurn[t] = Absent
    <2>1. pendingEndpoint' = Unmeasured /\ pendingBarge' = 0
          /\ endpointByTurn' = Cleared([endpointByTurn EXCEPT ![t] = ep], out)
        BY <1>5 DEF Merges
    <2>2. pendingEndpoint' \in Endpoints /\ pendingBarge' \in Nat
        BY <2>1 DEF Unmeasured, Endpoints
    <2>3. /\ endpointByTurn' \in [Turns -> Endpoints \cup {Absent}]
          /\ \A u \in Turns : endpointByTurn'[u] =
                IF u \in out THEN Absent ELSE IF u = t THEN ep ELSE endpointByTurn[u]
        BY <1>1, <2>1 DEF SessionTyped, Cleared
    <2> QED  BY <1>2, <1>3, <1>5, <2>2, <2>3
<1> QED  BY <1>4, <1>5

LEMMA NotedMaps ==
    ASSUME SessionTyped, NEW t, NEW next, NEW gone, NEW both, Notes(t, next, gone, both)
    PROVE  /\ \A u \in Turns :
                 uxByTurn'[u] = IF u \in both THEN Absent ELSE IF u = t THEN next ELSE uxByTurn[u]
           /\ uxByTurn' \in [Turns -> Browsers \cup {Absent}]
           /\ complete' \in [Turns -> Completes \cup {Absent}]
           /\ puts' \in Seq(Puts) /\ lastPut' \in [Turns -> Nat]
           /\ \/ /\ complete[t] = Absent /\ UNCHANGED puts
                 /\ \A u \in Turns : complete'[u] = IF u \in gone THEN Absent ELSE complete[u]
              \/ /\ complete[t] # Absent
                 /\ \E c \in Completes :
                       /\ c = [complete[t] EXCEPT !.ux = Spread(complete[t].ux, next, Absent)]
                       /\ OneMoreVersion(t, c)
                       /\ \A u \in Turns : complete'[u] =
                             IF u \in gone THEN Absent ELSE IF u = t THEN c ELSE complete[u]
<1>1. t \in Turns /\ next \in Browsers
      /\ uxByTurn' = Cleared([uxByTurn EXCEPT ![t] = next], both)
    BY Zenon DEF Notes
<1>2. /\ uxByTurn' \in [Turns -> Browsers \cup {Absent}]
      /\ \A u \in Turns :
            uxByTurn'[u] = IF u \in both THEN Absent ELSE IF u = t THEN next ELSE uxByTurn[u]
    BY <1>1 DEF SessionTyped, Cleared
<1>3. CASE complete[t] = Absent
    <2>1. complete' = Cleared(complete, gone) /\ UNCHANGED <<puts, lastPut>>
        BY <1>3 DEF Notes
    <2>2. /\ complete' \in [Turns -> Completes \cup {Absent}]
          /\ \A u \in Turns : complete'[u] = IF u \in gone THEN Absent ELSE complete[u]
        BY <2>1 DEF SessionTyped, Cleared
    <2>3. puts' \in Seq(Puts) /\ lastPut' \in [Turns -> Nat] /\ UNCHANGED puts
        BY <2>1 DEF SessionTyped
    <2> QED  BY <1>2, <1>3, <2>2, <2>3, Zenon
<1>4. CASE complete[t] # Absent
    <2>1. PICK c \in Completes :
              /\ c = [complete[t] EXCEPT !.ux = Spread(complete[t].ux, next, Absent)]
              /\ complete' = Cleared([complete EXCEPT ![t] = c], gone)
              /\ Put(t, c)
        BY <1>4, Zenon DEF Notes
    <2>2. /\ complete' \in [Turns -> Completes \cup {Absent}]
          /\ \A u \in Turns : complete'[u] =
                 IF u \in gone THEN Absent ELSE IF u = t THEN c ELSE complete[u]
        BY <1>1, <2>1 DEF SessionTyped, Cleared
    <2>3. OneMoreVersion(t, c) /\ puts' \in Seq(Puts) /\ lastPut' \in [Turns -> Nat]
        BY <1>1, <2>1, PutMore, Zenon
    <2> QED  BY <1>2, <1>4, <2>1, <2>2, <2>3, Zenon
<1> QED  BY <1>3, <1>4

LEMMA SpeechMovesFacts ==
    ASSUME SessionTyped, SpeechMoves
    PROVE  /\ pendingEndpoint' \in Endpoints /\ pendingBarge' \in Nat
           /\ speech' \in Nat /\ speech <= speech'
           /\ \A n \in Nat \ {0} :
                 (n = pendingBarge' \/ \E f \in EndpointFields : pendingEndpoint'[f] = n) =>
                     \/ n = speech + 1 /\ speech' = speech + 1
                     \/ n = pendingBarge
                     \/ \E f \in EndpointFields : pendingEndpoint[f] = n
<1>1. pendingEndpoint \in Endpoints /\ pendingBarge \in Nat /\ speech \in Nat
    BY DEF SessionTyped
<1>2. ASSUME NEW n \in Nat
      PROVE  /\ [pendingEndpoint EXCEPT !.e2e = n] \in Endpoints
             /\ [pendingEndpoint EXCEPT !.resumed = n] \in Endpoints
             /\ [Unmeasured EXCEPT !.eou = n] \in Endpoints
    BY <1>1 DEF Endpoints, Unmeasured
<1>3. pendingEndpoint.eou \in Nat /\ "eou" \in EndpointFields
    BY <1>1 DEF Endpoints, EndpointFields
<1>4. CASE OnAudioOut
    <2>1. /\ pendingEndpoint' = IF pendingEndpoint.eou = 0 THEN pendingEndpoint
                                ELSE [pendingEndpoint EXCEPT !.e2e = pendingEndpoint.eou]
          /\ pendingBarge' = pendingBarge /\ speech' = speech
        BY <1>4 DEF OnAudioOut
    <2>2. \A f \in EndpointFields : pendingEndpoint'[f] \in {pendingEndpoint[f], pendingEndpoint.eou}
        BY <1>1, <2>1 DEF Endpoints
    <2>3. pendingEndpoint' \in Endpoints
        BY <1>1, <1>2, <1>3, <2>1
    <2>4. \A n \in Nat, f \in EndpointFields : pendingEndpoint'[f] = n =>
              \E g \in EndpointFields : pendingEndpoint[g] = n
        BY <1>3, <2>2
    <2> QED  BY <1>1, <2>1, <2>3, <2>4
<1>5. CASE DetectBargeIn
    BY <1>1, <1>5 DEF DetectBargeIn
<1>6. CASE OnRecoveryWindowElapsed
    <2>1. /\ pendingEndpoint' = IF pendingEndpoint.eou = 0 THEN pendingEndpoint
                                ELSE [pendingEndpoint EXCEPT !.resumed = pendingEndpoint.eou]
          /\ pendingBarge' = 0 /\ speech' = speech
        BY <1>6 DEF OnRecoveryWindowElapsed, pending
    <2>2. \A f \in EndpointFields : pendingEndpoint'[f] \in {pendingEndpoint[f], pendingEndpoint.eou}
        BY <1>1, <2>1 DEF Endpoints
    <2>3. pendingEndpoint' \in Endpoints
        BY <1>1, <1>2, <1>3, <2>1
    <2>4. \A n \in Nat, f \in EndpointFields : pendingEndpoint'[f] = n =>
              \E g \in EndpointFields : pendingEndpoint[g] = n
        BY <1>3, <2>2
    <2> QED  BY <1>1, <2>1, <2>3, <2>4
<1>7. ASSUME NEW b \in BOOLEAN, OnTurnEnd(b)
      PROVE  /\ pendingEndpoint' \in Endpoints /\ pendingBarge' \in Nat
             /\ speech' \in Nat /\ speech <= speech'
             /\ \A n \in Nat \ {0} :
                   (n = pendingBarge' \/ \E f \in EndpointFields : pendingEndpoint'[f] = n) =>
                       \/ n = speech + 1 /\ speech' = speech + 1
                       \/ n = pendingBarge
                       \/ \E f \in EndpointFields : pendingEndpoint[f] = n
    <2>1. /\ pendingEndpoint' = IF b THEN [Unmeasured EXCEPT !.eou = speech + 1]
                                ELSE pendingEndpoint
          /\ pendingBarge' = 0 /\ speech' = speech + 1
        BY <1>7 DEF OnTurnEnd
    <2>2. \A f \in EndpointFields : pendingEndpoint'[f] \in {pendingEndpoint[f], speech + 1, 0}
        BY <1>1, <2>1 DEF Endpoints, Unmeasured
    <2>a. speech + 1 \in Nat /\ speech <= speech + 1
        BY <1>1
    <2>b. [Unmeasured EXCEPT !.eou = speech + 1] \in Endpoints
        BY <1>2, <2>a
    <2>3. pendingEndpoint' \in Endpoints /\ speech + 1 \in Nat /\ speech <= speech + 1
        BY <1>1, <2>1, <2>a, <2>b
    <2>4. \A n \in Nat \ {0}, f \in EndpointFields : pendingEndpoint'[f] = n =>
              n = speech + 1 \/ \E g \in EndpointFields : pendingEndpoint[g] = n
        BY <2>2
    <2> QED  BY <1>1, <2>1, <2>3, <2>4
<1> QED  BY <1>4, <1>5, <1>6, <1>7 DEF SpeechMoves

LEMMA StoreMovesTyped ==
    ASSUME SessionTyped, NEW w \in 1..Len(puts), StoreMoves(w)
    PROVE  /\ puts' \in Seq(Puts) /\ SameVersions
           /\ lastPut' \in [Turns -> Nat] /\ row' \in [Turns -> Nat]
<1>1. w \in Nat /\ puts \in Seq(Puts) /\ lastPut \in [Turns -> Nat] /\ row \in [Turns -> Nat]
    BY DEF SessionTyped
<1>2. (\E s : StateBecomes(w, s)) \/ UNCHANGED puts
    BY StoreMoveKinds, Zenon
<1>3. lastPut' = lastPut \/ lastPut' = [lastPut EXCEPT ![puts[w].turn] = 0]
    BY StoreMoveKinds, Zenon
<1>4. row' = row \/ row' = [row EXCEPT ![puts[w].turn] = w]
    BY StoreMoveKinds, Zenon
<1>5. puts' \in Seq(Puts) /\ SameVersions
    BY <1>1, <1>2 DEF StateBecomes, SameVersions
<1>6. lastPut' \in [Turns -> Nat]
    BY <1>1, <1>3
<1>7. row' \in [Turns -> Nat]
    BY <1>1, <1>4
<1> QED  BY <1>5, <1>6, <1>7

LEMMA TypesStart == MetricsInit => SessionTyped
    BY DEF MetricsInit, SessionTyped, Unmeasured, Endpoints, Turns

LEMMA TypesKeep ==
    ASSUME AbsentIsNothing, EngineInv, SessionTyped, MetricsNext
    PROVE  SessionTyped'
<1>1. CASE StoreRests /\ CachesRest /\ PendingRests
    BY <1>1 DEF SessionTyped, StoreRests, CachesRest, PendingRests
<1>2. CASE StoreRests /\ CachesRest /\ SpeechMoves
    BY <1>2, SpeechMovesFacts DEF SessionTyped, StoreRests, CachesRest
<1>3. CASE CachesRest /\ PendingRests /\ \E w \in 1..Len(puts) : StoreMoves(w)
    BY <1>3, StoreMovesTyped DEF SessionTyped, CachesRest, PendingRests
<1>4. CASE StoreRests /\ PendingRests /\ SessionEnds
    BY <1>4 DEF SessionTyped, StoreRests, PendingRests, SessionEnds
<1>5. CASE OnMetrics
    <2>1. PICK t, ep, c, out, gone, both : Merges(t, ep, c, out, gone, both) /\ UNCHANGED row
        BY <1>5, ReportMerges
    <2>2. speech' = speech
        BY <2>1 DEF Merges
    <2> QED  BY <2>1, <2>2, MergedMaps DEF SessionTyped
<1>6. CASE \E t \in Turns, measured \in Browsers : NoteUxTelemetry(t, measured)
    <2>1. PICK t, next, gone, both : Notes(t, next, gone, both)
        BY <1>6, MeasurementNotes
    <2>2. UNCHANGED <<speech, pendingEndpoint, pendingBarge, endpointByTurn, row>>
        BY <2>1 DEF Notes
    <2> QED  BY <2>1, <2>2, NotedMaps DEF SessionTyped
<1> QED  BY <1>1, <1>2, <1>3, <1>4, <1>5, <1>6, StepKinds

-----------------------------------------------------------------------------
(* One speech, one turn                                                      *)

\* Turn t has a figure of speech n: in the endpoint kept for it, in what is known
\* of it or in a version of its row.
Holds(t, n) ==
    \/ endpointByTurn[t] # Absent /\ \E f \in EndpointFields : endpointByTurn[t][f] = n
    \/ complete[t] # Absent /\ \E f \in EndpointFields : complete[t].ep[f] = n
    \/ \E i \in 1..Len(puts) :
          puts[i].turn = t /\ \E f \in EndpointFields : puts[i].what.ep[f] = n
Waiting(n) == n = pendingBarge \/ \E f \in EndpointFields : pendingEndpoint[f] = n

SpeechInv ==
    /\ \A n \in Nat \ {0} : Waiting(n) => n <= speech
    /\ \A n \in Nat \ {0}, t \in Turns : Holds(t, n) => n <= speech /\ ~Waiting(n)
    /\ \A n \in Nat \ {0}, t, u \in Turns : Holds(t, n) /\ Holds(u, n) => t = u

LEMMA SpeechStarts == MetricsInit => SpeechInv
<1> SUFFICES ASSUME MetricsInit PROVE SpeechInv
    OBVIOUS
<1>1. \A n \in Nat \ {0} : ~Waiting(n)
    BY DEF MetricsInit, Waiting, Unmeasured
<1>2. \A n \in Nat \ {0}, t \in Turns : ~Holds(t, n)
    BY DEF MetricsInit, Holds
<1> QED  BY <1>1, <1>2 DEF SpeechInv

\* Nobody gets a figure it had not.
LEMMA SpeechRests ==
    ASSUME SpeechInv, SessionTyped, speech' \in Nat, speech <= speech',
           \A n \in Nat \ {0}, t \in Turns : Holds(t, n)' => Holds(t, n),
           \A n \in Nat \ {0} : Waiting(n)' => Waiting(n) \/ (n = speech + 1 /\ speech' = speech + 1)
    PROVE  SpeechInv'
<1>1. speech \in Nat
    BY DEF SessionTyped
<1>2. \A n \in Nat \ {0} : Waiting(n)' => n <= speech'
    BY <1>1 DEF SpeechInv
<1>3. ASSUME NEW n \in Nat \ {0}, NEW t \in Turns, Holds(t, n)'
      PROVE  n <= speech' /\ ~Waiting(n)'
    <2>1. Holds(t, n) /\ n <= speech /\ ~Waiting(n)
        BY <1>3 DEF SpeechInv
    <2> QED  BY <1>1, <2>1
<1>4. \A n \in Nat \ {0}, t, u \in Turns : Holds(t, n)' /\ Holds(u, n)' => t = u
    BY DEF SpeechInv
<1> QED  BY <1>2, <1>3, <1>4 DEF SpeechInv

LEMMA SpeechKeeps ==
    ASSUME AbsentIsNothing, EngineInv, SessionTyped, SpeechInv, MetricsNext
    PROVE  SpeechInv'
<1>0. speech \in Nat /\ speech <= speech
    BY DEF SessionTyped
<1>v. ASSUME SameVersions, CachesRest
      PROVE  \A n \in Nat \ {0}, t \in Turns : Holds(t, n)' => Holds(t, n)
    BY <1>v DEF Holds, SameVersions, CachesRest
<1>s. ASSUME StoreRests PROVE SameVersions
    BY <1>s DEF StoreRests, SameVersions
<1>p. ASSUME PendingRests
      PROVE  /\ speech' \in Nat /\ speech <= speech'
             /\ \A n \in Nat \ {0} : Waiting(n)' => Waiting(n)
    BY <1>0, <1>p DEF PendingRests, Waiting
<1>1. CASE StoreRests /\ CachesRest /\ PendingRests
    BY <1>1, <1>v, <1>s, <1>p, SpeechRests
<1>2. CASE StoreRests /\ CachesRest /\ SpeechMoves
    <2>1. \A n \in Nat \ {0} : Waiting(n)' => Waiting(n) \/ (n = speech + 1 /\ speech' = speech + 1)
        BY <1>2, SpeechMovesFacts DEF Waiting
    <2>2. speech' \in Nat /\ speech <= speech'
        BY <1>2, SpeechMovesFacts
    <2> QED  BY <1>2, <1>v, <1>s, <2>1, <2>2, SpeechRests
<1>3. CASE CachesRest /\ PendingRests /\ \E w \in 1..Len(puts) : StoreMoves(w)
    <2>1. SameVersions
        BY <1>3, StoreMovesTyped
    <2> QED  BY <1>3, <1>v, <1>p, <2>1, SpeechRests
<1>4. CASE StoreRests /\ PendingRests /\ SessionEnds
    <2>1. \A t \in Turns : endpointByTurn'[t] = Absent /\ complete'[t] = Absent
        BY <1>4 DEF SessionEnds
    <2>2. \A n \in Nat \ {0}, t \in Turns : Holds(t, n)' => Holds(t, n)
        BY <1>4, <2>1 DEF Holds, StoreRests
    <2> QED  BY <1>4, <1>p, <2>2, SpeechRests
<1>5. CASE OnMetrics
    <2>1. PICK t, ep, c, out, gone, both : Merges(t, ep, c, out, gone, both) /\ UNCHANGED row
        BY <1>5, ReportMerges
    <2>2. t \in Turns /\ c \in Completes /\ ep \in Endpoints /\ speech' = speech
        BY <2>1 DEF Merges
    <2>3. /\ \A u \in Turns :
                /\ complete'[u] # Absent => (u = t /\ complete'[u] = c) \/ complete'[u] = complete[u]
                /\ endpointByTurn'[u] # Absent =>
                      \/ endpointByTurn'[u] = endpointByTurn[u]
                      \/ u = t /\ endpointByTurn[t] = Absent /\ endpointByTurn'[u] = ep
          /\ Len(puts') = Len(puts) + 1 /\ \A i \in 1..Len(puts) : puts'[i] = puts[i]
          /\ puts'[Len(puts) + 1].turn = t /\ puts'[Len(puts) + 1].what = c
        <3>1. OneMoreVersion(t, c)
              /\ \A u \in Turns :
                 /\ complete'[u] = IF u \in gone THEN Absent ELSE IF u = t THEN c ELSE complete[u]
                 /\ endpointByTurn'[u] = IF endpointByTurn[t] # Absent THEN endpointByTurn[u]
                                         ELSE IF u \in out THEN Absent
                                         ELSE IF u = t THEN ep ELSE endpointByTurn[u]
            BY <2>1, MergedMaps
        <3>2. /\ Len(puts') = Len(puts) + 1 /\ \A i \in 1..Len(puts) : puts'[i] = puts[i]
              /\ puts'[Len(puts) + 1].turn = t /\ puts'[Len(puts) + 1].what = c
            BY <3>1 DEF OneMoreVersion
        <3>3. \A u \in Turns : complete'[u] # Absent =>
                  (u = t /\ complete'[u] = c) \/ complete'[u] = complete[u]
            BY <3>1
        <3>4. \A u \in Turns : endpointByTurn'[u] # Absent =>
                  \/ endpointByTurn'[u] = endpointByTurn[u]
                  \/ u = t /\ endpointByTurn[t] = Absent /\ endpointByTurn'[u] = ep
            BY <3>1
        <3> QED  BY <3>2, <3>3, <3>4
    <2>4. \A f \in EndpointFields : c.ep[f] = ep[f] \/ (complete[t] # Absent /\ c.ep[f] = complete[t].ep[f])
        <3>1. CASE complete[t] = Absent
            BY <2>1, <3>1 DEF Merges
        <3>2. CASE complete[t] # Absent
            <4>1. c.ep = Spread(complete[t].ep, ep, 0)
                BY <2>1, <3>2 DEF Merges
            <4>2. complete[t].ep \in [EndpointFields -> Nat]
                BY <2>2, <3>2 DEF SessionTyped, Completes, Endpoints
            <4> QED  BY <3>2, <4>1, <4>2 DEF Spread
        <3> QED  BY <3>1, <3>2
    \* What t has now it had, or it waited.
    <2>5. ASSUME NEW n \in Nat \ {0}, NEW f \in EndpointFields, ep[f] = n
          PROVE  Holds(t, n) \/ (Waiting(n) /\ endpointByTurn[t] = Absent)
        <3>1. CASE endpointByTurn[t] # Absent
            <4>1. ep = endpointByTurn[t]
                BY <2>1, <3>1 DEF Merges
            <4> QED  BY <2>5, <3>1, <4>1 DEF Holds
        <3>2. CASE endpointByTurn[t] = Absent
            <4>1. ep[f] \in {pendingEndpoint[f], pendingBarge}
                BY <2>1, <3>2 DEF Merges
            <4> QED  BY <2>5, <3>2, <4>1 DEF Waiting
        <3> QED  BY <3>1, <3>2
    <2>6. ASSUME NEW n \in Nat \ {0}, NEW f \in EndpointFields, c.ep[f] = n
          PROVE  Holds(t, n) \/ (Waiting(n) /\ endpointByTurn[t] = Absent)
        BY <2>4, <2>5, <2>6 DEF Holds
    <2>7. ASSUME NEW n \in Nat \ {0}, NEW u \in Turns, Holds(u, n)'
          PROVE  Holds(u, n) \/ (u = t /\ Waiting(n) /\ endpointByTurn[t] = Absent)
        <3>1. CASE endpointByTurn'[u] # Absent /\ \E f \in EndpointFields : endpointByTurn'[u][f] = n
            <4>1. PICK f \in EndpointFields : endpointByTurn'[u][f] = n
                BY <3>1
            <4>2. CASE endpointByTurn'[u] = endpointByTurn[u]
                BY <3>1, <4>1, <4>2 DEF Holds
            <4>3. CASE u = t /\ endpointByTurn'[u] = ep
                BY <2>5, <4>1, <4>3
            <4> QED  BY <2>3, <3>1, <4>2, <4>3
        <3>2. CASE complete'[u] # Absent /\ \E f \in EndpointFields : complete'[u].ep[f] = n
            <4>1. PICK f \in EndpointFields : complete'[u].ep[f] = n
                BY <3>2
            <4>2. CASE complete'[u] = complete[u]
                BY <3>2, <4>1, <4>2 DEF Holds
            <4>3. CASE u = t /\ complete'[u] = c
                BY <2>6, <4>1, <4>3
            <4> QED  BY <2>3, <3>2, <4>2, <4>3
        <3>3. CASE \E i \in 1..Len(puts') :
                      puts'[i].turn = u /\ \E f \in EndpointFields : puts'[i].what.ep[f] = n
            <4>1. PICK i \in 1..Len(puts'), f \in EndpointFields :
                      puts'[i].turn = u /\ puts'[i].what.ep[f] = n
                BY <3>3
            <4>2. Len(puts) \in Nat
                BY DEF SessionTyped
            <4>3. CASE i \in 1..Len(puts)
                BY <2>3, <4>1, <4>3 DEF Holds
            <4>4. CASE i = Len(puts) + 1
                <5>1. u = t /\ c.ep[f] = n
                    BY <2>3, <4>1, <4>4
                <5> QED  BY <2>6, <5>1
            <4> QED  BY <2>3, <4>1, <4>2, <4>3, <4>4
        <3> QED  BY <2>7, <3>1, <3>2, <3>3 DEF Holds
    <2>8. ASSUME NEW n \in Nat \ {0}, Waiting(n)'
          PROVE  Waiting(n) /\ endpointByTurn[t] # Absent
        <3>1. CASE endpointByTurn[t] # Absent
            <4>1. UNCHANGED <<pendingEndpoint, pendingBarge>>
                BY <2>1, <3>1 DEF Merges
            <4> QED  BY <2>8, <3>1, <4>1 DEF Waiting
        <3>2. CASE endpointByTurn[t] = Absent
            <4>1. pendingEndpoint' = Unmeasured /\ pendingBarge' = 0
                BY <2>1, <3>2 DEF Merges
            <4> QED  BY <2>8, <4>1 DEF Waiting, Unmeasured
        <3> QED  BY <3>1, <3>2
    <2>9. ASSUME NEW n \in Nat \ {0}, NEW u \in Turns, Holds(u, n)'
          PROVE  n <= speech' /\ ~Waiting(n)'
        BY <2>2, <2>7, <2>8, <2>9 DEF SpeechInv
    <2>10. \A n \in Nat \ {0} : Waiting(n)' => n <= speech'
        BY <2>2, <2>8 DEF SpeechInv
    <2>11. ASSUME NEW n \in Nat \ {0}, NEW u \in Turns, NEW v \in Turns, Holds(u, n)', Holds(v, n)'
           PROVE  u = v
        <3>1. Holds(u, n) \/ (u = t /\ Waiting(n))
            BY <2>7, <2>11
        <3>2. Holds(v, n) \/ (v = t /\ Waiting(n))
            BY <2>7, <2>11
        <3> QED  BY <3>1, <3>2 DEF SpeechInv
    <2> QED  BY <2>9, <2>10, <2>11 DEF SpeechInv
<1>6. CASE \E t \in Turns, measured \in Browsers : NoteUxTelemetry(t, measured)
    <2>1. PICK t, next, gone, both : Notes(t, next, gone, both)
        BY <1>6, MeasurementNotes
    <2>2. UNCHANGED <<speech, pendingEndpoint, pendingBarge, endpointByTurn>> /\ t \in Turns
        BY <2>1 DEF Notes
    <2>3. CASE /\ complete[t] = Absent /\ UNCHANGED puts
               /\ \A u \in Turns : complete'[u] = IF u \in gone THEN Absent ELSE complete[u]
        <3>1. \A n \in Nat \ {0}, u \in Turns : Holds(u, n)' => Holds(u, n)
            BY <2>2, <2>3 DEF Holds
        <3> QED  BY <1>0, <2>2, <3>1, SpeechRests DEF Waiting
    <2>4. CASE /\ complete[t] # Absent
               /\ \E c \in Completes :
                     /\ c = [complete[t] EXCEPT !.ux = Spread(complete[t].ux, next, Absent)]
                     /\ OneMoreVersion(t, c)
                     /\ \A u \in Turns : complete'[u] =
                           IF u \in gone THEN Absent ELSE IF u = t THEN c ELSE complete[u]
        <3>1. PICK c \in Completes :
                     /\ c = [complete[t] EXCEPT !.ux = Spread(complete[t].ux, next, Absent)]
                     /\ OneMoreVersion(t, c)
                     /\ \A u \in Turns : complete'[u] =
                           IF u \in gone THEN Absent ELSE IF u = t THEN c ELSE complete[u]
            BY <2>4
        <3>2. c.ep = complete[t].ep
            BY <2>2, <2>4, <3>1 DEF SessionTyped, Completes
        <3>3. /\ Len(puts') = Len(puts) + 1 /\ \A i \in 1..Len(puts) : puts'[i] = puts[i]
              /\ puts'[Len(puts) + 1].turn = t /\ puts'[Len(puts) + 1].what = c
            BY <3>1 DEF OneMoreVersion
        <3>4. Len(puts) \in Nat
            BY DEF SessionTyped
        <3>5. \A i \in 1..Len(puts') : i \in 1..Len(puts) \/ i = Len(puts) + 1
            BY <3>3, <3>4
        <3>6. ASSUME NEW n \in Nat \ {0}, NEW u \in Turns, Holds(u, n)'
              PROVE  Holds(u, n)
            <4>1. CASE endpointByTurn'[u] # Absent /\ \E f \in EndpointFields : endpointByTurn'[u][f] = n
                BY <2>2, <4>1 DEF Holds
            <4>2. CASE complete'[u] # Absent /\ \E f \in EndpointFields : complete'[u].ep[f] = n
                <5>1. complete'[u] = complete[u] \/ (u = t /\ complete'[u] = c)
                    BY <3>1, <4>2
                <5> QED  BY <2>4, <3>2, <4>2, <5>1 DEF Holds
            <4>3. CASE \E i \in 1..Len(puts') :
                          puts'[i].turn = u /\ \E f \in EndpointFields : puts'[i].what.ep[f] = n
                <5>1. PICK i \in 1..Len(puts'), f \in EndpointFields :
                          puts'[i].turn = u /\ puts'[i].what.ep[f] = n
                    BY <4>3
                <5>2. CASE i \in 1..Len(puts)
                    BY <3>3, <5>1, <5>2 DEF Holds
                <5>3. CASE i = Len(puts) + 1
                    BY <2>4, <3>2, <3>3, <5>1, <5>3 DEF Holds
                <5> QED  BY <3>5, <5>2, <5>3
            <4> QED  BY <3>6, <4>1, <4>2, <4>3 DEF Holds
        <3> QED  BY <1>0, <2>2, <3>6, SpeechRests DEF Waiting
    <2> QED  BY <2>1, <2>3, <2>4, NotedMaps
<1> QED  BY <1>1, <1>2, <1>3, <1>4, <1>5, <1>6, StepKinds

LEMMA OneTurnFollows == SessionTyped /\ SpeechInv => SpeechHasOneTurn
<1> SUFFICES ASSUME SessionTyped, SpeechInv,
                    NEW i \in 1..Len(puts), NEW j \in 1..Len(puts), NEW f \in EndpointFields,
                    puts[i].what.ep[f] # 0, puts[i].what.ep[f] = puts[j].what.ep[f]
             PROVE  puts[i].turn = puts[j].turn
    BY DEF SpeechHasOneTurn
<1>1. puts[i] \in Puts /\ puts[j] \in Puts
    BY DEF SessionTyped
<1>2. puts[i].turn \in Turns /\ puts[j].turn \in Turns /\ puts[i].what.ep \in Endpoints
    BY <1>1 DEF Puts, Completes
<1>3. puts[i].what.ep[f] \in Nat \ {0}
    BY <1>2 DEF Endpoints
<1> DEFINE n == puts[i].what.ep[f]
<1>4. Holds(puts[i].turn, n) /\ Holds(puts[j].turn, n)
    BY DEF Holds
<1> HIDE DEF n
<1> QED  BY <1>2, <1>3, <1>4 DEF SpeechInv, n

-----------------------------------------------------------------------------
(* What a version has its successors have                                    *)

UxBelow(a, b) == \A f \in Fields : a[f] # Absent => b[f] = a[f]

\* Version a of turn t stands behind what the engine and the maps know of t.
Carried(a, t) ==
    /\ metric[t] # Absent /\ Below(a.em, metric[t])
    /\ complete[t] # Absent => Below(a.em, complete[t].em)
    /\ t \notin outrun => endpointByTurn[t] # Absent /\ a.ep = endpointByTurn[t]
    /\ t \notin dropped => complete[t] # Absent /\ UxBelow(a.ux, complete[t].ux)
TurnKept(t) ==
    complete[t] # Absent =>
        /\ metric[t] # Absent /\ Below(complete[t].em, metric[t])
        /\ t \notin outrun => endpointByTurn[t] # Absent /\ complete[t].ep = endpointByTurn[t]
        /\ t \notin dropped => complete[t].ux = UxOf(t)
\* Version b of t comes after a.
Leads(a, b, t) ==
    /\ Below(a.em, b.em)
    /\ t \notin outrun => b.ep = a.ep
    /\ t \notin dropped => UxBelow(a.ux, b.ux)

KeptInv ==
    /\ \A i \in 1..Len(puts) : Carried(puts[i].what, puts[i].turn)
    /\ \A t \in Turns : TurnKept(t)
    /\ \A i, j \in 1..Len(puts) :
          i < j /\ puts[i].turn = puts[j].turn =>
              Leads(puts[i].what, puts[j].what, puts[i].turn)

LEMMA KeptStarts == MetricsInit => KeptInv
    BY DEF MetricsInit, KeptInv, TurnKept

LEMMA NothingIsLostFollows == KeptInv => NothingIsLost
    BY DEF KeptInv, Leads, Below, UxBelow, NothingIsLost

LEMMA PutsTyped ==
    ASSUME SessionTyped
    PROVE  /\ Len(puts) \in Nat
           /\ \A i \in 1..Len(puts) : puts[i].turn \in Turns /\ puts[i].what \in Completes
<1>1. \A i \in 1..Len(puts) : puts[i] \in Puts
    BY DEF SessionTyped
<1> QED  BY <1>1 DEF Puts, SessionTyped

\* Steps that write nothing new: the maps rest or are emptied.
LEMMA KeptRests ==
    ASSUME SessionTyped, KeptInv, SameVersions, Gains,
           CachesRest \/ (dropped' = Turns /\ outrun' = Turns /\ \A t \in Turns : complete'[t] = Absent)
    PROVE  KeptInv'
<1>1. Len(puts) \in Nat /\ \A i \in 1..Len(puts) : puts[i].turn \in Turns
    BY PutsTyped
<1>2. /\ Len(puts') = Len(puts)
      /\ \A i \in 1..Len(puts) : puts'[i].turn = puts[i].turn /\ puts'[i].what = puts[i].what
    BY DEF SameVersions
<1>3. CASE CachesRest
    <2>0. UNCHANGED <<endpointByTurn, uxByTurn, complete, dropped, outrun>>
        BY <1>3 DEF CachesRest
    <2>1. ASSUME NEW a, NEW t \in Turns, Carried(a, t) PROVE Carried(a, t)'
        <3>1. metric'[t] # Absent /\ Below(a.em, metric'[t])
            BY <2>1, BelowFurther DEF Carried, Gains
        <3> QED  BY <2>0, <2>1, <3>1 DEF Carried
    <2>2. ASSUME NEW t \in Turns PROVE TurnKept(t)'
        <3>1. CASE complete[t] = Absent
            BY <2>0, <3>1 DEF TurnKept
        <3>2. CASE complete[t] # Absent
            <4>1. /\ metric[t] # Absent /\ Below(complete[t].em, metric[t])
                  /\ t \notin outrun => endpointByTurn[t] # Absent /\ complete[t].ep = endpointByTurn[t]
                  /\ t \notin dropped => complete[t].ux = UxOf(t)
                BY <3>2 DEF KeptInv, TurnKept
            <4>2. metric'[t] # Absent /\ Below(complete[t].em, metric'[t])
                BY <4>1, BelowFurther DEF Gains
            <4>3. UxOf(t)' = UxOf(t)
                BY <2>0 DEF UxOf
            <4> QED  BY <2>0, <4>1, <4>2, <4>3 DEF TurnKept
        <3> QED  BY <3>1, <3>2
    <2>3. \A i \in 1..Len(puts') : Carried(puts[i].what, puts[i].turn)'
        <3>1. \A i \in 1..Len(puts) : Carried(puts[i].what, puts[i].turn)
            BY DEF KeptInv
        <3> SUFFICES ASSUME NEW i \in 1..Len(puts') PROVE Carried(puts[i].what, puts[i].turn)'
            OBVIOUS
        <3>2. PICK a, t : a = puts[i].what /\ t = puts[i].turn
            OBVIOUS
        <3>3. Carried(a, t) /\ t \in Turns /\ puts'[i].turn = t /\ puts'[i].what = a
            BY <1>1, <1>2, <3>1, <3>2
        <3>4. Carried(a, t)'
            BY <2>1, <3>3
        <3> QED  BY <3>3, <3>4 DEF Carried
    <2> QED  BY <1>1, <1>2, <2>0, <2>2, <2>3 DEF KeptInv, Leads
<1>4. CASE dropped' = Turns /\ outrun' = Turns /\ \A t \in Turns : complete'[t] = Absent
    <2>1. \A i \in 1..Len(puts') : Carried(puts[i].what, puts[i].turn)'
        <3> SUFFICES ASSUME NEW i \in 1..Len(puts') PROVE Carried(puts[i].what, puts[i].turn)'
            OBVIOUS
        <3>1. puts[i].turn \in Turns
              /\ puts'[i].turn = puts[i].turn /\ puts'[i].what = puts[i].what
            BY <1>1, <1>2
        <3>2. metric[puts[i].turn] # Absent /\ Below(puts[i].what.em, metric[puts[i].turn])
            BY <1>2 DEF KeptInv, Carried
        <3>3. metric'[puts[i].turn] # Absent /\ Below(puts[i].what.em, metric'[puts[i].turn])
            BY <3>1, <3>2, BelowFurther DEF Gains
        <3> QED  BY <1>4, <3>1, <3>3 DEF Carried
    <2>2. \A t \in Turns : TurnKept(t)'
        BY <1>4 DEF TurnKept
    <2>3. \A i, j \in 1..Len(puts') :
              i < j /\ puts'[i].turn = puts'[j].turn =>
                  Leads(puts[i].what, puts[j].what, puts[i].turn)'
        BY <1>1, <1>2, <1>4 DEF KeptInv, Leads
    <2> QED  BY <2>1, <2>2, <2>3 DEF KeptInv
<1> QED  BY <1>3, <1>4

\* What a step leaves of the maps for a turn it does not write of.
OthersKept(u) ==
    /\ complete'[u] # Absent => complete'[u] = complete[u]
    /\ u \notin outrun' => endpointByTurn'[u] = endpointByTurn[u]
    /\ u \notin dropped' => complete'[u] = complete[u] /\ uxByTurn'[u] = uxByTurn[u]

LEMMA OthersCarried ==
    ASSUME NEW u \in Turns, OthersKept(u), outrun \subseteq outrun', dropped \subseteq dropped',
           metric' = metric
    PROVE  /\ \A a : Carried(a, u) => Carried(a, u)'
           /\ TurnKept(u) => TurnKept(u)'
<1>1. ASSUME NEW a, Carried(a, u) PROVE Carried(a, u)'
    BY <1>1 DEF Carried, OthersKept
<1>2. ASSUME TurnKept(u) PROVE TurnKept(u)'
    <2>1. u \notin dropped' => UxOf(u)' = UxOf(u)
        BY DEF OthersKept, UxOf
    <2> QED  BY <1>2, <2>1 DEF TurnKept, OthersKept
<1> QED  BY <1>1, <1>2

LEMMA KeptOneMore ==
    ASSUME AbsentIsNothing, SessionTyped, KeptInv, NEW t \in Turns, NEW c \in Completes,
           OneMoreVersion(t, c), metric' = metric, metric[t] # Absent, Below(c.em, metric[t]),
           outrun \subseteq outrun', dropped \subseteq dropped',
           \A u \in Turns : u # t => OthersKept(u),
           complete'[t] # Absent => complete'[t] = c,
           t \notin dropped' => complete'[t] = c /\ c.ux = UxOf(t)',
           t \notin outrun' => endpointByTurn'[t] # Absent /\ c.ep = endpointByTurn'[t]
                               /\ (endpointByTurn[t] # Absent => c.ep = endpointByTurn[t]),
           \A a : Carried(a, t) =>
               Below(a.em, c.em) /\ (t \notin dropped' => UxBelow(a.ux, c.ux))
    PROVE  KeptInv'
<1>0. Len(puts) \in Nat /\ \A i \in 1..Len(puts) : puts[i].turn \in Turns
    BY PutsTyped
<1>1. /\ Len(puts') = Len(puts) + 1
      /\ \A i \in 1..Len(puts) : puts'[i].turn = puts[i].turn /\ puts'[i].what = puts[i].what
      /\ puts'[Len(puts) + 1].turn = t /\ puts'[Len(puts) + 1].what = c
    BY DEF OneMoreVersion
<1>2. c # Absent
    BY DEF AbsentIsNothing
<1>3. ASSUME NEW a, Carried(a, t)
      PROVE  Carried(a, t)' /\ Leads(a, c, t)'
    <2>1. Below(a.em, c.em) /\ (t \notin dropped' => UxBelow(a.ux, c.ux))
        BY <1>3
    <2>2. t \notin outrun' => c.ep = a.ep
        BY <1>3 DEF Carried
    <2>3. Leads(a, c, t)'
        BY <2>1, <2>2 DEF Leads
    <2>4. Carried(a, t)'
        BY <1>2, <1>3, <2>1, <2>2 DEF Carried
    <2> QED  BY <2>3, <2>4
<1>4. Carried(c, t)'
    BY <1>2, BelowItself DEF Carried, UxBelow
<1>5. ASSUME NEW u \in Turns PROVE TurnKept(u)'
    <2>1. CASE u = t
        BY <2>1 DEF TurnKept
    <2>2. CASE u # t
        BY <2>2, OthersCarried DEF KeptInv
    <2> QED  BY <2>1, <2>2
<1>6. ASSUME NEW a, NEW u \in Turns, Carried(a, u) PROVE Carried(a, u)'
    <2>1. CASE u = t
        BY <1>3, <1>6, <2>1
    <2>2. CASE u # t
        BY <1>6, <2>2, OthersCarried
    <2> QED  BY <2>1, <2>2
<1>7. ASSUME NEW i \in 1..Len(puts')
      PROVE  Carried(puts[i].what, puts[i].turn)'
    <2>1. CASE i \in 1..Len(puts)
        <3>1. PICK a, u : a = puts[i].what /\ u = puts[i].turn
            OBVIOUS
        <3>2. Carried(a, u) /\ u \in Turns /\ puts'[i].turn = u /\ puts'[i].what = a
            BY <1>0, <1>1, <2>1, <3>1 DEF KeptInv
        <3>3. Carried(a, u)'
            BY <1>6, <3>2
        <3> QED  BY <3>2, <3>3 DEF Carried
    <2>2. CASE i = Len(puts) + 1
        BY <1>1, <1>4, <2>2 DEF Carried
    <2> QED  BY <1>0, <1>1, <2>1, <2>2
<1>8. ASSUME NEW i \in 1..Len(puts'), NEW j \in 1..Len(puts'), i < j,
             puts'[i].turn = puts'[j].turn
      PROVE  Leads(puts[i].what, puts[j].what, puts[i].turn)'
    <2>0. i \in 1..Len(puts) /\ (j \in 1..Len(puts) \/ j = Len(puts) + 1)
        BY <1>0, <1>1, <1>8
    <2>1. PICK a, b, u : a = puts[i].what /\ b = puts'[j].what /\ u = puts[i].turn
        OBVIOUS
    <2>2. puts'[i].what = a /\ puts'[i].turn = u
        BY <1>1, <2>0, <2>1
    <2>3. CASE j \in 1..Len(puts)
        <3>1. Leads(a, b, u)
            BY <1>1, <1>8, <2>0, <2>1, <2>3 DEF KeptInv
        <3> QED  BY <2>1, <2>2, <3>1 DEF Leads
    <2>4. CASE j = Len(puts) + 1
        <3>1. u = t /\ b = c /\ Carried(a, t)
            BY <1>1, <1>8, <2>0, <2>1, <2>4 DEF KeptInv
        <3>2. Leads(a, b, u)'
            BY <1>3, <3>1
        <3> QED  BY <2>1, <2>2, <3>2 DEF Leads
    <2> QED  BY <2>0, <2>3, <2>4
<1> QED  BY <1>5, <1>7, <1>8 DEF KeptInv

LEMMA KeptMerges ==
    ASSUME AbsentIsNothing, EngineInv, SessionTyped, KeptInv,
           NEW t, NEW ep, NEW c, NEW out, NEW gone, NEW both, Merges(t, ep, c, out, gone, both)
    PROVE  KeptInv'
<1>1. /\ t \in Turns /\ c \in Completes /\ ep \in Endpoints /\ metric[t] # Absent
      /\ c.em = metric[t] /\ metric' = metric
      /\ gone \subseteq both /\ dropped' = dropped \cup both
    BY DEF Merges
<1>2. /\ OneMoreVersion(t, c)
      /\ \A u \in Turns :
            /\ complete'[u] = IF u \in gone THEN Absent ELSE IF u = t THEN c ELSE complete[u]
            /\ uxByTurn'[u] = IF u \in both THEN Absent ELSE uxByTurn[u]
            /\ endpointByTurn'[u] = IF endpointByTurn[t] # Absent THEN endpointByTurn[u]
                                    ELSE IF u \in out THEN Absent
                                    ELSE IF u = t THEN ep ELSE endpointByTurn[u]
    BY MergedMaps
<1>3. /\ outrun \subseteq outrun'
      /\ endpointByTurn[t] # Absent => ep = endpointByTurn[t]
      /\ endpointByTurn[t] = Absent => outrun' = outrun \cup out
    BY DEF Merges
<1>4. TurnKept(t) /\ UxOf(t) \in Browsers
    BY <1>1, UxOfFacts DEF KeptInv
<1>5. ep # Absent /\ c # Absent
    BY <1>1 DEF AbsentIsNothing
<1>6. \A u \in Turns : u # t => OthersKept(u)
    BY <1>1, <1>2, <1>3 DEF OthersKept
<1>7. t \notin outrun' => c.ep = ep /\ endpointByTurn'[t] = ep
    <2>1. ASSUME t \notin outrun' PROVE endpointByTurn'[t] = ep
        BY <1>1, <1>2, <1>3, <2>1
    <2>2. ASSUME t \notin outrun' PROVE c.ep = ep
        <3>1. CASE complete[t] = Absent
            BY <3>1 DEF Merges
        <3>2. CASE complete[t] # Absent
            <4>1. t \notin outrun
                BY <1>3, <2>2
            <4>2. complete[t].ep = ep
                BY <1>3, <1>4, <3>2, <4>1 DEF TurnKept
            <4>3. c.ep = Spread(ep, ep, 0)
                BY <3>2, <4>2 DEF Merges
            <4> QED  BY <1>1, <4>3, SpreadOver DEF Endpoints
        <3> QED  BY <3>1, <3>2
    <2> QED  BY <2>1, <2>2
<1>8. t \notin dropped' => c.ux = UxOf(t) /\ UxOf(t)' = UxOf(t) /\ complete'[t] = c
    <2>0. ASSUME t \notin dropped' PROVE UxOf(t)' = UxOf(t) /\ complete'[t] = c
        BY <1>1, <1>2, <2>0 DEF UxOf
    <2>1. ASSUME t \notin dropped' PROVE c.ux = UxOf(t)
        <3>1. CASE complete[t] = Absent
            BY <3>1 DEF Merges
        <3>2. CASE complete[t] # Absent
            <4>1. complete[t].ux = UxOf(t)
                BY <1>1, <1>4, <2>1, <3>2 DEF TurnKept
            <4>2. c.ux = Spread(UxOf(t), UxOf(t), Absent)
                BY <3>2, <4>1 DEF Merges
            <4> QED  BY <1>4, <4>2, SpreadOver DEF Browsers
        <3> QED  BY <3>1, <3>2
    <2> QED  BY <2>0, <2>1
<1>9. ASSUME NEW a, Carried(a, t)
      PROVE  Below(a.em, c.em) /\ (t \notin dropped' => UxBelow(a.ux, c.ux))
    <2>1. Below(a.em, c.em)
        BY <1>1, <1>9 DEF Carried
    <2>2. ASSUME t \notin dropped' PROVE UxBelow(a.ux, c.ux)
        BY <1>1, <1>4, <1>8, <1>9, <2>2 DEF Carried, TurnKept
    <2> QED  BY <2>1, <2>2
<1>10. complete'[t] # Absent => complete'[t] = c
    BY <1>1, <1>2
<1>11. dropped \subseteq dropped' /\ Below(c.em, metric[t])
    BY <1>1, BelowItself
<1>12. t \notin outrun' => endpointByTurn'[t] # Absent /\ c.ep = endpointByTurn'[t]
                           /\ (endpointByTurn[t] # Absent => c.ep = endpointByTurn[t])
    BY <1>3, <1>5, <1>7
<1>13. t \notin dropped' => complete'[t] = c /\ c.ux = UxOf(t)'
    BY <1>8
<1> QED
    BY <1>1, <1>2, <1>3, <1>6, <1>9, <1>10, <1>11, <1>12, <1>13, KeptOneMore

LEMMA KeptNotes ==
    ASSUME AbsentIsNothing, EngineInv, SessionTyped, KeptInv,
           NEW t, NEW next, NEW gone, NEW both, Notes(t, next, gone, both)
    PROVE  KeptInv'
<1>1. /\ t \in Turns /\ next \in Browsers /\ metric' = metric
      /\ \A f \in Fields : UxOf(t)[f] # Absent => next[f] = UxOf(t)[f]
      /\ gone \subseteq both /\ dropped' = dropped \cup both
      /\ UNCHANGED <<endpointByTurn, outrun>>
    BY DEF Notes
<1>2. \A u \in Turns :
          uxByTurn'[u] = IF u \in both THEN Absent ELSE IF u = t THEN next ELSE uxByTurn[u]
    BY NotedMaps
<1>3. next # Absent /\ dropped \subseteq dropped' /\ outrun \subseteq outrun'
    BY <1>1 DEF AbsentIsNothing
<1>4. TurnKept(t) /\ UxOf(t) \in Browsers
    BY <1>1, UxOfFacts DEF KeptInv
<1>5. CASE /\ complete[t] = Absent /\ UNCHANGED puts
           /\ \A u \in Turns : complete'[u] = IF u \in gone THEN Absent ELSE complete[u]
    <2>0. Len(puts) \in Nat /\ \A i \in 1..Len(puts) : puts[i].turn \in Turns
        BY PutsTyped
    <2>1. \A u \in Turns : u # t => OthersKept(u)
        BY <1>1, <1>2, <1>5 DEF OthersKept
    <2>2. complete'[t] = Absent
        BY <1>1, <1>5
    <2>3. ASSUME NEW u \in Turns PROVE TurnKept(u)'
        <3>1. CASE u = t
            BY <2>2, <3>1 DEF TurnKept
        <3>2. CASE u # t
            BY <1>1, <1>3, <2>1, <3>2, OthersCarried DEF KeptInv
        <3> QED  BY <3>1, <3>2
    <2>4. ASSUME NEW a, NEW u \in Turns, Carried(a, u) PROVE Carried(a, u)'
        <3>1. CASE u = t
            <4>1. t \in dropped'
                BY <1>3, <1>5, <2>4, <3>1 DEF Carried
            <4> QED  BY <1>1, <2>2, <2>4, <3>1, <4>1 DEF Carried
        <3>2. CASE u # t
            BY <1>1, <1>3, <2>1, <2>4, <3>2, OthersCarried
        <3> QED  BY <3>1, <3>2
    <2>5. ASSUME NEW i \in 1..Len(puts') PROVE Carried(puts[i].what, puts[i].turn)'
        <3>1. PICK a, u : a = puts[i].what /\ u = puts[i].turn
            OBVIOUS
        <3>2. Carried(a, u) /\ u \in Turns /\ puts'[i].turn = u /\ puts'[i].what = a
            BY <1>5, <2>0, <3>1 DEF KeptInv
        <3>3. Carried(a, u)'
            BY <2>4, <3>2
        <3> QED  BY <3>2, <3>3 DEF Carried
    <2>6. \A i, j \in 1..Len(puts') :
              i < j /\ puts'[i].turn = puts'[j].turn =>
                  Leads(puts[i].what, puts[j].what, puts[i].turn)'
        BY <1>3, <1>5 DEF KeptInv, Leads
    <2> QED  BY <2>3, <2>5, <2>6 DEF KeptInv
<1>6. CASE /\ complete[t] # Absent
           /\ \E c \in Completes :
                 /\ c = [complete[t] EXCEPT !.ux = Spread(complete[t].ux, next, Absent)]
                 /\ OneMoreVersion(t, c)
                 /\ \A u \in Turns : complete'[u] =
                       IF u \in gone THEN Absent ELSE IF u = t THEN c ELSE complete[u]
    <2>1. PICK c \in Completes :
                 /\ c = [complete[t] EXCEPT !.ux = Spread(complete[t].ux, next, Absent)]
                 /\ OneMoreVersion(t, c)
                 /\ \A u \in Turns : complete'[u] =
                       IF u \in gone THEN Absent ELSE IF u = t THEN c ELSE complete[u]
        BY <1>6
    <2>2. complete[t] \in Completes
        BY <1>1, <1>6 DEF SessionTyped
    <2>3. c.ep = complete[t].ep /\ c.em = complete[t].em
          /\ c.ux = Spread(complete[t].ux, next, Absent)
        BY <2>1, <2>2 DEF Completes
    <2>4. \A u \in Turns : u # t => OthersKept(u)
        BY <1>1, <1>2, <2>1 DEF OthersKept
    <2>5. metric[t] # Absent /\ Below(c.em, metric[t])
        BY <1>4, <1>6, <2>3 DEF TurnKept
    <2>6. t \notin outrun' => endpointByTurn'[t] # Absent /\ c.ep = endpointByTurn'[t]
                              /\ (endpointByTurn[t] # Absent => c.ep = endpointByTurn[t])
        BY <1>1, <1>4, <1>6, <2>3 DEF TurnKept
    <2>7. ASSUME t \notin dropped'
          PROVE  c.ux = next /\ UxOf(t)' = next /\ complete'[t] = c /\ complete[t].ux = UxOf(t)
        <3>1. complete[t].ux = UxOf(t)
            BY <1>3, <1>4, <1>6, <2>7 DEF TurnKept
        <3>2. uxByTurn'[t] = next /\ complete'[t] = c
            BY <1>1, <1>2, <2>1, <2>7
        <3>3. UxOf(t)' = next
            BY <1>3, <3>2 DEF UxOf
        <3>4. Spread(UxOf(t), next, Absent) = next
            <4>1. UxOf(t) \in [Fields -> Values \cup {Absent}] /\ next \in [Fields -> Values \cup {Absent}]
                BY <1>1, <1>4 DEF Browsers
            <4>2. \A f \in Fields : (IF next[f] = Absent THEN UxOf(t)[f] ELSE next[f]) = next[f]
                BY <1>1
            <4> QED  BY <4>1, <4>2 DEF Spread
        <3> QED  BY <2>3, <3>1, <3>2, <3>3, <3>4
    <2>8. ASSUME NEW a, Carried(a, t)
          PROVE  Below(a.em, c.em) /\ (t \notin dropped' => UxBelow(a.ux, c.ux))
        <3>1. Below(a.em, c.em)
            BY <1>6, <2>3, <2>8 DEF Carried
        <3>2. ASSUME t \notin dropped' PROVE UxBelow(a.ux, c.ux)
            <4>1. UxBelow(a.ux, UxOf(t))
                BY <1>3, <2>7, <2>8, <3>2 DEF Carried
            <4> QED  BY <1>1, <2>7, <3>2, <4>1 DEF UxBelow
        <3> QED  BY <3>1, <3>2
    <2>9. complete'[t] # Absent => complete'[t] = c
        BY <1>1, <2>1
    <2>10. t \notin dropped' => complete'[t] = c /\ c.ux = UxOf(t)'
        BY <2>7
    <2> QED
        BY <1>1, <1>3, <2>1, <2>4, <2>5, <2>6, <2>8, <2>9, <2>10, KeptOneMore
<1> QED  BY <1>5, <1>6, NotedMaps

LEMMA KeptKeeps ==
    ASSUME AbsentIsNothing, EngineInv, SessionTyped, KeptInv, MetricsNext
    PROVE  KeptInv'
<1>0. Gains
    BY EngineKeeps
<1>s. ASSUME StoreRests PROVE SameVersions
    BY <1>s DEF StoreRests, SameVersions
<1>1. CASE StoreRests /\ CachesRest
    BY <1>0, <1>1, <1>s, KeptRests
<1>2. CASE CachesRest /\ \E w \in 1..Len(puts) : StoreMoves(w)
    <2>1. SameVersions
        BY <1>2, StoreMovesTyped
    <2> QED  BY <1>0, <1>2, <2>1, KeptRests
<1>3. CASE StoreRests /\ SessionEnds
    <2>1. dropped' = Turns /\ outrun' = Turns /\ \A t \in Turns : complete'[t] = Absent
        BY <1>3 DEF SessionEnds
    <2> QED  BY <1>0, <1>3, <1>s, <2>1, KeptRests
<1>4. CASE OnMetrics
    <2>1. PICK t, ep, c, out, gone, both : Merges(t, ep, c, out, gone, both)
        BY <1>4, ReportMerges
    <2> QED  BY <2>1, KeptMerges
<1>5. CASE \E t \in Turns, measured \in Browsers : NoteUxTelemetry(t, measured)
    <2>1. PICK t, next, gone, both : Notes(t, next, gone, both)
        BY <1>5, MeasurementNotes
    <2> QED  BY <2>1, KeptNotes
<1> QED  BY <1>1, <1>2, <1>3, <1>4, <1>5, StepKinds

-----------------------------------------------------------------------------
(* The theorems                                                              *)

LEMMA StoreKeeps ==
    ASSUME AbsentIsNothing, EngineInv, SessionTyped, StoreInv, MetricsNext
    PROVE  StoreInv' /\ Forward
<1>0. \A t \in Turns : row[t] \in Nat /\ row[t] >= row[t]
    BY DEF SessionTyped
<1>r. ASSUME row' = row PROVE Forward
    BY <1>0, <1>r DEF Forward
<1>1. CASE StoreRests
    <2>1. puts' = puts /\ lastPut' = lastPut /\ row' = row
        BY <1>1 DEF StoreRests
    <2>2. \A w \in 1..Len(puts) : OrderOf(w)'
        BY <2>1 DEF StoreInv, OrderOf
    <2>3. \A t \in Turns : LastOf(t)'
        BY <2>1 DEF StoreInv, LastOf
    <2> QED  BY <1>r, <2>1, <2>2, <2>3 DEF StoreInv
<1>2. CASE \E w \in 1..Len(puts) : StoreMoves(w)
    BY <1>2, MovesKeepStore
<1>3. CASE OnMetrics
    <2>1. PICK t, ep, c, out, gone, both : Merges(t, ep, c, out, gone, both) /\ UNCHANGED row
        BY <1>3, ReportMerges
    <2>2. t \in Turns /\ c \in Completes /\ Put(t, c) /\ row' = row
        BY <2>1 DEF Merges
    <2> QED  BY <1>r, <2>2, PutKeepsStore
<1>4. CASE \E t \in Turns, measured \in Browsers : NoteUxTelemetry(t, measured)
    <2>1. PICK t, next, gone, both : Notes(t, next, gone, both)
        BY <1>4, MeasurementNotes
    <2>2. t \in Turns /\ row' = row
          /\ (StoreRests \/ \E c \in Completes : Put(t, c))
        BY <2>1 DEF Notes, StoreRests
    <2> QED  BY <1>1, <1>r, <2>2, PutKeepsStore
<1> QED  BY <1>1, <1>2, <1>3, <1>4, StepKinds

LEMMA StoreStarts == MetricsInit => StoreInv
    BY DEF MetricsInit, StoreInv, LastOf

LEMMA SamplesKeep ==
    ASSUME SessionTyped, EmfInv, MetricsNext
    PROVE  EmfInv'
<1>1. CASE EmfRests
    BY <1>1 DEF EmfRests, EmfInv
<1>2. CASE \E w \in 1..Len(puts) : EmitEmf(puts[w].turn, puts[w].what)
    <2>1. PICK w \in 1..Len(puts) : EmitEmf(puts[w].turn, puts[w].what)
        BY <1>2
    <2>2. puts[w].turn \in Turns /\ puts[w].what \in Completes
        BY PutsTyped
    <2> QED  BY <2>1, <2>2, EmfKeeps DEF EmfInv
<1> QED  BY <1>1, <1>2, EmfKinds

LEMMA SamplesStart == MetricsInit => EmfInv
    BY DEF MetricsInit, EmfInv

MetricsInv == EngineInv /\ SessionTyped /\ StoreInv /\ EmfInv /\ SpeechInv /\ KeptInv

LEMMA MetricsInvStarts == MetricsInit => MetricsInv
    BY EngineStarts, TypesStart, StoreStarts, SamplesStart, SpeechStarts, KeptStarts
       DEF MetricsInv

LEMMA MetricsInvStutters ==
    ASSUME MetricsInv, UNCHANGED metricsVars
    PROVE  MetricsInv'
<1>1. /\ UNCHANGED engineVars /\ calls' = calls /\ UNCHANGED pending /\ UNCHANGED caches
      /\ UNCHANGED store
    BY DEF metricsVars
<1>2. EngineInv' /\ SessionTyped'
    <2>1. UNCHANGED <<gpuMetrics, metric, cancelAck, calls, records>>
        BY <1>1 DEF engineVars
    <2>2. UNCHANGED <<pendingEndpoint, pendingBarge, speech, endpointByTurn, uxByTurn, complete>>
        BY <1>1 DEF pending, caches
    <2>3. UNCHANGED <<puts, lastPut, row>>
        BY <1>1 DEF store
    <2> QED  BY <2>1, <2>2, <2>3 DEF MetricsInv, EngineInv, SessionTyped
<1>3. StoreInv' /\ EmfInv'
    <2>1. puts' = puts /\ lastPut' = lastPut /\ row' = row
          /\ UNCHANGED <<sampled, samples, repeated, forgotten>>
        BY <1>1 DEF store
    <2>2. \A w \in 1..Len(puts) : OrderOf(w)'
        BY <2>1 DEF MetricsInv, StoreInv, OrderOf
    <2>3. \A t \in Turns : LastOf(t)'
        BY <2>1 DEF MetricsInv, StoreInv, LastOf
    <2> QED  BY <2>1, <2>2, <2>3 DEF MetricsInv, StoreInv, EmfInv
<1>4. SpeechInv' /\ KeptInv'
    <2>1. /\ UNCHANGED <<metric, pendingEndpoint, pendingBarge, speech>>
          /\ UNCHANGED <<endpointByTurn, uxByTurn, complete, dropped, outrun>> /\ puts' = puts
        BY <1>1 DEF engineVars, pending, caches, store
    <2>2. SameVersions /\ CachesRest
        BY <2>1 DEF SameVersions, CachesRest
    <2>3. Gains
        BY <2>1, BelowItself DEF Gains
    <2>4. KeptInv'
        BY <2>2, <2>3, KeptRests DEF MetricsInv
    <2>5. \A n \in Nat \ {0}, t \in Turns : Holds(t, n)' => Holds(t, n)
        BY <2>1 DEF Holds
    <2>6. speech \in Nat /\ speech <= speech
        BY DEF MetricsInv, SessionTyped
    <2>7. SpeechInv'
        BY <2>1, <2>5, <2>6, SpeechRests DEF MetricsInv, Waiting
    <2> QED  BY <2>4, <2>7
<1> QED  BY <1>2, <1>3, <1>4 DEF MetricsInv

LEMMA MetricsInvKeeps ==
    ASSUME AbsentIsNothing, MetricsInv, [MetricsNext]_metricsVars
    PROVE  MetricsInv'
<1>1. CASE MetricsNext
    BY <1>1, EngineKeeps, TypesKeep, StoreKeeps, SamplesKeep, SpeechKeeps, KeptKeeps
       DEF MetricsInv
<1>2. CASE UNCHANGED metricsVars
    BY <1>2, MetricsInvStutters
<1> QED  BY <1>1, <1>2

LEMMA MetricsAreSound == ASSUME AbsentIsNothing PROVE MetricsSpec => []MetricsInv
<1>1. MetricsInit => MetricsInv
    BY MetricsInvStarts
<1>2. MetricsInv /\ [MetricsNext]_metricsVars => MetricsInv'
    BY MetricsInvKeeps
<1> QED  BY <1>1, <1>2, PTL DEF MetricsSpec

\* MetricsStore.put, one write of a turn behind the other: no request the store
\* awaits brings an older version of a turn's row back, only one that was settled
\* before and lands late.
THEOREM RowsNeverGoBack == ASSUME AbsentIsNothing PROVE MetricsSpec => RowsGoForward
<1>1. MetricsInv /\ [MetricsNext]_metricsVars =>
          [Forward]_metricsVars
    <2> SUFFICES ASSUME MetricsInv, [MetricsNext]_metricsVars
                 PROVE  Forward \/ UNCHANGED metricsVars
        OBVIOUS
    <2> QED  BY StoreKeeps DEF MetricsInv
<1> QED  BY <1>1, MetricsAreSound, PTL DEF MetricsSpec, RowsGoForward

\* emitEmf's memory of what was sampled: a figure of a turn is sampled once under
\* a schema, however often the row is written.
THEOREM FiguresAreSampledOnce == ASSUME AbsentIsNothing PROVE MetricsSpec => []SampledOnce
<1>1. MetricsInv => SampledOnce
    BY DEF MetricsInv, EmfInv, SampledOnce
<1> QED  BY <1>1, MetricsAreSound, PTL

\* MediaSession.onMetrics: an endpoint goes to one turn, whichever turns are
\* reported, again, late or together, and however small the maps are.
THEOREM SpeechBelongsToOneTurn == ASSUME AbsentIsNothing PROVE MetricsSpec => []SpeechHasOneTurn
<1>1. MetricsInv => SpeechHasOneTurn
    BY OneTurnFollows DEF MetricsInv
<1> QED  BY <1>1, MetricsAreSound, PTL

\* The merges of the engine, the media session and the browser's telemetry: a
\* later version of a row lacks nothing that an earlier one had, but for what the
\* maps lost before.
THEOREM LaterVersionsHaveAll == ASSUME AbsentIsNothing PROVE MetricsSpec => []NothingIsLost
<1>1. MetricsInv => NothingIsLost
    BY NothingIsLostFollows DEF MetricsInv
<1> QED  BY <1>1, MetricsAreSound, PTL

================================================================================
