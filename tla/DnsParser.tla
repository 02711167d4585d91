----------------------------- MODULE DnsParser -----------------------------
(***************************************************************************)
(* dns::parse (core/src/packet/dns.rs): the header of a message and the    *)
(* walk over the name of its first question, label by label and through    *)
(* compression pointers.  A message is its bytes; the characters of the    *)
(* name are left out, its length is kept.                                  *)
(***************************************************************************)
EXTENDS Integers, Sequences

CONSTANTS
    MaxJumps,  \* MAX_POINTER_JUMPS
    MaxName,   \* MAX_NAME_LEN
    Messages   \* the messages a walk on its own may start with

Byte == 0..255
HeaderLen == 12

ASSUME DnsAssumption ==
    MaxJumps \in Nat /\ MaxName \in Nat /\ Messages \subseteq Seq(Byte)

VARIABLES
    msg,      \* the payload parse is called with
    walk,     \* where parse is: "idle", "header", "name", "question", "ok" or "error"
    pos,      \* read_name: the next byte to look at; afterwards where the name ended
    resume,   \* read_name: resume_at, None before the first pointer
    jumps,    \* read_name: pointers followed
    nameLen,  \* read_name: name.len()
    steps     \* history: labels and pointers read

dnsVars == <<msg, walk, pos, resume, jumps, nameLen, steps>>

None == -1

At(p) == msg[p + 1]
be16(p) == At(p) * 256 + At(p + 1)
Holding(n) == Len(msg) >= n

QuestionCount == be16(4)

DnsIdle ==
    /\ msg = <<>> /\ walk = "idle"
    /\ pos = 0 /\ resume = None /\ jumps = 0 /\ nameLen = 0 /\ steps = 0

\* dns::parse is called
DnsBegin(m) ==
    /\ msg' = m /\ walk' = "header"
    /\ pos' = HeaderLen /\ resume' = None /\ jumps' = 0 /\ nameLen' = 0 /\ steps' = 0

Reject == walk' = "error" /\ UNCHANGED <<msg, pos, resume, jumps, nameLen, steps>>

DnsHeader ==
    /\ walk = "header"
    /\ \/ ~Holding(HeaderLen) /\ Reject
       \/ /\ Holding(HeaderLen)
          /\ walk' = IF QuestionCount = 0 THEN "ok" ELSE "name"
          /\ UNCHANGED <<msg, pos, resume, jumps, nameLen, steps>>

-----------------------------------------------------------------------------
(* read_name, by the two high bits of the byte at pos.                      *)

LABEL_LITERAL == 0
LABEL_POINTER == 3
Kind(b) == b \div 64

Reading(kind) == walk = "name" /\ Holding(pos + 1) /\ Kind(At(pos)) = kind

\* resume_at.unwrap_or(pos), with pos behind the root label
NameEnd == IF resume = None THEN pos + 1 ELSE resume

Root ==
    /\ Reading(LABEL_LITERAL) /\ At(pos) = 0
    /\ walk' = "question" /\ pos' = NameEnd
    /\ UNCHANGED <<msg, resume, jumps, nameLen, steps>>

\* the length of the name with one more label, and the dot before it
Longer(len) == nameLen + len + (IF nameLen = 0 THEN 0 ELSE 1)

Label ==
    /\ Reading(LABEL_LITERAL) /\ At(pos) # 0
    /\ \/ ~(Holding(pos + 1 + At(pos)) /\ Longer(At(pos)) <= MaxName) /\ Reject
       \/ /\ Holding(pos + 1 + At(pos)) /\ Longer(At(pos)) <= MaxName
          /\ pos' = pos + 1 + At(pos) /\ nameLen' = Longer(At(pos)) /\ steps' = steps + 1
          /\ UNCHANGED <<msg, walk, resume, jumps>>

\* mutant: pointers are followed without a limit
JumpAny == TRUE

MayJump == jumps < MaxJumps

\* resume_at.get_or_insert(pos + 2)
FirstResume == IF resume = None THEN pos + 2 ELSE resume

Pointer ==
    /\ Reading(LABEL_POINTER)
    /\ \/ ~(Holding(pos + 2) /\ MayJump) /\ Reject
       \/ /\ Holding(pos + 2) /\ MayJump
          /\ pos' = (At(pos) % 64) * 256 + At(pos + 1)
          /\ resume' = FirstResume /\ jumps' = jumps + 1 /\ steps' = steps + 1
          /\ UNCHANGED <<msg, walk, nameLen>>

BadLabel ==
    /\ walk = "name"
    /\ ~(Holding(pos + 1) /\ Kind(At(pos)) \in {LABEL_LITERAL, LABEL_POINTER})
    /\ Reject

\* the type behind the name
Question ==
    /\ walk = "question"
    /\ \/ ~Holding(pos + 2) /\ Reject
       \/ Holding(pos + 2) /\ walk' = "ok" /\ UNCHANGED <<msg, pos, resume, jumps, nameLen, steps>>

DnsNext == DnsHeader \/ Root \/ Label \/ Pointer \/ BadLabel \/ Question

DnsInit ==
    /\ msg \in Messages /\ walk = "header"
    /\ pos = HeaderLen /\ resume = None /\ jumps = 0 /\ nameLen = 0 /\ steps = 0

DnsSpec == DnsInit /\ [][DnsNext]_dnsVars

-----------------------------------------------------------------------------
(* Properties.                                                             *)

DnsTypeOK ==
    /\ msg \in Seq(Byte)
    /\ walk \in {"idle", "header", "name", "question", "ok", "error"}
    /\ pos \in Nat /\ resume \in Nat \cup {None}
    /\ jumps \in Nat /\ nameLen \in Nat /\ steps \in Nat

\* Whatever the bytes, pointers that form a loop included, the walk ends: every step takes
\* a pointer or lengthens the name, and both are limited, so it never takes more steps
\* than the two limits together, and the name it returns is within its limit.
WalkBounded == steps <= MaxJumps + MaxName /\ nameLen <= MaxName

\* Where a name ends is where a reader that follows no pointer would say: behind its root
\* label, or behind its first pointer.
SkipName ==
    LET skip[p \in 0..Len(msg)] ==
            IF p = Len(msg) \/ Kind(At(p)) \notin {LABEL_LITERAL, LABEL_POINTER} THEN None
            ELSE IF Kind(At(p)) = LABEL_POINTER THEN p + 2
            ELSE IF At(p) = 0 THEN p + 1
            ELSE IF Holding(p + 1 + At(p)) THEN skip[p + 1 + At(p)]
            ELSE None
    IN  skip[HeaderLen]

\* The question's type is read right behind its name, wherever the pointers in the name
\* led, and inside the message.
QuestionPlaced ==
    walk = "ok" /\ QuestionCount # 0 => pos = SkipName /\ Holding(pos + 2)
=============================================================================
