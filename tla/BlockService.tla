---------------------------- MODULE BlockService ----------------------------
(***************************************************************************)
(* What validate_and_insert_block promises its callers, with no stages,    *)
(* channels or threads: every call gets at most one answer, the answer is  *)
(* about what the node then stores, and what it stores only grows, parents *)
(* first.  Pipeline is shown to implement it.                              *)
(***************************************************************************)
CONSTANTS Hashes, Parents, Genesis, Callers, Bodies, HeaderOnly, None,
          BodyStatuses, Errors

VARIABLES call,     \* the hash and content each caller submitted
          answer,   \* the result each caller got
          headers,  \* blocks whose header is accepted
          stored,   \* blocks whose body is stored too
          invalid   \* blocks known to be invalid

vars == <<call, answer, headers, stored, invalid>>

Init ==
  /\ call = [c \in Callers |-> None]
  /\ answer = [c \in Callers |-> None]
  /\ headers = {Genesis}
  /\ stored = {Genesis}
  /\ invalid = {}

Call(c, h, block) ==
  /\ call[c] = None
  /\ call' = [call EXCEPT ![c] = [hash |-> h, block |-> block]]
  /\ UNCHANGED <<answer, headers, stored, invalid>>

\* A parent may turn out invalid after the child's header was checked.
AcceptHeader(h) ==
  /\ h \notin headers \cup invalid
  /\ Parents[h] \subseteq headers \cup invalid
  /\ headers' = headers \cup {h}
  /\ UNCHANGED <<call, answer, stored, invalid>>

StoreBody(h) ==
  /\ h \in headers \ stored
  /\ Parents[h] \subseteq stored
  /\ stored' = stored \cup {h}
  /\ UNCHANGED <<call, answer, headers, invalid>>

Reject(h) ==
  /\ h \notin stored \cup invalid
  /\ invalid' = invalid \cup {h}
  /\ headers' = headers \ {h}
  /\ UNCHANGED <<call, answer, stored>>

\* Only a call without transactions may be answered HeaderOnly.
Permitted(c, r) ==
  \/ r \in Errors /\ (r = "KnownInvalid" => call[c].hash \in invalid)
  \/ r \in BodyStatuses /\ call[c].hash \in stored
  \/ /\ r = "HeaderOnly"
     /\ call[c].block = HeaderOnly
     /\ call[c].hash \in headers \cup invalid

Answer ==
  /\ answer' # answer
  /\ \A c \in Callers :
       answer'[c] # answer[c] =>
         call[c] # None /\ answer[c] = None /\ Permitted(c, answer'[c])
  /\ UNCHANGED <<call, headers, stored, invalid>>

Next ==
  \/ \E c \in Callers, h \in Hashes, b \in Bodies \cup {HeaderOnly} : Call(c, h, b)
  \/ \E h \in Hashes : AcceptHeader(h) \/ StoreBody(h) \/ Reject(h)
  \/ Answer

Spec == Init /\ [][Next]_vars
=============================================================================
