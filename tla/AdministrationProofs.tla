--------------------- MODULE AdministrationProofs ------------------------
(***************************************************************************)
(* What is promised of credentials, of the fallback order and of the       *)
(* activation of a provider, for any number of providers, secrets,         *)
(* requests, routes and aliases.                                           *)
(*                                                                         *)
(* A secret has one place: a row, a request that is about to write it      *)
(* (New), or a request that is about to delete it (Doomed).  A secret that *)
(* is doomed is in no live row, because a request that found the version   *)
(* it had seen deletes the secret that the row held at that version        *)
(* (SeenIsHeld); the exception is the row whose commit was reported as an  *)
(* error.                                                                  *)
(*                                                                         *)
(* A transaction that reorders routes and met none under the other lock is *)
(* the only one past the lock (Alone), so that the rows it ranked are the  *)
(* rows it finds when it commits; what it finds need not be in order.      *)
(*                                                                         *)
(* The pauses of activate_provider and the time to the next tick add up to *)
(* an interval while the service does not know the provider                *)
(* (WithinInterval).                                                       *)
(***************************************************************************)
EXTENDS Administration, FiniteSetTheorems, TLAPS

AnySecret == Secrets \union {NoSecret}
Writing == {"store", "write"}

New(q) == IF request[q].stage = "write" THEN request[q].new ELSE NoSecret
Doomed(q) == IF request[q].stage = "delete" THEN request[q].secret ELSE NoSecret

WellFormed(it) ==
  /\ it.stage \in Writing =>
       /\ it.provider \in Providers
       /\ it.previous \in AnySecret /\ it.new \in AnySecret
       /\ it.op \in {"create", "update", "retire"}
       /\ it.op = "create" => it.previous = NoSecret
       /\ it.op # "create" => it.version \in Nat
       /\ it.op = "update" => it.status \in {"enabled", "disabled"}
       /\ it.op = "retire" => it.stage = "write" /\ it.new = NoSecret
  /\ it.stage = "delete" => it.secret \in Secrets

TypeInv ==
  /\ row \in [Providers ->
       [status : {"absent", "enabled", "disabled", "retired"}, version : Nat,
        secret : AnySecret]]
  /\ \A p \in Providers : row[p].status = "absent" => row[p].secret = NoSecret
  /\ secrets \subseteq used /\ used \subseteq Secrets
  /\ DOMAIN request = Requests
  /\ \A q \in Requests : WellFormed(request[q])
  /\ doubted \subseteq Providers /\ careless \in BOOLEAN

(* What is written or deleted was given out before.                        *)
NothingInvented ==
  /\ \A p \in Providers : row[p].secret \in used \union {NoSecret}
  /\ \A q \in Requests :
       /\ New(q) \in secrets \union {NoSecret}
       /\ Doomed(q) \in used \union {NoSecret}

OnePlace ==
  /\ \A p, o \in Providers :
       row[p].secret = row[o].secret /\ row[p].secret # NoSecret => p = o
  /\ \A q \in Requests, p \in Providers : New(q) # NoSecret => row[p].secret # New(q)
  /\ \A q, r \in Requests : New(q) # NoSecret /\ New(q) = New(r) => q = r
  /\ \A q, r \in Requests : New(q) # NoSecret => Doomed(r) # New(q)

DoomedIsUnused ==
  \A q \in Requests, p \in Providers \ doubted :
    Doomed(q) # NoSecret /\ Live(p) => row[p].secret # Doomed(q)

Seen(it) ==
  it.stage \in Writing /\ it.op # "create" =>
    /\ it.version <= row[it.provider].version
    /\ it.version = row[it.provider].version => it.previous = row[it.provider].secret
SeenIsHeld == \A q \in Requests : Seen(request[q])

LiveIsStored ==
  \A p \in Providers \ doubted : Live(p) => row[p].secret \in secrets \union {NoSecret}

NothingLeftBehind ==
  ~careless /\ doubted = {} =>
    \A s \in secrets :
      \/ \E p \in Providers : Live(p) /\ row[p].secret = s
      \/ \E q \in Requests : New(q) = s \/ Doomed(q) = s

CredentialInv ==
  /\ TypeInv /\ NothingInvented /\ OnePlace /\ DoomedIsUnused /\ SeenIsHeld
  /\ LiveIsStored /\ NothingLeftBehind

-----------------------------------------------------------------------------
LEMMA RequestsAfter ==
  ASSUME TypeInv, NEW q \in Requests, NEW next, Go(q, next), WellFormed(next)
  PROVE  /\ DOMAIN request' = Requests
         /\ request'[q] = next
         /\ \A r \in Requests : r # q => request'[r] = request[r]
         /\ \A r \in Requests : WellFormed(request'[r])
BY DEF TypeInv, Go

(* A request moves on to a stage at which it holds no secret.  If it held  *)
(* one, it was careless.                                                   *)
LEMMA QuietStep ==
  ASSUME CredentialInv, NEW q \in Requests, NEW next, Go(q, next), WellFormed(next),
         Seen(next), next.stage # "delete", next.stage = "write" => next.new = NoSecret,
         UNCHANGED <<row, secrets, used, doubted>>, careless' \in BOOLEAN,
         careless' = careless \/ careless' = TRUE,
         careless' \/ (New(q) = NoSecret /\ Doomed(q) = NoSecret)
  PROVE  CredentialInv'
<1> USE DEF CredentialInv
<1>1. /\ DOMAIN request' = Requests
      /\ request'[q] = next
      /\ \A r \in Requests : r # q => request'[r] = request[r]
      /\ \A r \in Requests : WellFormed(request'[r])
  BY RequestsAfter
<1>2. /\ New(q)' = NoSecret /\ Doomed(q)' = NoSecret
      /\ \A r \in Requests : r # q => New(r)' = New(r) /\ Doomed(r)' = Doomed(r)
  BY <1>1 DEF New, Doomed
<1> HIDE DEF CredentialInv
<1>3. TypeInv'
  BY <1>1 DEF TypeInv, CredentialInv
<1>4. NothingInvented'
  BY <1>2 DEF NothingInvented, CredentialInv
<1>5. OnePlace'
  BY <1>2 DEF OnePlace, CredentialInv
<1>6. DoomedIsUnused'
  BY <1>2 DEF DoomedIsUnused, Live, CredentialInv
<1>7. SeenIsHeld'
  BY <1>1 DEF SeenIsHeld, Seen, CredentialInv
<1>8. LiveIsStored'
  BY DEF LiveIsStored, Live, CredentialInv
<1>9. NothingLeftBehind'
  BY <1>2 DEF NothingLeftBehind, Live, CredentialInv, NothingInvented
<1> QED BY <1>3, <1>4, <1>5, <1>6, <1>7, <1>8, <1>9 DEF CredentialInv

(* The facts of one request.                                               *)
LEMMA WritingRequest ==
  ASSUME CredentialInv, NEW q \in Requests, request[q].stage = "write"
  PROVE  /\ request[q].provider \in Providers
         /\ request[q].previous \in AnySecret /\ request[q].new \in AnySecret
         /\ request[q].op \in {"create", "update", "retire"}
         /\ request[q].op = "create" => request[q].previous = NoSecret
         /\ request[q].op = "update" => request[q].status \in {"enabled", "disabled"}
         /\ request[q].op = "retire" => request[q].new = NoSecret
         /\ New(q) = request[q].new /\ Doomed(q) = NoSecret
         /\ Seen(request[q])
BY DEF CredentialInv, TypeInv, WellFormed, Writing, New, Doomed, SeenIsHeld

LEMMA IdleIsWellFormed ==
  WellFormed(Idle) /\ Idle.stage = "idle" /\ Seen(Idle)
BY DEF WellFormed, Idle, Writing, Seen

(* A request that ends, or that goes on to delete a secret.                *)
LEMMA AfterWriteStep ==
  ASSUME TypeInv, NEW q \in Requests, NEW secret \in AnySecret,
         Go(q, IF secret = NoSecret THEN Idle ELSE [stage |-> "delete", secret |-> secret])
  PROVE  /\ DOMAIN request' = Requests
         /\ \A r \in Requests : r # q => request'[r] = request[r]
         /\ \A r \in Requests : WellFormed(request'[r])
         /\ request'[q].stage \notin Writing
         /\ New(q)' = NoSecret /\ Doomed(q)' = secret
         /\ \A r \in Requests : r # q => New(r)' = New(r) /\ Doomed(r)' = Doomed(r)
<1> DEFINE next == IF secret = NoSecret THEN Idle ELSE [stage |-> "delete", secret |-> secret]
<1>1. CASE secret = NoSecret
  <2>1. Go(q, Idle)
    BY <1>1
  <2>2. /\ DOMAIN request' = Requests /\ request'[q] = Idle
        /\ \A r \in Requests : r # q => request'[r] = request[r]
        /\ \A r \in Requests : WellFormed(request'[r])
    BY <2>1, RequestsAfter, IdleIsWellFormed
  <2> QED BY <1>1, <2>2, IdleIsWellFormed DEF New, Doomed, Writing
<1>2. CASE secret # NoSecret
  <2> DEFINE last == [stage |-> "delete", secret |-> secret]
  <2>1. Go(q, last) /\ WellFormed(last)
    BY <1>2 DEF WellFormed, Writing, AnySecret
  <2>2. last.stage = "delete" /\ last.secret = secret
    OBVIOUS
  <2> HIDE DEF last
  <2>3. /\ DOMAIN request' = Requests /\ request'[q] = last
        /\ \A r \in Requests : r # q => request'[r] = request[r]
        /\ \A r \in Requests : WellFormed(request'[r])
    BY <2>1, RequestsAfter
  <2> QED BY <2>2, <2>3 DEF New, Doomed, Writing
<1> QED BY <1>1, <1>2

-----------------------------------------------------------------------------
LEMMA StoreKeeps ==
  ASSUME CredentialInv, NEW q \in Requests, StoreSecret(q)
  PROVE  CredentialInv'
<1> DEFINE new == CHOOSE s \in Secrets : s \notin used
           next == [request[q] EXCEPT !.stage = "write", !.new = new]
<1>1. /\ request[q].stage = "store" /\ used \subseteq Secrets /\ used # Secrets
      /\ secrets' = secrets \union {new} /\ used' = used \union {new}
      /\ Go(q, next) /\ UNCHANGED <<row, doubted, careless>>
  BY DEF StoreSecret, Stage, CredentialInv, TypeInv, history
<1>2. new \in Secrets /\ new \notin used /\ new # NoSecret
  BY <1>1, SecretAssumption
<1>3. WellFormed(request[q]) /\ Seen(request[q])
  BY DEF CredentialInv, TypeInv, SeenIsHeld
<1>4. /\ next.stage = "write" /\ next.new = new /\ next.provider = request[q].provider
      /\ next.previous = request[q].previous /\ next.op = request[q].op
      /\ next.version = request[q].version /\ next.status = request[q].status
  OBVIOUS
<1> HIDE DEF new, next
<1>5. WellFormed(next) /\ Seen(next)
  BY <1>1, <1>2, <1>3, <1>4 DEF WellFormed, Seen, Writing, AnySecret
<1>6. /\ DOMAIN request' = Requests /\ request'[q] = next
      /\ \A r \in Requests : r # q => request'[r] = request[r]
      /\ \A r \in Requests : WellFormed(request'[r])
  BY <1>1, <1>5, RequestsAfter DEF CredentialInv
<1>7. /\ New(q)' = new /\ Doomed(q)' = NoSecret
      /\ New(q) = NoSecret /\ Doomed(q) = NoSecret
      /\ \A r \in Requests : r # q => New(r)' = New(r) /\ Doomed(r)' = Doomed(r)
  BY <1>1, <1>4, <1>6 DEF New, Doomed
<1>8. TypeInv'
  BY <1>1, <1>2, <1>6 DEF TypeInv, CredentialInv
<1>9. NothingInvented'
  BY <1>1, <1>7 DEF NothingInvented, CredentialInv
<1>10. OnePlace'
  <2>1. /\ \A p \in Providers : row[p].secret # new
        /\ \A r \in Requests : New(r) # new /\ Doomed(r) # new
    BY <1>2 DEF NothingInvented, CredentialInv, TypeInv
  <2> QED BY <1>1, <1>2, <1>7, <2>1 DEF OnePlace, CredentialInv
<1>11. DoomedIsUnused' /\ LiveIsStored'
  BY <1>1, <1>7 DEF DoomedIsUnused, LiveIsStored, Live, CredentialInv
<1>12. SeenIsHeld'
  BY <1>1, <1>5, <1>6 DEF SeenIsHeld, Seen, CredentialInv
<1>13. NothingLeftBehind'
  BY <1>1, <1>2, <1>7 DEF NothingLeftBehind, Live, CredentialInv, TypeInv
<1> QED BY <1>8, <1>9, <1>10, <1>11, <1>12, <1>13 DEF CredentialInv

LEMMA DeleteKeeps ==
  ASSUME CredentialInv, NEW q \in Requests, DeleteSecret(q)
  PROVE  CredentialInv'
<1>1. /\ request[q].stage = "delete" /\ Go(q, Idle)
      /\ secrets' = secrets \ {Doomed(q)}
      /\ UNCHANGED <<row, used, doubted, careless>>
  BY DEF DeleteSecret, Stage, history, Doomed
<1>2. /\ DOMAIN request' = Requests /\ request'[q] = Idle
      /\ \A r \in Requests : r # q => request'[r] = request[r]
      /\ \A r \in Requests : WellFormed(request'[r])
  BY <1>1, RequestsAfter, IdleIsWellFormed DEF CredentialInv
<1>3. /\ New(q)' = NoSecret /\ Doomed(q)' = NoSecret /\ New(q) = NoSecret
      /\ Doomed(q) \in Secrets /\ Doomed(q) # NoSecret
      /\ \A r \in Requests : r # q => New(r)' = New(r) /\ Doomed(r)' = Doomed(r)
  BY <1>1, <1>2, IdleIsWellFormed, SecretAssumption
     DEF New, Doomed, CredentialInv, TypeInv, WellFormed
<1>4. TypeInv'
  BY <1>1, <1>2 DEF TypeInv, CredentialInv
<1>5. NothingInvented'
  BY <1>1, <1>3 DEF NothingInvented, OnePlace, CredentialInv
<1>6. OnePlace'
  BY <1>1, <1>3 DEF OnePlace, CredentialInv
<1>7. DoomedIsUnused' /\ LiveIsStored'
  BY <1>1, <1>3 DEF DoomedIsUnused, LiveIsStored, Live, CredentialInv
<1>8. SeenIsHeld'
  BY <1>1, <1>2, IdleIsWellFormed DEF SeenIsHeld, Seen, CredentialInv, Writing
<1>9. NothingLeftBehind'
  BY <1>1, <1>3 DEF NothingLeftBehind, Live, CredentialInv
<1> QED BY <1>4, <1>5, <1>6, <1>7, <1>8, <1>9 DEF CredentialInv

-----------------------------------------------------------------------------
(* The transaction on the row.                                             *)

LEMMA AcceptedWrite ==
  ASSUME CredentialInv, NEW q \in Requests, request[q].stage = "write",
         Accepted(request[q]),
         row' = [row EXCEPT ![request[q].provider] = Written(request[q])]
  PROVE  /\ row' \in [Providers ->
              [status : {"absent", "enabled", "disabled", "retired"}, version : Nat,
               secret : AnySecret]]
         /\ \A o \in Providers : o # request[q].provider => row'[o] = row[o]
         /\ row'[request[q].provider].version = row[request[q].provider].version + 1
         /\ row'[request[q].provider].secret =
              IF New(q) = NoSecret THEN row[request[q].provider].secret ELSE New(q)
         /\ row'[request[q].provider].status \in {"enabled", "disabled"} <=>
              request[q].op # "retire"
         /\ row'[request[q].provider].status # "absent"
         /\ request[q].previous = row[request[q].provider].secret
<1> DEFINE it == request[q]
           p == it.provider
           old == row[p]
<1>1. /\ p \in Providers /\ it.new \in AnySecret /\ New(q) = it.new
      /\ it.op \in {"create", "update", "retire"}
      /\ it.op = "create" => it.previous = NoSecret
      /\ it.op = "update" => it.status \in {"enabled", "disabled"}
      /\ Seen(it)
  BY WritingRequest
<1>2. old \in [status : {"absent", "enabled", "disabled", "retired"}, version : Nat,
               secret : AnySecret]
  BY <1>1 DEF CredentialInv, TypeInv
<1>3. /\ Written(it).version = old.version + 1
      /\ Written(it).secret = IF it.new = NoSecret THEN old.secret ELSE it.new
      /\ Written(it).status = IF it.op = "create" THEN "enabled"
                              ELSE IF it.op = "update" THEN it.status ELSE "retired"
      /\ Written(it) \in [status : {"absent", "enabled", "disabled", "retired"},
                          version : Nat, secret : AnySecret]
  BY <1>1, <1>2 DEF Written
<1>4. row'[p] = Written(it) /\ \A o \in Providers : o # p => row'[o] = row[o]
  BY <1>1 DEF CredentialInv, TypeInv
<1>5. row' \in [Providers ->
        [status : {"absent", "enabled", "disabled", "retired"}, version : Nat,
         secret : AnySecret]]
  BY <1>1, <1>3 DEF CredentialInv, TypeInv
<1>6. it.previous = old.secret
  <2>1. CASE it.op = "create"
    BY <1>1, <2>1 DEF Accepted, NoProvider
  <2>2. CASE it.op # "create"
    BY <1>1, <2>2 DEF Accepted, Seen, Writing
  <2> QED BY <2>1, <2>2
<1>7. row'[p].status \in {"enabled", "disabled"} <=> it.op # "retire"
     /\ row'[p].status # "absent"
  BY <1>1, <1>3, <1>4
<1> QED BY <1>1, <1>3, <1>4, <1>5, <1>6, <1>7

LEMMA AcceptedWasLive ==
  ASSUME CredentialInv, NEW q \in Requests, request[q].stage = "write",
         Accepted(request[q]), request[q].op # "retire"
  PROVE  Live(request[q].provider) \/ row[request[q].provider].secret = NoSecret
<1> DEFINE old == row[request[q].provider]
<1>1. request[q].op \in {"create", "update"}
  BY WritingRequest
<1>2. CASE old = NoProvider
  BY <1>2 DEF NoProvider
<1>3. CASE old.status # "retired"
  BY <1>3, WritingRequest DEF Live, CredentialInv, TypeInv
<1> QED BY <1>1, <1>2, <1>3 DEF Accepted

LEMMA SeenAfterWrite ==
  ASSUME CredentialInv, NEW q \in Requests, request[q].stage = "write",
         Accepted(request[q]),
         row' = [row EXCEPT ![request[q].provider] = Written(request[q])],
         request'[q].stage \notin Writing,
         \A r \in Requests : r # q => request'[r] = request[r]
  PROVE  SeenIsHeld'
<1> SUFFICES ASSUME NEW r \in Requests, r # q,
                    request[r].stage \in Writing, request[r].op # "create"
             PROVE  /\ request[r].version <= row'[request[r].provider].version
                    /\ request[r].version = row'[request[r].provider].version =>
                         request[r].previous = row'[request[r].provider].secret
  BY DEF SeenIsHeld, Seen
<1> DEFINE p == request[q].provider
           o == request[r].provider
<1>1. /\ o \in Providers /\ request[r].version \in Nat
      /\ request[r].version <= row[o].version
      /\ request[r].version = row[o].version => request[r].previous = row[o].secret
      /\ row[o].version \in Nat
  BY DEF CredentialInv, TypeInv, WellFormed, SeenIsHeld, Seen
<1>2. CASE o = p
  <2>1. row'[o].version = row[o].version + 1
    BY <1>2, AcceptedWrite
  <2> QED BY <1>1, <2>1
<1>3. CASE o # p
  <2>1. row'[o] = row[o]
    BY <1>1, <1>3, AcceptedWrite
  <2> QED BY <1>1, <2>1
<1> QED BY <1>2, <1>3

(* The row is written: its old secret, if it changed, or all of it, if it  *)
(* was retired, is doomed.                                                 *)
LEMMA AcceptedKeeps ==
  ASSUME CredentialInv, NEW q \in Requests, WriteRow(q), Accepted(request[q])
  PROVE  CredentialInv'
<1> DEFINE p == request[q].provider
           old == Superfluous(request[q], TRUE)
<1>1. /\ request[q].stage = "write"
      /\ row' = [row EXCEPT ![request[q].provider] = Written(request[q])]
      /\ Go(q, IF old = NoSecret THEN Idle ELSE [stage |-> "delete", secret |-> old])
      /\ UNCHANGED <<secrets, used, doubted, careless>>
  BY DEF WriteRow, Stage, AfterWrite, history
<1>2. /\ p \in Providers /\ request[q].new \in AnySecret
      /\ request[q].op \in {"create", "update", "retire"}
      /\ request[q].op = "create" => request[q].previous = NoSecret
      /\ request[q].op = "retire" => request[q].new = NoSecret
      /\ New(q) = request[q].new /\ Doomed(q) = NoSecret
      /\ request[q].previous \in AnySecret
  BY <1>1, WritingRequest
<1>3. /\ row' \in [Providers ->
           [status : {"absent", "enabled", "disabled", "retired"}, version : Nat,
            secret : AnySecret]]
      /\ \A o \in Providers : o # p => row'[o] = row[o]
      /\ row'[p].secret = IF New(q) = NoSecret THEN row[p].secret ELSE New(q)
      /\ row'[p].status \in {"enabled", "disabled"} <=> request[q].op # "retire"
      /\ row'[p].status # "absent"
      /\ request[q].previous = row[p].secret
  BY <1>1, AcceptedWrite
<1>4. /\ old = IF request[q].op = "retire" \/ New(q) # NoSecret THEN row[p].secret
               ELSE NoSecret
      /\ old \in AnySecret
  BY <1>2, <1>3 DEF Superfluous, AnySecret
<1>5. SeenIsHeld' /\ TypeInv'
        /\ New(q)' = NoSecret /\ Doomed(q)' = old
        /\ \A r \in Requests : r # q => New(r)' = New(r) /\ Doomed(r)' = Doomed(r)
  <2>1. /\ DOMAIN request' = Requests
        /\ \A r \in Requests : r # q => request'[r] = request[r]
        /\ \A r \in Requests : WellFormed(request'[r])
        /\ request'[q].stage \notin Writing
        /\ New(q)' = NoSecret /\ Doomed(q)' = old
        /\ \A r \in Requests : r # q => New(r)' = New(r) /\ Doomed(r)' = Doomed(r)
    <3> HIDE DEF old
    <3> QED BY <1>1, <1>4, AfterWriteStep DEF CredentialInv
  <2>2. SeenIsHeld'
    BY <1>1, <2>1, SeenAfterWrite
  <2>3. TypeInv'
    BY <1>1, <1>3, <2>1 DEF TypeInv, CredentialInv
  <2> QED BY <2>1, <2>2, <2>3
<1> HIDE DEF p, old
<1>6. NothingInvented'
  BY <1>1, <1>2, <1>3, <1>4, <1>5 DEF NothingInvented, CredentialInv, TypeInv
<1>7. OnePlace'
  <2>1. \A o, x \in Providers :
          row'[o].secret = row'[x].secret /\ row'[o].secret # NoSecret => o = x
    BY <1>2, <1>3 DEF OnePlace, CredentialInv
  <2>2. \A r \in Requests, o \in Providers : New(r)' # NoSecret => row'[o].secret # New(r)'
    BY <1>2, <1>3, <1>5 DEF OnePlace, CredentialInv
  <2>3. \A r, x \in Requests : New(r)' # NoSecret /\ New(r)' = New(x)' => r = x
    BY <1>5 DEF OnePlace, CredentialInv
  <2>4. \A r, x \in Requests : New(r)' # NoSecret => Doomed(x)' # New(r)'
    BY <1>2, <1>4, <1>5 DEF OnePlace, CredentialInv
  <2> QED BY <2>1, <2>2, <2>3, <2>4 DEF OnePlace
<1>8. DoomedIsUnused'
  <2> SUFFICES ASSUME NEW r \in Requests, NEW o \in Providers \ doubted,
                      Doomed(r)' # NoSecret,
                      row'[o].status \in {"enabled", "disabled"}
               PROVE  row'[o].secret # Doomed(r)'
    BY <1>1 DEF DoomedIsUnused, Live
  <2>1. CASE r = q
    BY <1>2, <1>3, <1>4, <1>5, <2>1 DEF OnePlace, CredentialInv
  <2>2. CASE r # q /\ o # p
    BY <1>3, <1>5, <2>2 DEF DoomedIsUnused, CredentialInv, Live
  <2>3. CASE r # q /\ o = p
    <3>1. CASE New(q) # NoSecret
      BY <1>3, <1>5, <2>3, <3>1 DEF OnePlace, CredentialInv
    <3>2. CASE New(q) = NoSecret
      <4>1. request[q].op # "retire" /\ row'[p].secret = row[p].secret
        BY <1>3, <2>3, <3>2
      <4>2. Live(p) \/ row[p].secret = NoSecret
        BY <1>1, <1>2, <4>1, AcceptedWasLive DEF p
      <4> QED BY <1>5, <2>3, <4>1, <4>2 DEF DoomedIsUnused, CredentialInv
    <3> QED BY <3>1, <3>2
  <2> QED BY <2>1, <2>2, <2>3
<1>9. LiveIsStored'
  <2> SUFFICES ASSUME NEW o \in Providers \ doubted,
                      row'[o].status \in {"enabled", "disabled"}
               PROVE  row'[o].secret \in secrets \union {NoSecret}
    BY <1>1 DEF LiveIsStored, Live
  <2>1. CASE o # p
    BY <1>3, <2>1 DEF LiveIsStored, Live, CredentialInv
  <2>2. CASE o = p /\ New(q) # NoSecret
    BY <1>3, <2>2 DEF NothingInvented, CredentialInv
  <2>3. CASE o = p /\ New(q) = NoSecret
    <3>1. request[q].op # "retire" /\ row'[p].secret = row[p].secret
      BY <1>3, <2>3
    <3>2. Live(p) \/ row[p].secret = NoSecret
      BY <1>1, <1>2, <3>1, AcceptedWasLive DEF p
    <3> QED BY <2>3, <3>1, <3>2 DEF LiveIsStored, CredentialInv
  <2> QED BY <2>1, <2>2, <2>3
<1>10. NothingLeftBehind'
  <2> SUFFICES ASSUME ~careless, doubted = {}, NEW s \in secrets
               PROVE  \/ \E o \in Providers : /\ row'[o].status \in {"enabled", "disabled"}
                                                /\ row'[o].secret = s
                      \/ \E r \in Requests : New(r)' = s \/ Doomed(r)' = s
    BY <1>1 DEF NothingLeftBehind, Live
  <2>0. s # NoSecret
    BY SecretAssumption DEF CredentialInv, TypeInv
  <2>1. CASE \E o \in Providers : o # p /\ Live(o) /\ row[o].secret = s
    BY <1>3, <2>1 DEF Live
  <2>2. CASE row[p].secret = s
    BY <1>2, <1>3, <1>4, <1>5, <2>0, <2>2
  <2>3. CASE \E r \in Requests : r # q /\ (New(r) = s \/ Doomed(r) = s)
    BY <1>5, <2>3
  <2>4. CASE New(q) = s
    BY <1>2, <1>3, <2>0, <2>4
  <2> QED BY <1>2, <2>0, <2>1, <2>2, <2>3, <2>4 DEF NothingLeftBehind, CredentialInv
<1> QED BY <1>5, <1>6, <1>7, <1>8, <1>9, <1>10 DEF CredentialInv

(* The version was another one, or the row is missing, taken or retired:   *)
(* the new secret is doomed.                                               *)
LEMMA RejectedKeeps ==
  ASSUME CredentialInv, NEW q \in Requests, request[q].stage = "write",
         Go(q, IF New(q) = NoSecret THEN Idle ELSE [stage |-> "delete", secret |-> New(q)]),
         UNCHANGED <<row, secrets, used, doubted, careless>>
  PROVE  CredentialInv'
<1>1. New(q) \in AnySecret /\ Doomed(q) = NoSecret
  BY WritingRequest
<1>2. /\ DOMAIN request' = Requests
      /\ \A r \in Requests : r # q => request'[r] = request[r]
      /\ \A r \in Requests : WellFormed(request'[r])
      /\ request'[q].stage \notin Writing
      /\ New(q)' = NoSecret /\ Doomed(q)' = New(q)
      /\ \A r \in Requests : r # q => New(r)' = New(r) /\ Doomed(r)' = Doomed(r)
  BY <1>1, AfterWriteStep DEF CredentialInv
<1>3. TypeInv' /\ SeenIsHeld' /\ LiveIsStored'
  BY <1>2 DEF TypeInv, SeenIsHeld, Seen, LiveIsStored, Live, CredentialInv
<1>4. NothingInvented' /\ OnePlace' /\ DoomedIsUnused'
  BY <1>1, <1>2
     DEF NothingInvented, OnePlace, DoomedIsUnused, Live, CredentialInv, TypeInv
<1>5. NothingLeftBehind'
  BY <1>1, <1>2 DEF NothingLeftBehind, Live, CredentialInv, NothingInvented
<1> QED BY <1>3, <1>4, <1>5 DEF CredentialInv

(* The row is written, and the new secret is doomed all the same: from now *)
(* on nothing is claimed of this row.                                      *)
LEMMA UnansweredKeeps ==
  ASSUME CredentialInv, NEW q \in Requests, WriteRowUnanswered(q)
  PROVE  CredentialInv'
<1> DEFINE p == request[q].provider
<1>1. /\ request[q].stage = "write" /\ Accepted(request[q])
      /\ row' = [row EXCEPT ![request[q].provider] = Written(request[q])]
      /\ Go(q, IF request[q].new = NoSecret THEN Idle
               ELSE [stage |-> "delete", secret |-> request[q].new])
      /\ doubted' = doubted \union {p} /\ UNCHANGED <<secrets, used, careless>>
  BY DEF WriteRowUnanswered, Stage, AfterWrite, Superfluous
<1>2. /\ p \in Providers /\ New(q) = request[q].new /\ New(q) \in AnySecret
      /\ Doomed(q) = NoSecret
  BY <1>1, WritingRequest
<1>3. /\ row' \in [Providers ->
           [status : {"absent", "enabled", "disabled", "retired"}, version : Nat,
            secret : AnySecret]]
      /\ \A o \in Providers : o # p => row'[o] = row[o]
      /\ row'[p].secret = IF New(q) = NoSecret THEN row[p].secret ELSE New(q)
      /\ row'[p].status # "absent"
  BY <1>1, AcceptedWrite
<1>4. /\ DOMAIN request' = Requests
      /\ \A r \in Requests : r # q => request'[r] = request[r]
      /\ \A r \in Requests : WellFormed(request'[r])
      /\ request'[q].stage \notin Writing
      /\ New(q)' = NoSecret /\ Doomed(q)' = New(q)
      /\ \A r \in Requests : r # q => New(r)' = New(r) /\ Doomed(r)' = Doomed(r)
  BY <1>1, <1>2, AfterWriteStep DEF CredentialInv
<1>5. SeenIsHeld'
  BY <1>1, <1>4, SeenAfterWrite
<1> HIDE DEF p
<1>6. TypeInv'
  BY <1>1, <1>2, <1>3, <1>4 DEF TypeInv, CredentialInv
<1>7. NothingInvented'
  BY <1>1, <1>2, <1>3, <1>4 DEF NothingInvented, CredentialInv, TypeInv
<1>8. OnePlace'
  <2>1. \A o, x \in Providers :
          row'[o].secret = row'[x].secret /\ row'[o].secret # NoSecret => o = x
    BY <1>2, <1>3 DEF OnePlace, CredentialInv
  <2>2. \A r \in Requests, o \in Providers : New(r)' # NoSecret => row'[o].secret # New(r)'
    BY <1>2, <1>3, <1>4 DEF OnePlace, CredentialInv
  <2>3. \A r, x \in Requests : New(r)' # NoSecret => /\ New(r)' = New(x)' => r = x
                                                     /\ Doomed(x)' # New(r)'
    BY <1>2, <1>4 DEF OnePlace, CredentialInv
  <2> QED BY <2>1, <2>2, <2>3 DEF OnePlace
<1>9. DoomedIsUnused' /\ LiveIsStored'
  BY <1>1, <1>2, <1>3, <1>4
     DEF DoomedIsUnused, LiveIsStored, Live, OnePlace, CredentialInv
<1>10. NothingLeftBehind'
  BY <1>1 DEF NothingLeftBehind
<1> QED BY <1>5, <1>6, <1>7, <1>8, <1>9, <1>10 DEF CredentialInv

-----------------------------------------------------------------------------
LEMMA InitInv == Init => CredentialInv
<1> SUFFICES ASSUME Init PROVE CredentialInv
  OBVIOUS
<1>1. /\ \A q \in Requests : request[q] = Idle
      /\ \A p \in Providers : row[p] = NoProvider
      /\ secrets = {} /\ used = {} /\ doubted = {} /\ careless = FALSE
      /\ DOMAIN request = Requests
  BY DEF Init
<1>2. /\ \A q \in Requests : New(q) = NoSecret /\ Doomed(q) = NoSecret
      /\ \A q \in Requests : WellFormed(request[q]) /\ request[q].stage = "idle"
  BY <1>1, IdleIsWellFormed DEF New, Doomed
<1>3. \A p \in Providers : row[p].secret = NoSecret /\ row[p].status = "absent"
  BY <1>1 DEF NoProvider
<1>4. TypeInv
  <2>1. row \in [Providers ->
          [status : {"absent", "enabled", "disabled", "retired"}, version : Nat,
           secret : AnySecret]]
    BY DEF Init, NoProvider, AnySecret
  <2> QED BY <1>1, <1>2, <1>3, <2>1 DEF TypeInv
<1> QED BY <1>1, <1>2, <1>3, <1>4
     DEF CredentialInv, NothingInvented, OnePlace, DoomedIsUnused, SeenIsHeld, Seen, Writing,
         LiveIsStored, Live, NothingLeftBehind

(* Steps that neither the rows of providers nor the requests take part in. *)
LEMMA ElsewhereKeeps ==
  ASSUME CredentialInv, UNCHANGED <<row, secrets, used, request, doubted, careless>>
  PROVE  CredentialInv'
BY DEF CredentialInv, TypeInv, NothingInvented, OnePlace, DoomedIsUnused, SeenIsHeld, Seen,
   LiveIsStored, Live, NothingLeftBehind, New, Doomed

LEMMA BeginKeeps ==
  ASSUME CredentialInv, NEW q \in Requests, NEW p \in Providers, NEW credential \in BOOLEAN,
         \/ BeginCreate(q, p, credential)
         \/ \E v \in 1..MaxVersion, s \in {"enabled", "disabled"} :
              BeginChange(q, p, "update", v, credential, s)
         \/ \E v \in 1..MaxVersion : BeginChange(q, p, "retire", v, FALSE, "retired")
  PROVE  CredentialInv'
<1>1. /\ row[p].secret \in AnySecret /\ row[p].version \in Nat /\ careless \in BOOLEAN
      /\ NoSecret \in AnySecret
  BY DEF CredentialInv, TypeInv, AnySecret
<1>2. /\ UNCHANGED <<row, secrets, used, doubted, careless>>
      /\ request[q].stage = "idle"
  BY DEF BeginCreate, BeginChange, stored, history, Stage
<1>3. New(q) = NoSecret /\ Doomed(q) = NoSecret
  BY <1>2 DEF New, Doomed
<1>4. CASE BeginCreate(q, p, credential)
  <2> DEFINE next == [stage |-> IF credential THEN "store" ELSE "write", op |-> "create",
                      provider |-> p, previous |-> NoSecret, new |-> NoSecret]
  <2>1. /\ Go(q, next) /\ next.stage \in Writing /\ next.op = "create"
        /\ next.provider = p /\ next.previous = NoSecret /\ next.new = NoSecret
    BY <1>4 DEF BeginCreate, Writing
  <2> HIDE DEF next
  <2>2. WellFormed(next) /\ Seen(next) /\ next.stage # "delete"
    BY <1>1, <2>1 DEF WellFormed, Seen, Writing
  <2> QED BY <1>1, <1>2, <1>3, <2>1, <2>2, QuietStep
<1>5. ASSUME NEW v \in 1..MaxVersion, NEW op \in {"update", "retire"},
             NEW c \in BOOLEAN, NEW s, BeginChange(q, p, op, v, c, s),
             op = "retire" => c = FALSE, op = "update" => s \in {"enabled", "disabled"}
      PROVE  CredentialInv'
  <2> DEFINE next == [stage |-> IF c THEN "store" ELSE "write", op |-> op,
                      provider |-> p, version |-> v, status |-> s,
                      previous |-> row[p].secret, new |-> NoSecret]
  <2>1. /\ Go(q, next) /\ next.stage = (IF c THEN "store" ELSE "write") /\ next.op = op
        /\ next.provider = p /\ next.previous = row[p].secret /\ next.new = NoSecret
        /\ next.version = v /\ next.status = s
        /\ v \in 1..row[p].version
    BY <1>5 DEF BeginChange
  <2> HIDE DEF next
  <2>2. v \in Nat /\ v <= row[p].version
    BY <1>1, <2>1
  <2>3. WellFormed(next) /\ Seen(next) /\ next.stage # "delete"
    BY <1>1, <1>5, <2>1, <2>2 DEF WellFormed, Seen, Writing
  <2> QED BY <1>1, <1>2, <1>3, <2>1, <2>3, QuietStep
<1> QED BY <1>4, <1>5

LEMMA RouteKeeps ==
  ASSUME CredentialInv, NEW q \in Requests,
         \/ \E p \in Providers, r \in Routes : BeginRoute(q, r, p)
         \/ CreateRoute(q)
  PROVE  CredentialInv'
<1>1. /\ UNCHANGED <<row, secrets, used, doubted, careless>> /\ careless \in BOOLEAN
      /\ request[q].stage \in {"idle", "route"}
  BY DEF BeginRoute, CreateRoute, stored, history, Stage, CredentialInv, TypeInv
<1>2. New(q) = NoSecret /\ Doomed(q) = NoSecret
  BY <1>1 DEF New, Doomed
<1>3. CASE CreateRoute(q)
  BY <1>1, <1>2, <1>3, QuietStep, IdleIsWellFormed DEF CreateRoute
<1>4. ASSUME NEW p \in Providers, NEW r \in Routes, BeginRoute(q, r, p)
      PROVE  CredentialInv'
  <2> DEFINE next == [stage |-> "route", route |-> r, provider |-> p, new |-> NoSecret]
  <2>1. Go(q, next) /\ next.stage = "route"
    BY <1>4 DEF BeginRoute
  <2> HIDE DEF next
  <2>2. WellFormed(next) /\ Seen(next)
    BY <2>1 DEF WellFormed, Seen, Writing
  <2> QED BY <1>1, <1>2, <2>1, <2>2, QuietStep
<1> QED BY <1>3, <1>4

LEMMA DyingKeeps ==
  ASSUME CredentialInv, NEW q \in Requests, RequestDies(q)
  PROVE  CredentialInv'
<1>1. /\ Go(q, Idle) /\ UNCHANGED <<row, secrets, used, doubted>>
      /\ careless' = (careless \/ Abandons(q)) /\ careless \in BOOLEAN
  BY DEF RequestDies, stored, CredentialInv, TypeInv
<1>2. ~Abandons(q) => New(q) = NoSecret /\ Doomed(q) = NoSecret
  BY DEF Abandons, Stage, New, Doomed
<1>3. Abandons(q) \in BOOLEAN
  BY DEF Abandons, Stage
<1>4. CASE Abandons(q)
  BY <1>1, <1>4, QuietStep, IdleIsWellFormed
<1>5. CASE ~Abandons(q)
  BY <1>1, <1>2, <1>5, QuietStep, IdleIsWellFormed
<1> QED BY <1>4, <1>5

LEMMA RestartKeeps ==
  ASSUME CredentialInv, Restart
  PROVE  CredentialInv'
<1>1. /\ request' = [q \in Requests |-> Idle] /\ UNCHANGED <<row, secrets, used, doubted>>
      /\ careless' = (careless \/ \E q \in Requests : Abandons(q)) /\ careless \in BOOLEAN
  BY DEF Restart, stored, CredentialInv, TypeInv
<1>2. /\ DOMAIN request' = Requests
      /\ \A q \in Requests : request'[q] = Idle
      /\ \A q \in Requests : New(q)' = NoSecret /\ Doomed(q)' = NoSecret
      /\ \A q \in Requests : WellFormed(request'[q]) /\ request'[q].stage = "idle"
  BY <1>1, IdleIsWellFormed DEF New, Doomed
<1>3. careless' \in BOOLEAN
  BY <1>1 DEF Abandons, Stage
<1>4. ~careless' =>
        ~careless /\ \A q \in Requests : New(q) = NoSecret /\ Doomed(q) = NoSecret
  BY <1>1 DEF Abandons, Stage, New, Doomed
<1>5. TypeInv' /\ NothingInvented' /\ OnePlace' /\ DoomedIsUnused' /\ SeenIsHeld'
      /\ LiveIsStored'
  BY <1>1, <1>2, <1>3
     DEF CredentialInv, TypeInv, NothingInvented, OnePlace, DoomedIsUnused, SeenIsHeld, Seen,
         Writing, LiveIsStored, Live
<1>6. NothingLeftBehind'
  <2> SUFFICES ASSUME ~careless', doubted = {}, NEW s \in secrets
               PROVE  \E p \in Providers : Live(p) /\ row[p].secret = s
    BY <1>1 DEF NothingLeftBehind, Live
  <2>1. s # NoSecret
    BY SecretAssumption DEF CredentialInv, TypeInv
  <2> QED BY <1>4, <2>1 DEF CredentialInv, NothingLeftBehind
<1> QED BY <1>5, <1>6 DEF CredentialInv

LEMMA WriteKeeps ==
  ASSUME CredentialInv, NEW q \in Requests, WriteRow(q)
  PROVE  CredentialInv'
<1>1. CASE Accepted(request[q])
  BY <1>1, AcceptedKeeps
<1>2. CASE ~Accepted(request[q])
  <2>1. /\ request[q].stage = "write" /\ UNCHANGED <<row, secrets, used, doubted, careless>>
        /\ Go(q, IF request[q].new = NoSecret THEN Idle
                 ELSE [stage |-> "delete", secret |-> request[q].new])
    BY <1>2 DEF WriteRow, Stage, AfterWrite, Superfluous, history
  <2>2. New(q) = request[q].new
    BY <2>1 DEF New
  <2> QED BY <2>1, <2>2, RejectedKeeps
<1> QED BY <1>1, <1>2

LEMMA NextInv ==
  ASSUME CredentialInv, [Next]_vars
  PROVE  CredentialInv'
<1>1. ASSUME NEW q \in Requests, Administrate(q) PROVE CredentialInv'
  <2>1. CASE \E p \in Providers, c \in BOOLEAN :
               \/ BeginCreate(q, p, c)
               \/ \E v \in 1..MaxVersion, s \in {"enabled", "disabled"} :
                    BeginChange(q, p, "update", v, c, s)
    BY <2>1, BeginKeeps
  <2>2. CASE \E p \in Providers, v \in 1..MaxVersion :
               BeginChange(q, p, "retire", v, FALSE, "retired")
    BY <2>2, BeginKeeps
  <2>3. CASE (\E p \in Providers, r \in Routes : BeginRoute(q, r, p)) \/ CreateRoute(q)
    BY <2>3, RouteKeeps
  <2>4. CASE StoreSecret(q)
    BY <2>4, StoreKeeps
  <2>5. CASE WriteRow(q)
    BY <2>5, WriteKeeps
  <2>6. CASE WriteRowUnanswered(q)
    BY <2>6, UnansweredKeeps
  <2>7. CASE DeleteSecret(q)
    BY <2>7, DeleteKeeps
  <2>8. CASE RequestDies(q)
    BY <2>8, DyingKeeps
  <2> QED BY <1>1, <2>1, <2>2, <2>3, <2>4, <2>5, <2>6, <2>7, <2>8 DEF Administrate
<1>2. ASSUME NEW r \in Routes, RetireRoute(r) PROVE CredentialInv'
  BY <1>2, ElsewhereKeeps DEF RetireRoute, history
<1>3. CASE Reconcile
  BY <1>3, ElsewhereKeeps
     DEF Reconcile, ReadResources, Replace, ReconciliationFailed, ExposeSecret, stored, history
<1>4. CASE Restart
  BY <1>4, RestartKeeps
<1>5. CASE UNCHANGED vars
  BY <1>5, ElsewhereKeeps DEF vars, stored, history
<1> QED BY <1>1, <1>2, <1>3, <1>4, <1>5 DEF Next

(* The invariant of where each secret is.                                  *)
THEOREM CredentialInvariant == Spec => []CredentialInv
<1>1. Init => CredentialInv
  BY InitInv
<1>2. CredentialInv /\ [Next]_vars => CredentialInv'
  BY NextInv
<1> QED BY <1>1, <1>2, PTL DEF Spec

(* For any number of concurrent updates and retirements, disconnecting     *)
(* clients and crashes: the credential of a provider that is not retired   *)
(* is never deleted, except after a commit that was reported as an error,  *)
(* and no other secret stays behind (AdminService::update and ::retire,    *)
(* gateway-admin lib.rs).                                                  *)
THEOREM CredentialsAreExactHolds == Spec => []CredentialsAreExact
<1>1. CredentialInv => CredentialsAreExact
  <2> SUFFICES ASSUME CredentialInv PROVE CredentialsAreExact
    OBVIOUS
  <2>1. \A p \in Providers \ doubted :
          Live(p) => row[p].secret \in secrets \union {NoSecret}
    BY DEF CredentialInv, LiveIsStored
  <2>2. ASSUME ~careless, doubted = {}, \A q \in Requests : Stage(q, "idle"), NEW s \in secrets
        PROVE  \E p \in Providers : Live(p) /\ row[p].secret = s
    <3>1. \A q \in Requests : New(q) = NoSecret /\ Doomed(q) = NoSecret
      BY <2>2 DEF Stage, New, Doomed
    <3>2. s # NoSecret
      BY SecretAssumption DEF CredentialInv, TypeInv
    <3> QED BY <2>2, <3>1, <3>2 DEF CredentialInv, NothingLeftBehind
  <2> QED BY <2>1, <2>2 DEF CredentialsAreExact
<1> QED BY <1>1, CredentialInvariant, PTL

-----------------------------------------------------------------------------
(* The fallback order.                                                     *)

(* FiniteSets, as Administration and as ModelRoutes extend it.             *)
LEMMA SameFiniteSets ==
  ASSUME NEW S
  PROVE  /\ Ranks!IsFiniteSet(S) <=> IsFiniteSet(S)
         /\ Ranks!Cardinality(S) = Cardinality(S)
<1>1. Ranks!IsFiniteSet(S) <=> IsFiniteSet(S)
  BY Zenon DEF Ranks!IsFiniteSet, IsFiniteSet
<1>2. Ranks!Cardinality(S) = Cardinality(S)
  BY <1>1, Zenon DEF Ranks!Cardinality, Cardinality, Ranks!IsFiniteSet, IsFiniteSet
<1> QED BY <1>1, <1>2

RouteRow ==
  [alias : Aliases \union {"retired"}, version : Nat, priority : Int, at : Nat]

RouteRows == [RouteIds -> RouteRow \union {Ranks!Absent}]

LEMMA RanksAssumed ==
  /\ IsFiniteSet(RouteIds) /\ RouteIds \subseteq Int /\ Asked \subseteq Int
  /\ "none" \notin Aliases /\ "retired" \notin Aliases
BY RanksAssumption, SameFiniteSets DEF Ranks!RoutesAssumption

(* A route of an alias has a priority and a time.                          *)
LEMMA LiveRow ==
  ASSUME NEW rows \in RouteRows, NEW a \in Aliases, NEW r \in Ranks!LiveIn(rows, a)
  PROVE  /\ r \in RouteIds /\ r \in Int /\ rows[r] \in RouteRow /\ rows[r].alias = a
         /\ rows[r].priority \in Int /\ rows[r].at \in Int
<1>1. r \in RouteIds /\ rows[r].alias = a
  BY DEF Ranks!LiveIn
<1>2. rows[r] # Ranks!Absent
  BY <1>1, RanksAssumed DEF Ranks!Absent
<1> QED BY <1>1, <1>2, RanksAssumed DEF RouteRows, RouteRow

(* ORDER BY priority, updated_at DESC, id is a strict total order.         *)
LEMMA OrderIsStrict ==
  ASSUME NEW rows \in RouteRows, NEW a \in Aliases
  PROVE  /\ \A r \in Ranks!LiveIn(rows, a) : ~Ranks!Precedes(rows, r, r)
         /\ \A r, s \in Ranks!LiveIn(rows, a) :
              r # s => Ranks!Precedes(rows, r, s) \/ Ranks!Precedes(rows, s, r)
         /\ \A r, s, u \in Ranks!LiveIn(rows, a) :
              Ranks!Precedes(rows, r, s) /\ Ranks!Precedes(rows, s, u)
                => Ranks!Precedes(rows, r, u)
<1> DEFINE S == Ranks!LiveIn(rows, a)
<1>1. \A r \in S : r \in Int /\ rows[r].priority \in Int /\ rows[r].at \in Int
  BY LiveRow
<1> HIDE DEF S
<1>2. \A r \in S : ~Ranks!Precedes(rows, r, r)
  BY <1>1 DEF Ranks!Precedes
<1>3. \A r, s \in S : r # s => Ranks!Precedes(rows, r, s) \/ Ranks!Precedes(rows, s, r)
  BY <1>1 DEF Ranks!Precedes
<1>4. \A r, s, u \in S :
        Ranks!Precedes(rows, r, s) /\ Ranks!Precedes(rows, s, u)
          => Ranks!Precedes(rows, r, u)
  BY <1>1 DEF Ranks!Precedes
<1> QED BY <1>2, <1>3, <1>4 DEF S

(* row_number() OVER (PARTITION BY ... requested_model): the routes of an  *)
(* alias are numbered without a gap and without a number twice.            *)
LEMMA PositionsAreRanks ==
  ASSUME NEW rows \in RouteRows, NEW a \in Aliases
  PROVE  /\ {Ranks!Position(rows, r) : r \in Ranks!LiveIn(rows, a)}
              = 1..Cardinality(Ranks!LiveIn(rows, a))
         /\ \A r \in Ranks!LiveIn(rows, a) : Ranks!Position(rows, r) \in Int
<1> DEFINE S == Ranks!LiveIn(rows, a)
           Before(r) == {s \in S : Ranks!Precedes(rows, s, r)}
           n == Cardinality(S)
           f == [r \in S |-> 1 + Cardinality(Before(r))]
<1>1. IsFiniteSet(S) /\ n \in Nat
  BY RanksAssumed, FS_Subset, FS_CardinalityType DEF Ranks!LiveIn
<1>2. \A r \in S : Ranks!Position(rows, r) = f[r]
  <2> TAKE r \in S
  <2>1. rows[r].alias = a
    BY DEF Ranks!LiveIn
  <2> QED BY <2>1, SameFiniteSets DEF Ranks!Position
<1>3. /\ \A r \in S : ~Ranks!Precedes(rows, r, r)
      /\ \A r, s \in S : r # s => Ranks!Precedes(rows, r, s) \/ Ranks!Precedes(rows, s, r)
      /\ \A r, s, u \in S :
           Ranks!Precedes(rows, r, s) /\ Ranks!Precedes(rows, s, u)
             => Ranks!Precedes(rows, r, u)
  BY OrderIsStrict, Zenon
<1> HIDE DEF S
<1>4. \A r \in S : /\ IsFiniteSet(Before(r)) /\ Cardinality(Before(r)) \in Nat
                   /\ Cardinality(Before(r)) < n
  <2> TAKE r \in S
  <2>1. /\ IsFiniteSet(S \ {r}) /\ Cardinality(S \ {r}) = n - 1
    BY <1>1, FS_RemoveElement
  <2>2. Before(r) \in SUBSET (S \ {r})
    BY <1>3
  <2>3. IsFiniteSet(Before(r)) /\ Cardinality(Before(r)) <= Cardinality(S \ {r})
    BY <2>1, <2>2, FS_Subset
  <2> QED BY <1>1, <2>1, <2>3, FS_CardinalityType
<1>5. \A r, s \in S : Ranks!Precedes(rows, r, s) =>
        Cardinality(Before(r)) # Cardinality(Before(s))
  <2> SUFFICES ASSUME NEW r \in S, NEW s \in S, Ranks!Precedes(rows, r, s)
               PROVE  Cardinality(Before(r)) # Cardinality(Before(s))
    OBVIOUS
  <2>1. Before(r) \in SUBSET Before(s)
    BY <1>3
  <2>2. r \in Before(s) /\ r \notin Before(r)
    BY <1>3
  <2> QED BY <1>4, <2>1, <2>2, FS_Subset
<1>6. f \in Injection(S, 1..n)
  <2>1. f \in [S -> 1..n]
    BY <1>1, <1>4
  <2>2. \A r, s \in S : f[r] = f[s] => r = s
    <3> SUFFICES ASSUME NEW r \in S, NEW s \in S, r # s PROVE f[r] # f[s]
      OBVIOUS
    <3>1. f[r] = 1 + Cardinality(Before(r)) /\ f[s] = 1 + Cardinality(Before(s))
      OBVIOUS
    <3>2. Cardinality(Before(r)) \in Nat /\ Cardinality(Before(s)) \in Nat
      BY <1>4
    <3>3. Cardinality(Before(r)) # Cardinality(Before(s))
      BY <1>3, <1>5
    <3> HIDE DEF f, Before
    <3> QED BY <3>1, <3>2, <3>3
  <2>3. DOMAIN f = S
    OBVIOUS
  <2> HIDE DEF f
  <2> QED BY <2>1, <2>2, <2>3 DEF Injection, IsInjective
<1>7. f \in Surjection(S, 1..n)
  BY <1>1, <1>6, FS_Interval, FS_Injection
<1>8. {f[r] : r \in S} = 1..n
  BY <1>7 DEF Surjection
<1>9. \A r \in S : f[r] \in Int
  BY <1>4
<1> HIDE DEF f
<1> QED BY <1>2, <1>8, <1>9 DEF S

(* The rows that normalize_model_routes writes.                            *)
Misplaced(rows) ==
  {r \in RouteIds : Ranks!Live(rows, r) /\ Ranks!Position(rows, r) # rows[r].priority}

RanksOf(rows) ==
  {[route |-> r, position |-> Ranks!Position(rows, r)] : r \in Misplaced(rows)}

SeenBy(t) == [rank EXCEPT ![t.route] = t.mine]

(* Rows that a transaction may renumber: those that are there.             *)
Renumbers(ranks, rows) ==
  \A x \in ranks :
    x.route \in RouteIds /\ x.position \in Int /\ rows[x.route] \in RouteRow

Transaction(t) ==
  /\ "stage" \in DOMAIN t
  /\ t.stage \in {"none", "lock", "write", "rank", "commit"}
  /\ t.stage # "none" => "met" \in DOMAIN t
  /\ t.stage \in {"lock", "write"} =>
       /\ t.route \in RouteIds /\ t.now \in Nat
       /\ t.alias \in Aliases \union {"retired"} /\ t.priority \in Int
  /\ t.stage \in {"rank", "commit"} =>
       t.route \in RouteIds /\ t.now \in Nat /\ t.mine \in RouteRow
  /\ t.stage = "commit" => Renumbers(t.ranks, SeenBy(t))

RanksTypes ==
  /\ time \in Nat /\ rank \in RouteRows
  /\ DOMAIN tx = Requests
  /\ \A q \in Requests : Transaction(tx[q])

RanksAreOfRows(t) == t.stage = "commit" => t.ranks = RanksOf(SeenBy(t))

(* A transaction that met no other is alone past the lock, so what it      *)
(* ranked is what it finds when it commits.                                *)
Alone ==
  \A q \in Ranks!Inside : ~tx[q].met =>
    /\ \A o \in Ranks!Inside : o = q
    /\ RanksAreOfRows(tx[q])

RanksInv == RanksTypes /\ Alone /\ PrioritiesAreRanks

LEMMA PositionIsInt ==
  ASSUME NEW rows \in RouteRows, NEW r \in RouteIds, Ranks!Live(rows, r)
  PROVE  Ranks!Position(rows, r) \in Int
<1>1. rows[r].alias \in Aliases /\ r \in Ranks!LiveIn(rows, rows[r].alias)
  BY DEF Ranks!Live, Ranks!LiveIn
<1> QED BY <1>1, PositionsAreRanks

(* Renumbering leaves rows to be rows.                                     *)
LEMMA RenumberedTypes ==
  ASSUME NEW q \in Requests, NEW rows \in RouteRows, rows = Ranks!Seen(q),
         Renumbers(tx[q].ranks, rows), tx[q].now \in Nat
  PROVE  /\ Ranks!Renumbered(q) \in RouteRows
         /\ \A r \in RouteIds :
              rows[r] \in RouteRow => Ranks!Renumbered(q)[r] \in RouteRow
<1> DEFINE Moved(r) ==
      {x \in tx[q].ranks : x.route = r /\ x.position # rows[r].priority}
           Becomes(r) ==
      IF Moved(r) = {} THEN rows[r]
      ELSE [rows[r] EXCEPT !.priority = (CHOOSE x \in Moved(r) : TRUE).position,
                           !.version = @ + 1, !.at = tx[q].now]
<1>1. Ranks!Renumbered(q) = [r \in RouteIds |-> Becomes(r)]
  BY DEF Ranks!Renumbered
<1>2. ASSUME NEW r \in RouteIds
      PROVE  /\ Becomes(r) \in RouteRow \union {Ranks!Absent}
             /\ rows[r] \in RouteRow => Becomes(r) \in RouteRow
  <2>0. rows[r] \in RouteRow \union {Ranks!Absent}
    BY DEF RouteRows
  <2>1. CASE Moved(r) = {}
    BY <2>0, <2>1
  <2>2. CASE Moved(r) # {}
    <3> DEFINE k == (CHOOSE x \in Moved(r) : TRUE).position
               v == rows[r].version + 1
    <3>1. PICK y : y = (CHOOSE x \in Moved(r) : TRUE) /\ y \in Moved(r)
      BY <2>2
    <3>2. k \in Int /\ rows[r] \in RouteRow
      BY <3>1 DEF Renumbers
    <3>3. v \in Nat
      BY <3>2 DEF RouteRow
    <3>4. Becomes(r) = [rows[r] EXCEPT !.priority = k, !.version = v, !.at = tx[q].now]
      BY <2>2
    <3> HIDE DEF k, v, Becomes
    <3> QED BY <3>2, <3>3, <3>4 DEF RouteRow
  <2> QED BY <2>1, <2>2
<1> HIDE DEF Becomes
<1> QED BY <1>1, <1>2 DEF RouteRows

(* What the transaction commits has every route at its position.           *)
LEMMA RenumberedRows ==
  ASSUME NEW q \in Requests, NEW rows \in RouteRows, rows = Ranks!Seen(q),
         tx[q].ranks = RanksOf(rows), tx[q].now \in Nat
  PROVE  /\ Ranks!Renumbered(q) \in RouteRows
         /\ \A r \in RouteIds : Ranks!Renumbered(q)[r].alias = rows[r].alias
         /\ \A r \in RouteIds : Ranks!Live(rows, r) =>
              Ranks!Renumbered(q)[r].priority = Ranks!Position(rows, r)
<1> DEFINE Moved(r) ==
      {x \in tx[q].ranks : x.route = r /\ x.position # rows[r].priority}
           Becomes(r) ==
      IF Moved(r) = {} THEN rows[r]
      ELSE [rows[r] EXCEPT !.priority = (CHOOSE x \in Moved(r) : TRUE).position,
                           !.version = @ + 1, !.at = tx[q].now]
<1>1. Ranks!Renumbered(q) = [r \in RouteIds |-> Becomes(r)]
  BY DEF Ranks!Renumbered
<1>2. ASSUME NEW r \in RouteIds
      PROVE  /\ Becomes(r) \in RouteRow \union {Ranks!Absent}
             /\ Becomes(r).alias = rows[r].alias
             /\ Ranks!Live(rows, r) => Becomes(r).priority = Ranks!Position(rows, r)
  <2>1. CASE r \in Misplaced(rows)
    <3> DEFINE k == Ranks!Position(rows, r)
               x == [route |-> r, position |-> k]
               v == rows[r].version + 1
    <3>1. Ranks!Live(rows, r) /\ k # rows[r].priority
      BY <2>1 DEF Misplaced
    <3>2. k \in Int
      BY <3>1, PositionIsInt
    <3>3. Moved(r) = {x}
      BY <2>1, <3>1 DEF RanksOf
    <3>4. Moved(r) # {} /\ (CHOOSE y \in Moved(r) : TRUE) = x /\ x.position = k
      BY <3>3
    <3>5. rows[r] \in RouteRow
      BY <3>1, RanksAssumed DEF Ranks!Live, Ranks!Absent, RouteRows
    <3>6. v \in Nat
      BY <3>5 DEF RouteRow
    <3> HIDE DEF k, x, Moved
    <3>7. Becomes(r) = [rows[r] EXCEPT !.priority = k, !.version = v, !.at = tx[q].now]
      BY <3>4
    <3> HIDE DEF v, Becomes
    <3>8. /\ Becomes(r) \in RouteRow /\ Becomes(r).alias = rows[r].alias
          /\ Becomes(r).priority = k
      BY <3>2, <3>5, <3>6, <3>7 DEF RouteRow
    <3> QED BY <3>8 DEF k
  <2>2. CASE r \notin Misplaced(rows)
    <3>1. Moved(r) = {}
      BY <2>2 DEF RanksOf
    <3>2. Becomes(r) = rows[r]
      BY <3>1
    <3>3. rows[r] \in RouteRow \union {Ranks!Absent}
      BY DEF RouteRows
    <3> QED BY <2>2, <3>2, <3>3 DEF Misplaced
  <2> QED BY <2>1, <2>2
<1> HIDE DEF Becomes
<1> QED BY <1>1, <1>2 DEF RouteRows

LEMMA RenumberedIsRanked ==
  ASSUME NEW q \in Requests, Ranks!Seen(q) \in RouteRows,
         tx[q].ranks = RanksOf(Ranks!Seen(q)), tx[q].now \in Nat
  PROVE  \A a \in Aliases :
           {Ranks!Renumbered(q)[r].priority : r \in Ranks!LiveIn(Ranks!Renumbered(q), a)}
             = 1..Ranks!Cardinality(Ranks!LiveIn(Ranks!Renumbered(q), a))
<1> TAKE a \in Aliases
<1> DEFINE rows == Ranks!Seen(q)
           new == Ranks!Renumbered(q)
<1>1. /\ \A r \in RouteIds : new[r].alias = rows[r].alias
      /\ \A r \in RouteIds : Ranks!Live(rows, r) =>
           new[r].priority = Ranks!Position(rows, r)
  BY RenumberedRows
<1>2. rows \in RouteRows
  OBVIOUS
<1> HIDE DEF rows, new
<1>3. Ranks!LiveIn(new, a) = Ranks!LiveIn(rows, a)
  BY <1>1 DEF Ranks!LiveIn
<1>4. \A r \in Ranks!LiveIn(rows, a) : new[r].priority = Ranks!Position(rows, r)
  BY <1>1 DEF Ranks!LiveIn, Ranks!Live
<1>5. {new[r].priority : r \in Ranks!LiveIn(rows, a)}
        = 1..Cardinality(Ranks!LiveIn(rows, a))
  BY <1>2, <1>4, PositionsAreRanks
<1>6. {new[r].priority : r \in Ranks!LiveIn(new, a)}
        = 1..Ranks!Cardinality(Ranks!LiveIn(new, a))
  BY <1>3, <1>5, SameFiniteSets
<1> QED BY <1>6 DEF new

LEMMA RanksInit ==
  ASSUME Ranks!Init
  PROVE  RanksInv
<1>1. /\ rank = [r \in RouteIds |-> Ranks!Absent] /\ time = 0
      /\ tx = [q \in Requests |-> Ranks!None]
  BY DEF Ranks!Init
<1>2. RanksTypes /\ Alone
  BY <1>1 DEF RanksTypes, Alone, RouteRows, Transaction, Ranks!None, Ranks!Inside, Ranks!At
<1>3. ASSUME NEW a \in Aliases PROVE Ranks!LiveIn(rank, a) = {}
  BY <1>1, RanksAssumed DEF Ranks!LiveIn, Ranks!Absent
<1>4. PrioritiesAreRanks
  <2> SUFFICES ASSUME NEW a \in Aliases
               PROVE  {rank[r].priority : r \in Ranks!LiveIn(rank, a)}
                        = 1..Ranks!Cardinality(Ranks!LiveIn(rank, a))
    BY DEF PrioritiesAreRanks, Ranks!PrioritiesAreRanks
  <2>1. Ranks!Cardinality(Ranks!LiveIn(rank, a)) = 0
    BY <1>3, FS_EmptySet, SameFiniteSets
  <2> QED BY <1>3, <2>1
<1> QED BY <1>2, <1>4 DEF RanksInv

LEMMA RowsRest ==
  ASSUME PrioritiesAreRanks, UNCHANGED <<rank, crossed>>
  PROVE  PrioritiesAreRanks'
BY DEF PrioritiesAreRanks, Ranks!PrioritiesAreRanks, Ranks!LiveIn

(* A step of one transaction that commits nothing.                         *)
LEMMA TransactionStep ==
  ASSUME RanksInv, UNCHANGED <<rank, crossed>>, time' \in Nat,
         NEW q \in Requests, NEW next, Ranks!Go(q, next), Transaction(next),
         \/ next.stage \in {"none", "lock"}
         \/ q \in Ranks!Inside /\ next.met = tx[q].met /\ RanksAreOfRows(next)
  PROVE  RanksInv'
<1>0. RanksTypes /\ Alone /\ PrioritiesAreRanks
  BY DEF RanksInv
<1>1. /\ DOMAIN tx' = Requests /\ tx'[q] = next
      /\ \A o \in Requests \ {q} : tx'[o] = tx[o]
  BY <1>0 DEF Ranks!Go, RanksTypes
<1>2. ASSUME NEW o \in Requests PROVE Transaction(tx[o])'
  <2>1. Transaction(tx'[o])
    BY <1>0, <1>1 DEF RanksTypes
  <2> QED BY <2>1 DEF Transaction, SeenBy
<1>3. RanksTypes'
  BY <1>0, <1>1, <1>2 DEF RanksTypes
<1>4. Alone'
  <2> SUFFICES ASSUME NEW o \in Ranks!Inside', ~tx'[o].met
               PROVE  /\ \A p \in Ranks!Inside' : p = o
                      /\ RanksAreOfRows(tx[o])'
    BY DEF Alone
  <2>1. o \in Requests /\ Ranks!Inside' \subseteq Ranks!Inside \union {q}
    BY <1>1 DEF Ranks!Inside, Ranks!At
  <2>2. q \in Ranks!Inside' => q \in Ranks!Inside /\ next.met = tx[q].met
                                   /\ RanksAreOfRows(next)
    BY <1>1 DEF Ranks!Inside, Ranks!At
  <2>3. o \in Ranks!Inside /\ ~tx[o].met
    BY <1>1, <2>1, <2>2
  <2>4. (\A p \in Ranks!Inside : p = o) /\ RanksAreOfRows(tx[o])
    BY <1>0, <2>3 DEF Alone
  <2>5. RanksAreOfRows(tx'[o])
    BY <1>1, <2>1, <2>2, <2>4
  <2>6. RanksAreOfRows(tx[o])'
    BY <2>5 DEF RanksAreOfRows, SeenBy
  <2> QED BY <2>1, <2>2, <2>4, <2>6
<1> QED BY <1>0, <1>3, <1>4, RowsRest DEF RanksInv

LEMMA BeginStep ==
  ASSUME RanksInv, NEW q \in Requests, NEW op, NEW r \in RouteIds,
         NEW version, NEW alias \in Aliases \union {"retired"}, NEW priority \in Int,
         NEW lock, Ranks!Begin(q, op, r, version, alias, priority, lock)
  PROVE  RanksInv'
<1> DEFINE next == [stage |-> "lock", op |-> op, route |-> r, version |-> version,
                    alias |-> alias, priority |-> priority, lock |-> lock, now |-> time',
                    met |-> FALSE]
<1>1. time' \in Nat /\ UNCHANGED <<rank, crossed>> /\ Ranks!Go(q, next)
  BY DEF Ranks!Begin, RanksInv, RanksTypes
<1>2. Transaction(next) /\ next.stage = "lock"
  BY <1>1 DEF Transaction
<1> HIDE DEF next
<1> QED BY <1>1, <1>2, TransactionStep

(* A transaction that enters beside others has met them, and they it.      *)
LEMMA LockStep ==
  ASSUME RanksInv, NEW q \in Requests, Ranks!LockModelRoutes(q)
  PROVE  RanksInv'
<1>0. RanksTypes /\ Alone /\ PrioritiesAreRanks
  BY DEF RanksInv
<1>1. /\ tx[q].stage = "lock" /\ UNCHANGED <<rank, time, crossed>>
      /\ Ranks!Beside(q) = Ranks!Inside /\ q \notin Ranks!Inside
  BY DEF Ranks!LockModelRoutes, Ranks!At, Ranks!Beside, Ranks!Inside
<1>2. DOMAIN tx' = Requests
  BY DEF Ranks!LockModelRoutes, Ranks!Enter
<1>3. tx'[q] = [tx[q] EXCEPT !.stage = "write", !.met = (Ranks!Inside # {})]
  BY <1>1 DEF Ranks!LockModelRoutes, Ranks!Enter
<1>4. \A p \in Ranks!Inside : tx'[p] = [tx[p] EXCEPT !.met = TRUE]
  BY <1>1 DEF Ranks!LockModelRoutes, Ranks!Enter, Ranks!Inside
<1>5. \A p \in Requests \ (Ranks!Inside \union {q}) : tx'[p] = tx[p]
  BY <1>1 DEF Ranks!LockModelRoutes, Ranks!Enter
<1>6. ASSUME NEW p \in Requests PROVE Transaction(tx'[p])
  <2>1. Transaction(tx[p])
    BY <1>0 DEF RanksTypes
  <2>2. CASE p = q
    <3> DEFINE t == tx[q]
               u == [t EXCEPT !.stage = "write", !.met = (Ranks!Inside # {})]
    <3>1. t.stage = "lock" /\ Transaction(t)
      BY <1>1, <2>1, <2>2
    <3>2. /\ DOMAIN u = DOMAIN t /\ u.route = t.route /\ u.now = t.now
          /\ u.alias = t.alias /\ u.priority = t.priority
      OBVIOUS
    <3>3. u.stage = "write"
      BY <3>1 DEF Transaction
    <3> HIDE DEF t, u
    <3>4. Transaction(u)
      BY <3>1, <3>2, <3>3 DEF Transaction
    <3> QED BY <1>3, <2>2, <3>4 DEF t, u
  <2>3. CASE p \in Ranks!Inside
    <3> DEFINE t == tx[p]
               u == [t EXCEPT !.met = TRUE]
    <3>1. /\ u.stage = t.stage /\ DOMAIN u = DOMAIN t /\ u.route = t.route
          /\ u.now = t.now /\ u.alias = t.alias /\ u.priority = t.priority
          /\ u.mine = t.mine /\ u.ranks = t.ranks
      OBVIOUS
    <3>2. SeenBy(u) = SeenBy(t)
      BY <3>1 DEF SeenBy
    <3> HIDE DEF t, u
    <3>3. Transaction(u)
      BY <2>1, <3>1, <3>2 DEF Transaction, t
    <3> QED BY <1>4, <2>3, <3>3 DEF t, u
  <2>4. CASE p \notin Ranks!Inside \union {q}
    BY <1>5, <2>1, <2>4
  <2> QED BY <2>2, <2>3, <2>4
<1>7. ASSUME NEW p \in Requests PROVE Transaction(tx[p])'
  BY <1>1, <1>6 DEF Transaction, SeenBy
<1>8. RanksTypes'
  BY <1>0, <1>1, <1>2, <1>7 DEF RanksTypes
<1>9. Transaction(tx[q]) /\ \A p \in Requests : Transaction(tx[p])
  BY <1>0 DEF RanksTypes
<1>10. Alone'
  <2>1. Ranks!Inside' \subseteq Ranks!Inside \union {q}
    BY <1>5 DEF Ranks!Inside, Ranks!At
  <2>2. tx'[q].stage = "write" /\ (tx'[q].met <=> Ranks!Inside # {})
    BY <1>1, <1>3, <1>9 DEF Transaction
  <2>3. \A p \in Ranks!Inside : tx'[p].met
    <3> SUFFICES ASSUME NEW p \in Ranks!Inside PROVE tx'[p].met
      OBVIOUS
    <3>1. "met" \in DOMAIN tx[p]
      BY <1>9 DEF Transaction, Ranks!Inside, Ranks!At
    <3> QED BY <1>4, <3>1
  <2>4. CASE Ranks!Inside = {}
    BY <2>1, <2>2, <2>4 DEF Alone, RanksAreOfRows
  <2>5. CASE Ranks!Inside # {}
    BY <2>1, <2>2, <2>3, <2>5 DEF Alone
  <2> QED BY <2>4, <2>5
<1> QED BY <1>0, <1>1, <1>8, <1>10, RowsRest DEF RanksInv

LEMMA WriteStep ==
  ASSUME RanksInv, NEW q \in Requests, Ranks!WriteRoute(q)
  PROVE  RanksInv'
<1> DEFINE t == tx[q]
           mine == Ranks!Changed(t)
           next == [stage |-> "rank", op |-> t.op, route |-> t.route, lock |-> t.lock,
                    now |-> t.now, met |-> t.met, mine |-> mine]
<1>1. /\ t.stage = "write" /\ UNCHANGED <<rank, time, crossed>> /\ time \in Nat
      /\ Ranks!Go(q, next) \/ Ranks!Go(q, Ranks!None)
  BY DEF Ranks!WriteRoute, Ranks!At, RanksInv, RanksTypes
<1>2. Transaction(t) /\ rank \in RouteRows
  BY DEF RanksInv, RanksTypes
<1>3. q \in Ranks!Inside
  BY <1>1 DEF Ranks!Inside, Ranks!At
<1>4. mine \in RouteRow
  <2> DEFINE v == rank[t.route].version + 1
  <2>1. rank[t.route] \in RouteRow \union {Ranks!Absent}
    BY <1>1, <1>2 DEF Transaction, RouteRows
  <2>2. v \in Nat
    BY <2>1 DEF RouteRow, Ranks!Absent
  <2>3. mine = [alias |-> t.alias, version |-> v, priority |-> t.priority, at |-> t.now]
    BY DEF Ranks!Changed
  <2> HIDE DEF v, mine
  <2> QED BY <1>1, <1>2, <2>2, <2>3 DEF Transaction, RouteRow
<1> HIDE DEF mine
<1>5. Transaction(next) /\ RanksAreOfRows(next) /\ next.met = t.met
  BY <1>1, <1>2, <1>4 DEF Transaction, RanksAreOfRows
<1>6. Transaction(Ranks!None) /\ Ranks!None.stage = "none"
  BY DEF Transaction, Ranks!None
<1> HIDE DEF next
<1>7. CASE Ranks!Go(q, next)
  BY <1>1, <1>3, <1>5, <1>7, TransactionStep
<1>8. CASE Ranks!Go(q, Ranks!None)
  BY <1>1, <1>6, <1>8, TransactionStep
<1> QED BY <1>1, <1>7, <1>8

LEMMA RankStep ==
  ASSUME RanksInv, NEW q \in Requests, Ranks!RankRoutes(q)
  PROVE  RanksInv'
<1> DEFINE t == tx[q]
           rows == Ranks!Seen(q)
           ranks == RanksOf(rows)
           next == [stage |-> "commit", op |-> t.op, route |-> t.route, lock |-> t.lock,
                    now |-> t.now, met |-> t.met, mine |-> t.mine, ranks |-> ranks]
<1>1. /\ t.stage = "rank" /\ UNCHANGED <<rank, time, crossed>> /\ time \in Nat
      /\ Ranks!Go(q, next)
  BY DEF Ranks!RankRoutes, Ranks!At, RanksInv, RanksTypes, RanksOf, Misplaced
<1>2. Transaction(t) /\ rank \in RouteRows
  BY DEF RanksInv, RanksTypes
<1>3. q \in Ranks!Inside
  BY <1>1 DEF Ranks!Inside, Ranks!At
<1>4. SeenBy(next) = rows
  BY DEF SeenBy, Ranks!Seen
<1>5. rows \in RouteRows
  BY <1>1, <1>2 DEF Ranks!Seen, Transaction, RouteRows
<1> HIDE DEF rows
<1>6. Renumbers(ranks, rows)
  <2> SUFFICES ASSUME NEW r \in Misplaced(rows)
               PROVE  Ranks!Position(rows, r) \in Int /\ rows[r] \in RouteRow
    BY DEF Renumbers, RanksOf, Misplaced
  <2>1. r \in RouteIds /\ Ranks!Live(rows, r)
    BY DEF Misplaced
  <2>2. Ranks!Position(rows, r) \in Int
    BY <1>5, <2>1, PositionIsInt
  <2>3. rows[r] \in RouteRow
    BY <1>5, <2>1, RanksAssumed DEF Ranks!Live, Ranks!Absent, RouteRows
  <2> QED BY <2>2, <2>3
<1>7. RanksAreOfRows(next)
  BY <1>4 DEF RanksAreOfRows
<1>8. Transaction(next) /\ next.met = t.met
  BY <1>1, <1>2, <1>4, <1>6 DEF Transaction
<1> HIDE DEF next
<1> QED BY <1>1, <1>3, <1>7, <1>8, TransactionStep

(* A commit may find and leave any order if its transaction met another;   *)
(* if not, it leaves every alias in order.                                 *)
LEMMA CommitStep ==
  ASSUME RanksInv, NEW q \in Requests, Ranks!CommitRoutes(q)
  PROVE  RanksInv'
<1> DEFINE new == Ranks!Renumbered(q)
<1>0. RanksTypes /\ Alone /\ PrioritiesAreRanks /\ time \in Nat
  BY DEF RanksInv, RanksTypes
<1>1. /\ tx[q].stage = "commit" /\ time' = time /\ Ranks!Go(q, Ranks!None)
      /\ \/ UNCHANGED <<rank, crossed>>
         \/ rank' = new /\ crossed' = tx[q].met
  BY DEF Ranks!CommitRoutes, Ranks!At
<1>2. q \in Ranks!Inside
  BY <1>1 DEF Ranks!Inside, Ranks!At
<1>3. Transaction(Ranks!None) /\ Ranks!None.stage = "none"
  BY DEF Transaction, Ranks!None
<1>4. CASE UNCHANGED <<rank, crossed>>
  BY <1>0, <1>1, <1>3, <1>4, TransactionStep
<1>5. CASE rank' = new /\ crossed' = tx[q].met
  <2>1. /\ tx[q].route \in RouteIds /\ tx[q].now \in Nat /\ tx[q].mine \in RouteRow
        /\ Renumbers(tx[q].ranks, SeenBy(tx[q])) /\ rank \in RouteRows
    BY <1>0, <1>1 DEF RanksTypes, Transaction
  <2>2. SeenBy(tx[q]) = Ranks!Seen(q) /\ Ranks!Seen(q) \in RouteRows
    BY <2>1 DEF SeenBy, Ranks!Seen, RouteRows
  <2>3. /\ new \in RouteRows
        /\ \A r \in RouteIds : Ranks!Seen(q)[r] \in RouteRow => new[r] \in RouteRow
    BY <2>1, <2>2, RenumberedTypes
  <2>4. \A r \in RouteIds : rank[r] \in RouteRow => rank'[r] \in RouteRow
    BY <1>5, <2>1, <2>3 DEF Ranks!Seen, RouteRows
  <2>5. ~tx[q].met => \A a \in Aliases :
             {new[r].priority : r \in Ranks!LiveIn(new, a)}
               = 1..Ranks!Cardinality(Ranks!LiveIn(new, a))
    <3>1. ~tx[q].met => tx[q].ranks = RanksOf(Ranks!Seen(q))
      BY <1>0, <1>1, <1>2, <2>2 DEF Alone, RanksAreOfRows
    <3> QED BY <2>1, <2>2, <3>1, RenumberedIsRanked
  <2> HIDE DEF new
  <2>6. /\ DOMAIN tx' = Requests /\ tx'[q] = Ranks!None
        /\ \A o \in Requests \ {q} : tx'[o] = tx[o]
    BY <1>0, <1>1 DEF RanksTypes, Ranks!Go
  <2>7. ASSUME NEW o \in Requests PROVE Transaction(tx[o])'
    <3>1. CASE o = q
      BY <1>3, <2>6, <3>1 DEF Transaction, Ranks!None
    <3>2. CASE o # q
      <4> DEFINE t == tx[o]
      <4>1. Transaction(t) /\ tx'[o] = t
        BY <1>0, <2>6, <3>2 DEF RanksTypes
      <4>2. ASSUME t.stage = "commit" PROVE Renumbers(t.ranks, [rank' EXCEPT ![t.route] = t.mine])
        <5>1. /\ t.route \in RouteIds /\ t.mine \in RouteRow
              /\ Renumbers(t.ranks, [rank EXCEPT ![t.route] = t.mine])
          BY <4>1, <4>2 DEF Transaction, SeenBy
        <5> QED BY <1>5, <2>1, <2>3, <2>4, <5>1 DEF Renumbers, RouteRows
      <4> QED BY <4>1, <4>2 DEF Transaction, SeenBy
    <3> QED BY <3>1, <3>2
  <2>8. RanksTypes'
    BY <1>0, <1>1, <1>5, <2>3, <2>6, <2>7 DEF RanksTypes
  <2>9. Alone'
    <3>1. Ranks!Inside' \subseteq Ranks!Inside \ {q}
      BY <1>3, <2>6 DEF Ranks!Inside, Ranks!At
    <3>2. \A o \in Ranks!Inside \ {q} : tx[o].met
      BY <1>0, <1>2 DEF Alone
    <3>3. \A o \in Ranks!Inside' : tx'[o].met
      BY <2>6, <3>1, <3>2 DEF Ranks!Inside
    <3> QED BY <3>3 DEF Alone
  <2>10. PrioritiesAreRanks'
    <3>1. ~crossed' => \A a \in Aliases :
            {rank'[r].priority : r \in Ranks!LiveIn(rank', a)}
              = 1..Ranks!Cardinality(Ranks!LiveIn(rank', a))
      BY <1>5, <2>5
    <3>2. \A a \in Aliases : Ranks!LiveIn(rank, a)' = Ranks!LiveIn(rank', a)
      BY DEF Ranks!LiveIn
    <3> QED BY <3>1, <3>2 DEF PrioritiesAreRanks, Ranks!PrioritiesAreRanks
  <2> QED BY <2>8, <2>9, <2>10 DEF RanksInv
<1> QED BY <1>1, <1>4, <1>5

LEMMA RollBackStep ==
  ASSUME RanksInv, NEW q \in Requests, Ranks!RollBack(q)
  PROVE  RanksInv'
<1>1. UNCHANGED <<rank, time, crossed>> /\ time \in Nat /\ Ranks!Go(q, Ranks!None)
  BY DEF Ranks!RollBack, RanksInv, RanksTypes
<1>2. Transaction(Ranks!None) /\ Ranks!None.stage = "none"
  BY DEF Transaction, Ranks!None
<1> QED BY <1>1, <1>2, TransactionStep

(* A version the client has seen is that of a row, which has a priority.   *)
LEMMA SeenRow ==
  ASSUME RanksInv, NEW r \in RouteIds, NEW v \in 1..rank[r].version
  PROVE  rank[r].priority \in Int
<1>1. rank[r] \in RouteRow \union {Ranks!Absent}
  BY DEF RanksInv, RanksTypes, RouteRows
<1>2. rank[r] # Ranks!Absent
  BY DEF Ranks!Absent
<1> QED BY <1>1, <1>2 DEF RouteRow

LEMMA RanksNext ==
  ASSUME RanksInv, [Ranks!Next]_ranksVars
  PROVE  RanksInv'
<1>1. CASE UNCHANGED ranksVars
  <2>1. UNCHANGED <<rank, time, tx, crossed>>
    BY <1>1 DEF ranksVars
  <2>2. RanksTypes /\ Alone /\ PrioritiesAreRanks
    BY DEF RanksInv
  <2>3. ASSUME NEW q \in Requests PROVE Transaction(tx[q])'
    BY <2>1, <2>2 DEF RanksTypes, Transaction, SeenBy
  <2>4. RanksTypes'
    BY <2>1, <2>2, <2>3 DEF RanksTypes
  <2>5. Alone'
    BY <2>1, <2>2 DEF Alone, Ranks!Inside, Ranks!At, RanksAreOfRows, SeenBy, RanksOf,
                      Misplaced
  <2> QED BY <2>1, <2>2, <2>4, <2>5, RowsRest DEF RanksInv
<1>2. ASSUME NEW q \in Requests, NEW r \in RouteIds, NEW a \in Aliases, NEW k \in Asked,
             \/ Ranks!BeginCreate(q, r, a, k)
             \/ \E v \in 1..rank[r].version, l \in Ranks!Locks :
                  Ranks!BeginUpdate(q, r, v, a, k, l)
      PROVE  RanksInv'
  BY <1>2, BeginStep, RanksAssumed DEF Ranks!BeginCreate, Ranks!BeginUpdate
<1>3. ASSUME NEW q \in Requests, NEW r \in RouteIds, NEW v \in 1..rank[r].version,
             NEW l \in Ranks!Locks, Ranks!BeginRetire(q, r, v, l)
      PROVE  RanksInv'
  BY <1>3, BeginStep, SeenRow DEF Ranks!BeginRetire
<1> QED BY <1>1, <1>2, <1>3, LockStep, WriteStep, RankStep, CommitStep, RollBackStep
        DEF Ranks!Next

LEMMA RanksMove ==
  ASSUME RanksInv, [Move]_allVars
  PROVE  RanksInv'
<1>1. [Ranks!Next]_ranksVars
  BY DEF Move, Build, allVars
<1> QED BY <1>1, RanksNext

(* The transactions that reorder routes: one that met none under the other *)
(* lock is alone, and finds the rows that it ranked.                       *)
THEOREM RanksInvariant == Administration => []RanksInv
<1>1. Start => RanksInv
  BY RanksInit DEF Start
<1>2. RanksInv /\ [Move]_allVars => RanksInv'
  BY RanksMove
<1> QED BY <1>1, <1>2, PTL DEF Administration

(* For any number of routes, aliases and transactions, roll-backs and      *)
(* versions out of date: committed routes of an alias are numbered 1, ...,  *)
(* n, unless the last transaction ran beside one under the other lock; a   *)
(* transaction that ran beside none restores the order, whatever it found  *)
(* (normalize_model_routes and lock_model_routes, store-postgres admin.rs).*)
THEOREM PrioritiesAreRanksHolds == Administration => []PrioritiesAreRanks
<1>1. RanksInv => PrioritiesAreRanks
  BY DEF RanksInv, PrioritiesAreRanks, Ranks!PrioritiesAreRanks
<1> QED BY <1>1, RanksInvariant, PTL

-----------------------------------------------------------------------------
(* The activation of a provider.                                           *)

Stages == {"none", "check", "health", "record", "list", "models", "cache", "end", "sleep",
           "complete", "incomplete"}

Job == [stage : Stages, attempt : Nat, wait : Nat,
        status : {"none", "healthy", "unhealthy", "unknown"},
        healthy : BOOLEAN, synced : BOOLEAN]

Attempting == job.stage \notin {"none", "complete", "incomplete"}

(* What ActivationCompletes is promised under; no step restores it.        *)
Untroubled == own /\ adapter = "openai" /\ upstream = "models" /\ troubles = 0

ActivationTypes ==
  /\ job \in Job /\ until \in Nat /\ served \in BOOLEAN
  /\ provider \in {"absent", "enabled"}
  /\ provider = "absent" => job.stage = "none" /\ ~served
  /\ job.wait <= (IF job.stage = "sleep" THEN 3 ELSE 0)
  /\ job.stage = "record" => job.status = "healthy"

(* What the task has noted is stored.                                      *)
NotedIsStored ==
  /\ job.healthy => mirrored
  /\ job.synced => models = "listed"
  /\ job.stage = "complete" => mirrored /\ models = "listed"
  /\ job.stage # "incomplete"

(* Until the service knows the provider, the pauses that the task made and *)
(* the time to the next tick are no more than an interval.                 *)
WithinInterval ==
  Attempting /\ ~served =>
    /\ job.stage \in {"check", "list", "end", "sleep"}
    /\ ~job.healthy /\ ~job.synced
    /\ until + 3 * job.attempt <= 20 + job.wait

(* The attempt that runs when the service learns of it may still fail; the *)
(* next one does not.                                                      *)
Succeeding ==
  job.stage \in {"list", "models", "cache", "end"} =>
    job.healthy /\ (job.stage = "end" => job.synced)

OneMoreAttempt ==
  Attempting /\ served => job.attempt <= 7 \/ (job.attempt = 8 /\ Succeeding)

Activating ==
  ActivationTypes /\ NotedIsStored /\ WithinInterval /\ OneMoreAttempt /\ until <= 20

ActivationInv == troubles \in Nat /\ (Untroubled => Activating)

LEMMA ActivationInit ==
  ASSUME Activation!Init
  PROVE  ActivationInv
<1>1. /\ job = [stage |-> "none", attempt |-> 0, wait |-> 0, status |-> "none",
               healthy |-> FALSE, synced |-> FALSE]
      /\ provider = "absent" /\ served = FALSE /\ until \in 0..20 /\ troubles = 0
  BY DEF Activation!Init, Activation!NoJob, Activation!Interval
<1>2. job \in Job
  BY <1>1 DEF Job, Stages
<1>3. job.stage = "none" /\ job.wait = 0 /\ ~job.healthy /\ ~job.synced
  BY <1>1
<1>4. /\ until \in Nat /\ until <= 20 /\ troubles \in Nat /\ provider = "absent"
      /\ served \in BOOLEAN /\ ~served
  <2>1. until \in Nat /\ until <= 20 /\ troubles \in Nat /\ provider = "absent"
    BY DEF Activation!Init, Activation!Interval
  <2>2. served \in BOOLEAN /\ ~served
    BY Zenon DEF Activation!Init
  <2> QED BY <2>1, <2>2
<1>5. ActivationTypes
  BY <1>2, <1>3, <1>4 DEF ActivationTypes
<1>6. NotedIsStored
  BY <1>3 DEF NotedIsStored
<1>7. WithinInterval /\ OneMoreAttempt
  BY <1>3 DEF WithinInterval, OneMoreAttempt, Attempting
<1> QED BY <1>4, <1>5, <1>6, <1>7 DEF ActivationInv, Activating

(* Whatever goes wrong or is changed counts as a trouble.                  *)
LEMMA TroublesAreCounted ==
  ASSUME ActivationInv, Activation!Next, Untroubled'
  PROVE  Untroubled /\ UNCHANGED <<own, adapter, upstream, troubles>>
<1>1. troubles \in Nat /\ (troubles' = 0 => troubles' # troubles + 1)
  BY DEF ActivationInv
<1> QED BY <1>1
     DEF Untroubled, Activation!Next, Activation!CreateProvider, Activation!ChangeProvider,
         Activation!UpstreamChanges, Activation!Reconcile, Activation!Pass,
         Activation!CheckHealth, Activation!HealthAnswers, Activation!RecordHealth,
         Activation!ListModels, Activation!ModelsAnswer, Activation!Cache,
         Activation!StatementFails, Activation!EndAttempt, Activation!Wake,
         Activation!Restart, Activation!AskAgain, Activation!StoreAgain,
         Activation!AskedInVain, Activation!Trouble, Activation!Surroundings


(* A step that leaves the task, the service and the provider's row alone.  *)
LEMMA ElsewhereActivates ==
  ASSUME Activating, UNCHANGED <<job, until, served, provider>>,
         mirrored => mirrored', models = "listed" => models' = "listed"
  PROVE  Activating'
BY DEF Activating, ActivationTypes, NotedIsStored, WithinInterval, OneMoreAttempt, Attempting,
       Succeeding

LEMMA OthersActivate ==
  ASSUME Activating, Untroubled,
         Activation!AskAgain \/ Activation!StoreAgain \/ Activation!AskedInVain
  PROVE  Activating'
<1>1. /\ UNCHANGED <<job, until, served, provider>>
      /\ mirrored => mirrored'
      /\ models = "listed" => models' = "listed"
  BY DEF Activation!AskAgain, Activation!StoreAgain, Activation!AskedInVain,
         Activation!observed, Activation!CacheModels, Activation!Stored
<1> QED BY <1>1, ElsewhereActivates

LEMMA CreateActivates ==
  ASSUME Activating, Untroubled, Activation!CreateProvider
  PROVE  Activating'
<1> DEFINE next == [stage |-> "check", attempt |-> 0, wait |-> 0, status |-> "none",
                    healthy |-> FALSE, synced |-> FALSE]
<1>1. /\ provider = "absent" /\ provider' = "enabled" /\ job' = next
      /\ UNCHANGED <<until, served, mirrored, models>>
  BY DEF Activation!CreateProvider, Activation!NoJob, Activation!observed
<1>2. /\ next \in Job /\ next.stage = "check" /\ next.wait = 0 /\ next.attempt = 0
      /\ ~next.healthy /\ ~next.synced
  BY DEF Job, Stages
<1> HIDE DEF next
<1> QED BY <1>1, <1>2
     DEF Activating, ActivationTypes, NotedIsStored, WithinInterval, OneMoreAttempt,
         Attempting

LEMMA TickActivates ==
  ASSUME Activating, Untroubled, Activation!Reconcile, UNCHANGED troubles
  PROVE  Activating'
<1>1. /\ until = 0 /\ until' = 20 /\ UNCHANGED <<provider, job, mirrored, models>>
      /\ served' = (provider = "enabled")
  BY DEF Activation!Reconcile, Activation!Trouble, Activation!Interval, Activation!observed,
         Untroubled
<1>2. job.attempt \in Nat /\ job.wait \in Nat /\ served \in BOOLEAN
      /\ job.wait <= 3
  BY DEF Activating, ActivationTypes, Job
<1>3. CASE provider = "absent"
  BY <1>1, <1>2, <1>3
     DEF Activating, ActivationTypes, NotedIsStored, WithinInterval, OneMoreAttempt,
         Attempting
<1>4. CASE provider = "enabled"
  <2>1. served' = TRUE
    BY <1>1, <1>4
  <2>2. OneMoreAttempt'
    BY <1>1, <1>2, <2>1
       DEF Activating, WithinInterval, OneMoreAttempt, Attempting, Succeeding
  <2> QED BY <1>1, <1>2, <1>4, <2>1, <2>2
       DEF Activating, ActivationTypes, NotedIsStored, WithinInterval, Attempting
<1> QED BY <1>3, <1>4 DEF Activating, ActivationTypes

(* The steps of the task itself.                                           *)
LEMMA TaskStep ==
  ASSUME Activating, Attempting, NEW next \in Job, job' = next,
         UNCHANGED <<until, served, provider>>,
         next.stage \notin {"none", "sleep", "complete", "incomplete"},
         next.wait = 0, next.attempt = job.attempt,
         next.stage = "record" => next.status = "healthy",
         next.healthy => mirrored', next.synced => models' = "listed",
         ~served => /\ next.stage \in {"check", "list", "end"}
                    /\ job.wait = 0 /\ ~next.healthy /\ ~next.synced,
         served /\ job.attempt = 8 =>
           (next.stage \in {"list", "models", "cache", "end"} =>
              next.healthy /\ (next.stage = "end" => next.synced))
  PROVE  Activating'
<1>1. provider = "enabled" /\ job \in Job /\ until \in Nat /\ until <= 20
      /\ served \in BOOLEAN
  BY DEF Activating, ActivationTypes, Attempting
<1>2. ActivationTypes'
  BY <1>1 DEF ActivationTypes
<1>3. NotedIsStored'
  BY DEF NotedIsStored
<1>4. WithinInterval'
  BY <1>1 DEF Activating, WithinInterval, Attempting
<1>5. OneMoreAttempt'
  BY <1>1 DEF Activating, OneMoreAttempt, Attempting, Succeeding
<1> QED BY <1>1, <1>2, <1>3, <1>4, <1>5 DEF Activating

LEMMA CheckActivates ==
  ASSUME Activating, Untroubled, Activation!CheckHealth
  PROVE  Activating'
<1>1. /\ job.stage = "check" /\ UNCHANGED <<until, served, provider, mirrored, models>>
      /\ job' = IF served THEN [job EXCEPT !.stage = "health"]
                ELSE [job EXCEPT !.stage = "list", !.healthy = FALSE]
  BY DEF Activation!CheckHealth, Activation!At, Activation!Become, Activation!Unstored,
         Activation!observed, Activation!Surroundings
<1>2. job \in Job /\ job.wait = 0 /\ served \in BOOLEAN
  BY <1>1 DEF Activating, ActivationTypes, Job
<1>3. Attempting
  BY <1>1 DEF Attempting
<1>4. (job.healthy => mirrored) /\ (job.synced => models = "listed")
      /\ (~served => ~job.synced)
  BY <1>1, <1>3 DEF Activating, NotedIsStored, WithinInterval
<1>5. CASE served
  <2> DEFINE next == [job EXCEPT !.stage = "health"]
  <2>1. /\ next \in Job /\ next.stage = "health" /\ next.wait = 0
        /\ next.attempt = job.attempt
    BY <1>2 DEF Job, Stages
  <2>2. (next.healthy => mirrored') /\ (next.synced => models' = "listed")
    BY <1>1, <1>2, <1>4 DEF Job
  <2>3. job' = next
    BY <1>1, <1>5
  <2> HIDE DEF next
  <2> QED BY <1>1, <1>3, <1>5, <2>1, <2>2, <2>3, TaskStep
<1>6. CASE ~served
  <2> DEFINE next == [job EXCEPT !.stage = "list", !.healthy = FALSE]
  <2>1. /\ next \in Job /\ next.stage = "list" /\ next.wait = 0
        /\ next.attempt = job.attempt
    BY <1>2 DEF Job, Stages
  <2>2. ~next.healthy /\ ~next.synced
    BY <1>2, <1>4, <1>6 DEF Job
  <2>3. job' = next
    BY <1>1, <1>6
  <2> HIDE DEF next
  <2> QED BY <1>1, <1>2, <1>3, <1>6, <2>1, <2>2, <2>3, TaskStep
<1> QED BY <1>5, <1>6

LEMMA HealthActivates ==
  ASSUME Activating, Untroubled, Activation!HealthAnswers
  PROVE  Activating'
<1> DEFINE next == [job EXCEPT !.stage = "record", !.status = "healthy"]
<1>1. /\ job.stage = "health" /\ UNCHANGED <<until, served, provider, mirrored, models>>
      /\ job' = next
  BY DEF Activation!HealthAnswers, Activation!At, Activation!Become, Activation!Unstored,
         Activation!observed, Activation!Surroundings, Activation!Health, Untroubled
<1>2. job \in Job /\ job.wait = 0
  BY <1>1 DEF Activating, ActivationTypes, Job
<1>3. Attempting
  BY <1>1 DEF Attempting
<1>4. served
  BY <1>1, <1>3 DEF Activating, WithinInterval
<1>5. (job.healthy => mirrored) /\ (job.synced => models = "listed")
  BY DEF Activating, NotedIsStored
<1>6. /\ next \in Job /\ next.stage = "record" /\ next.wait = 0
      /\ next.attempt = job.attempt /\ next.status = "healthy"
  BY <1>2 DEF Job, Stages
<1>7. (next.healthy => mirrored') /\ (next.synced => models' = "listed")
  BY <1>1, <1>2, <1>5 DEF Job
<1> HIDE DEF next
<1> QED BY <1>1, <1>3, <1>4, <1>6, <1>7, TaskStep

LEMMA RecordActivates ==
  ASSUME Activating, Untroubled, Activation!RecordHealth
  PROVE  Activating'
<1> DEFINE next == [job EXCEPT !.stage = "list", !.status = "none", !.healthy = TRUE]
<1>1. /\ job.stage = "record" /\ UNCHANGED <<until, served, provider, models>>
      /\ mirrored' = TRUE
  BY DEF Activation!RecordHealth, Activation!At, Activation!Stored, Activation!Surroundings
<1>2. job \in Job /\ job.wait = 0 /\ job.status = "healthy"
  BY <1>1 DEF Activating, ActivationTypes, Job
<1>3. job' = next
  <2>1. job' = [job EXCEPT !.stage = "list", !.status = "none",
                           !.healthy = (job.status = "healthy")]
    BY DEF Activation!RecordHealth, Activation!Become
  <2>2. (job.status = "healthy") = TRUE
    BY <1>2
  <2> QED BY <2>1, <2>2, Zenon
<1>4. Attempting
  BY <1>1 DEF Attempting
<1>5. served
  BY <1>1, <1>4 DEF Activating, WithinInterval
<1>6. job.synced => models = "listed"
  BY DEF Activating, NotedIsStored
<1>7. /\ next \in Job /\ next.stage = "list" /\ next.wait = 0
      /\ next.attempt = job.attempt
  BY <1>2 DEF Job, Stages
<1>8. next.healthy /\ (next.synced => models' = "listed") /\ mirrored'
  BY <1>1, <1>2, <1>6 DEF Job
<1> HIDE DEF next
<1> QED BY <1>1, <1>3, <1>4, <1>5, <1>7, <1>8, TaskStep

LEMMA ListActivates ==
  ASSUME Activating, Untroubled, Activation!ListModels
  PROVE  Activating'
<1>1. /\ job.stage = "list" /\ UNCHANGED <<until, served, provider, mirrored, models>>
      /\ job' = [job EXCEPT !.stage = IF served /\ ~job.synced THEN "models" ELSE "end"]
  BY DEF Activation!ListModels, Activation!At, Activation!Become, Activation!Unstored,
         Activation!observed, Activation!Surroundings
<1>2. job \in Job /\ job.wait = 0 /\ served \in BOOLEAN
  BY <1>1 DEF Activating, ActivationTypes, Job
<1>3. Attempting
  BY <1>1 DEF Attempting
<1>4. /\ (job.healthy => mirrored) /\ (job.synced => models = "listed")
      /\ ~served => ~job.synced /\ ~job.healthy
      /\ served /\ job.attempt = 8 => job.healthy
  BY <1>1, <1>3 DEF Activating, NotedIsStored, WithinInterval, OneMoreAttempt, Succeeding
<1>5. ASSUME NEW s \in {"models", "end"}, s = "models" <=> served /\ ~job.synced,
             job' = [job EXCEPT !.stage = s]
      PROVE  Activating'
  <2> DEFINE next == [job EXCEPT !.stage = s]
  <2>1. /\ next \in Job /\ next.stage = s /\ next.wait = 0
        /\ next.attempt = job.attempt
    BY <1>2 DEF Job, Stages
  <2>2. (next.healthy <=> job.healthy) /\ (next.synced <=> job.synced)
    BY <1>2 DEF Job
  <2>3. job' = next
    BY <1>5
  <2> HIDE DEF next
  <2> QED BY <1>1, <1>2, <1>3, <1>4, <1>5, <2>1, <2>2, <2>3, TaskStep
<1> QED BY <1>1, <1>5

LEMMA ModelsActivates ==
  ASSUME Activating, Untroubled, Activation!ModelsAnswer
  PROVE  Activating'
<1> DEFINE next == [job EXCEPT !.stage = "cache"]
<1>1. /\ job.stage = "models" /\ UNCHANGED <<until, served, provider, mirrored, models>>
      /\ job' = next
  BY DEF Activation!ModelsAnswer, Activation!At, Activation!Become, Activation!Unstored,
         Activation!observed, Activation!Surroundings, Untroubled
<1>2. job \in Job /\ job.wait = 0
  BY <1>1 DEF Activating, ActivationTypes, Job
<1>3. Attempting
  BY <1>1 DEF Attempting
<1>4. served
  BY <1>1, <1>3 DEF Activating, WithinInterval
<1>5. /\ (job.healthy => mirrored) /\ (job.synced => models = "listed")
      /\ job.attempt = 8 => job.healthy
  BY <1>1, <1>3, <1>4 DEF Activating, NotedIsStored, OneMoreAttempt, Succeeding
<1>6. /\ next \in Job /\ next.stage = "cache" /\ next.wait = 0
      /\ next.attempt = job.attempt
  BY <1>2 DEF Job, Stages
<1>7. (next.healthy <=> job.healthy) /\ (next.synced <=> job.synced)
  BY <1>2 DEF Job
<1> HIDE DEF next
<1> QED BY <1>1, <1>3, <1>4, <1>5, <1>6, <1>7, TaskStep

LEMMA CacheActivates ==
  ASSUME Activating, Untroubled, Activation!Cache
  PROVE  Activating'
<1> DEFINE next == [job EXCEPT !.stage = "end", !.synced = TRUE]
<1>1. job.stage = "cache"
  BY DEF Activation!Cache, Activation!At
<1>2. Attempting
  BY <1>1 DEF Attempting
<1>3. job \in Job /\ job.wait = 0 /\ provider = "enabled"
  BY <1>1 DEF Activating, ActivationTypes, Job
<1>4. /\ UNCHANGED <<until, served, provider, mirrored>> /\ models' = "listed"
      /\ job' = next
  BY <1>3 DEF Activation!Cache, Activation!Become, Activation!Unstored, Activation!CacheModels,
              Activation!observed, Activation!Surroundings, Activation!Live, Untroubled
<1>5. served
  BY <1>1, <1>2 DEF Activating, WithinInterval
<1>6. (job.healthy => mirrored) /\ (job.attempt = 8 => job.healthy)
  BY <1>1, <1>2, <1>5 DEF Activating, NotedIsStored, OneMoreAttempt, Succeeding
<1>7. /\ next \in Job /\ next.stage = "end" /\ next.wait = 0
      /\ next.attempt = job.attempt
  BY <1>3 DEF Job, Stages
<1>8. (next.healthy <=> job.healthy) /\ next.synced
  BY <1>3 DEF Job
<1> HIDE DEF next
<1> QED BY <1>2, <1>4, <1>5, <1>6, <1>7, <1>8, TaskStep

LEMMA WakeActivates ==
  ASSUME Activating, Untroubled, Activation!Wake
  PROVE  Activating'
<1> DEFINE next == [job EXCEPT !.stage = "check"]
<1>1. /\ job.stage = "sleep" /\ job.wait = 0
      /\ UNCHANGED <<until, served, provider, mirrored, models>> /\ job' = next
  BY DEF Activation!Wake, Activation!At, Activation!Become, Activation!Unstored,
         Activation!observed, Activation!Surroundings
<1>2. job \in Job /\ served \in BOOLEAN
  BY DEF Activating, ActivationTypes
<1>3. Attempting
  BY <1>1 DEF Attempting
<1>4. /\ (job.healthy => mirrored) /\ (job.synced => models = "listed")
      /\ ~served => ~job.healthy /\ ~job.synced
  BY <1>3 DEF Activating, NotedIsStored, WithinInterval
<1>5. /\ next \in Job /\ next.stage = "check" /\ next.wait = 0
      /\ next.attempt = job.attempt
  BY <1>1, <1>2 DEF Job, Stages
<1>6. (next.healthy <=> job.healthy) /\ (next.synced <=> job.synced)
  BY <1>2 DEF Job
<1> HIDE DEF next
<1> QED BY <1>1, <1>3, <1>4, <1>5, <1>6, TaskStep

(* An attempt that did not complete is followed by another: it was the     *)
(* eighth at the latest, or the service was known when it began.           *)
LEMMA EndActivates ==
  ASSUME Activating, Untroubled, Activation!EndAttempt
  PROVE  Activating'
<1>1. job.stage = "end" /\ UNCHANGED <<until, served, provider, mirrored, models>>
  BY DEF Activation!EndAttempt, Activation!At, Activation!Unstored,
         Activation!observed, Activation!Surroundings
<1>2. Attempting
  BY <1>1 DEF Attempting
<1>3. /\ job \in Job /\ job.wait = 0 /\ served \in BOOLEAN /\ provider = "enabled"
      /\ until \in Nat /\ until <= 20
  BY <1>1 DEF Activating, ActivationTypes, Job
<1>4. job.attempt \in Nat /\ job.healthy \in BOOLEAN /\ job.synced \in BOOLEAN
  BY <1>3 DEF Job
<1>5. /\ (job.healthy => mirrored) /\ (job.synced => models = "listed")
      /\ ~served => until + 3 * job.attempt <= 20 + job.wait /\ ~job.healthy /\ ~job.synced
      /\ served => job.attempt <= 7 \/ (job.attempt = 8 /\ job.healthy /\ job.synced)
  BY <1>1, <1>2 DEF Activating, NotedIsStored, WithinInterval, OneMoreAttempt, Succeeding
<1>6. CASE job.healthy /\ job.synced
  <2> DEFINE next == [stage |-> "complete", attempt |-> 0, wait |-> 0, status |-> "none",
                      healthy |-> FALSE, synced |-> FALSE]
  <2>1. job' = next
    BY <1>6 DEF Activation!EndAttempt, Activation!Become, Activation!NoJob
  <2>2. next \in Job /\ next.stage = "complete" /\ next.wait = 0
        /\ ~next.healthy /\ ~next.synced
    BY DEF Job, Stages
  <2> HIDE DEF next
  <2> QED BY <1>1, <1>3, <1>5, <1>6, <2>1, <2>2
         DEF Activating, ActivationTypes, NotedIsStored, WithinInterval, OneMoreAttempt,
             Attempting
<1>7. CASE ~(job.healthy /\ job.synced)
  <2> DEFINE k == job.attempt + 1
             next == [job EXCEPT !.stage = "sleep", !.attempt = k, !.wait = 3]
  <2>1. k \in Nat /\ k <= 8
    BY <1>3, <1>4, <1>5, <1>7
  <2>2. job.attempt + 1 # 12
    BY <2>1
  <2>3. job' = next
    BY <1>7, <2>2
       DEF Activation!EndAttempt, Activation!Become, Activation!Attempts, Activation!Pause
  <2>4. ~served => until + 3 * k <= 23
    BY <1>3, <1>4, <1>5
  <2> HIDE DEF k
  <2>5. next \in Job /\ next.stage = "sleep" /\ next.attempt = k /\ next.wait = 3
    BY <1>3, <2>1 DEF Job, Stages
  <2>6. (next.healthy <=> job.healthy) /\ (next.synced <=> job.synced)
    BY <1>3 DEF Job
  <2> HIDE DEF next
  <2>7. ActivationTypes'
    BY <1>1, <1>3, <2>3, <2>5 DEF ActivationTypes
  <2>8. NotedIsStored'
    BY <1>1, <1>5, <2>3, <2>5, <2>6 DEF NotedIsStored
  <2>9. WithinInterval'
    BY <1>1, <1>5, <2>3, <2>4, <2>5, <2>6 DEF WithinInterval
  <2>10. OneMoreAttempt'
    BY <2>1, <2>3, <2>5 DEF OneMoreAttempt, Succeeding
  <2> QED BY <1>1, <1>3, <2>7, <2>8, <2>9, <2>10 DEF Activating
<1> QED BY <1>6, <1>7

LEMMA PassActivates ==
  ASSUME Activating, Untroubled, Activation!Pass
  PROVE  Activating'
<1>1. /\ UNCHANGED <<served, provider, mirrored, models>>
      /\ until > 0 /\ until' = until - 1
      /\ job' = IF job.wait > 0 THEN [job EXCEPT !.wait = @ - 1] ELSE job
      /\ Attempting => job.wait > 0
  BY DEF Activation!Pass, Activation!Working, Activation!Over, Activation!observed,
         Attempting, Untroubled
<1>2. job \in Job /\ until \in Nat /\ until <= 20
  BY DEF Activating, ActivationTypes
<1>3. until' \in Nat /\ until' <= 20
  BY <1>1, <1>2
<1>4. CASE ~Attempting
  <2>1. job.wait = 0
    BY <1>2, <1>4 DEF Activating, ActivationTypes, Attempting, Job
  <2>2. job' = job
    BY <1>1, <2>1
  <2> QED BY <1>1, <1>3, <1>4, <2>2
         DEF Activating, ActivationTypes, NotedIsStored, WithinInterval, OneMoreAttempt,
             Attempting
<1>5. CASE Attempting
  <2> DEFINE w == job.wait - 1
             next == [job EXCEPT !.wait = w]
  <2>1. job.wait \in Nat /\ job.wait > 0 /\ job.wait <= 3 /\ job.stage = "sleep"
    BY <1>1, <1>2, <1>5 DEF Activating, ActivationTypes, Job
  <2>2. w \in Nat /\ w <= 3 /\ job.wait = w + 1
    BY <2>1
  <2>3. job' = next
    BY <1>1, <2>1
  <2> HIDE DEF w
  <2>4. /\ next \in Job /\ next.stage = "sleep" /\ next.wait = w
        /\ next.attempt = job.attempt /\ job.attempt \in Nat
    BY <1>2, <2>1, <2>2 DEF Job
  <2>5. (next.healthy <=> job.healthy) /\ (next.synced <=> job.synced)
    BY <1>2 DEF Job
  <2> HIDE DEF next
  <2>6. ActivationTypes'
    BY <1>1, <1>3, <1>5, <2>2, <2>3, <2>4 DEF Activating, ActivationTypes, Attempting
  <2>7. NotedIsStored'
    BY <1>1, <2>3, <2>4, <2>5 DEF Activating, NotedIsStored
  <2>8. WithinInterval'
    BY <1>1, <1>2, <1>5, <2>2, <2>3, <2>4, <2>5 DEF Activating, WithinInterval
  <2>9. OneMoreAttempt'
    BY <1>1, <1>5, <2>3, <2>4 DEF Activating, OneMoreAttempt, Succeeding
  <2> QED BY <1>3, <2>6, <2>7, <2>8, <2>9 DEF Activating
<1> QED BY <1>4, <1>5

LEMMA ActivationNext ==
  ASSUME ActivationInv, [Activation!Next]_activationVars
  PROVE  ActivationInv'
<1>1. CASE UNCHANGED activationVars
  BY <1>1
     DEF activationVars, ActivationInv, Untroubled, Activating, ActivationTypes,
         NotedIsStored, WithinInterval, OneMoreAttempt, Attempting, Succeeding
<1>2. CASE Activation!Next
  <2>1. troubles' \in Nat
    <3>1. troubles' \in {troubles, troubles + 1}
      BY <1>2
         DEF Activation!Next, Activation!CreateProvider, Activation!ChangeProvider,
             Activation!UpstreamChanges, Activation!Reconcile, Activation!Pass,
             Activation!CheckHealth, Activation!HealthAnswers, Activation!RecordHealth,
             Activation!ListModels, Activation!ModelsAnswer, Activation!Cache,
             Activation!StatementFails, Activation!EndAttempt, Activation!Wake,
             Activation!Restart, Activation!AskAgain, Activation!StoreAgain,
             Activation!AskedInVain, Activation!Trouble
    <3> QED BY <3>1 DEF ActivationInv
  <2>2. ASSUME Untroubled' PROVE Activating'
    <3>1. Untroubled /\ UNCHANGED troubles /\ Activating
      BY <1>2, <2>2, TroublesAreCounted DEF ActivationInv
    <3>2. ~Activation!Trouble
      BY <3>1 DEF Activation!Trouble, ActivationInv
    <3>3. /\ ~Activation!ChangeProvider /\ ~Activation!UpstreamChanges
          /\ ~Activation!StatementFails /\ ~Activation!Restart
      BY <3>2
         DEF Activation!ChangeProvider, Activation!UpstreamChanges,
             Activation!StatementFails, Activation!Restart
    <3> QED BY <1>2, <3>1, <3>3, OthersActivate, CreateActivates, TickActivates,
               PassActivates, CheckActivates, HealthActivates, RecordActivates,
               ListActivates, ModelsActivates, CacheActivates, EndActivates, WakeActivates
            DEF Activation!Next
  <2> QED BY <2>1, <2>2 DEF ActivationInv
<1> QED BY <1>1, <1>2

LEMMA ActivationMove ==
  ASSUME ActivationInv, [Move]_allVars
  PROVE  ActivationInv'
<1>1. [Activation!Next]_activationVars
  BY DEF Move, Build, allVars
<1> QED BY <1>1, ActivationNext

(* The task's attempts against the interval: before the service knows the  *)
(* provider there is time for eight, and the one after that completes.     *)
THEOREM ActivationInvariant == Administration => []ActivationInv
<1>1. Start => ActivationInv
  BY ActivationInit DEF Start
<1>2. ActivationInv /\ [Move]_allVars => ActivationInv'
  BY ActivationMove
<1> QED BY <1>1, <1>2, PTL DEF Administration

(* Wherever in its interval the rebuild is, and whoever else asks for the  *)
(* provider's health and models meanwhile: the task ends with the provider *)
(* mirrored, healthy and its models stored, unless something failed or was *)
(* changed (activate_provider, gateway-server admin.rs).                   *)
THEOREM ActivationCompletesHolds == Administration => []ActivationCompletes
<1>1. ActivationInv => ActivationCompletes
  BY DEF ActivationInv, Untroubled, Activating, NotedIsStored, ActivationCompletes,
         Activation!ActivationCompletes
<1> QED BY <1>1, ActivationInvariant, PTL

=============================================================================
