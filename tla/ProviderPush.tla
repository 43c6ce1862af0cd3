---------------------------- MODULE ProviderPush ----------------------------
(***************************************************************************)
(* push and compare of crates/env-provider/src/provider_push/engine.rs     *)
(* with their providers.  A push is prepared (the tool is found, who is    *)
(* logged in is checked), then reads the selected values from the env      *)
(* file, then sends them: one call of a tool or SDK per key, or one call   *)
(* for all of them.  A call that fails leaves its key in failed_keys and   *)
(* the push goes on.  The desktop records a receipt of a push that         *)
(* returned (src-tauri/src/commands/providers.rs).  The env file, the      *)
(* destination and the login of the tool may change at any moment.         *)
(* Destinations are named by account; a push is meant for "mine".          *)
(***************************************************************************)
EXTENDS Naturals, Sequences, FiniteSets, Functions

CONSTANTS
  Key,
  Value,
  Provider,     \* the providers of this instance
  MaxKeys,      \* the most keys a call may select (100 in the code)
  MaxChanges,   \* bound on the changes made by others
  Empty, Absent

PushAssumption ==
  /\ Provider \subseteq {"github", "cloudflare", "eas", "secrets", "ssm", "personal", "runtime"}
  /\ MaxKeys \in Nat /\ MaxChanges \in Nat
  /\ {Empty, Absent} \cap Value = {}

VARIABLES
  local,      \* the env file: local[k], Empty if the key has no value
  remote,     \* remote[a][k]: what account a holds under k
  login,      \* the account that tools with a login of their own talk to now
  call,       \* the call under way and its locals
  receipt,    \* the receipt recorded for this call
  others,     \* what others did since the call began
  changes     \* how many changes others have made

vars == <<local, remote, login, call, receipt, others, changes>>

Account == {"mine", "other"}

Aws == {"secrets", "ssm"}

\* The account is checked where the tool has a login.
Checked == {"cloudflare", "eas"}

\* The keys of a request in order, those of a kind the provider does not take, those too long for it.
Selection ==
  { s \in [keys : UNION { [1..n -> Key] : n \in 0..MaxKeys }, odd : SUBSET Key, long : SUBSET Key] :
      /\ s.odd \cup s.long \subseteq Range(s.keys)
      /\ Cardinality(s.odd) + Cardinality(s.long) <= 1
      /\ ~IsInjective(s.keys) => s.odd \cup s.long = {} }

\* pinned: a configuration file or an id in the request says which account is meant, a mere name does
\* not (project_matches ignores the owner).
Request(op, provider, pinned, s) ==
  [op |-> op, provider |-> provider, pinned |-> pinned,
   keys |-> s.keys, odd |-> s.odd, long |-> s.long]

CanAsk(op, provider, pinned, s) ==
  /\ pinned \/ (op = "push" /\ provider \in Checked)
  /\ op = "compare" => s.odd = {}

NoCall == [pc |-> "idle"]

\* What a call has of its keys before it has anything.
Nothing == [k \in {} |-> Absent]

Begun(req) ==
  [pc |-> IF req.op = "push" THEN "prepare" ELSE "read", req |-> req,
   values |-> Nothing, at |-> 1, failed |-> {}, acked |-> Nothing, items |-> Nothing, lost |-> FALSE]

Untouched == [keys |-> {}, edited |-> FALSE, switched |-> FALSE]

NoReceipt == [succeeded |-> {}, failed |-> {}]

Init ==
  /\ local \in [Key -> Value \cup {Empty}]
  /\ \E v \in Value \cup {Absent} :
       remote = [a \in Account |-> [k \in Key |-> IF a = "mine" THEN v ELSE Absent]]
  /\ login \in Account
  /\ call = NoCall
  /\ receipt = NoReceipt
  /\ others = Untouched
  /\ changes = 0

At(pc) == call.pc = pc
Req == call.req
Becomes(pc) == call' = [call EXCEPT !.pc = pc]
Error == Becomes("error")

Invoke(req) ==
  /\ call' = Begun(req)
  /\ others' = Untouched
  /\ UNCHANGED <<local, remote, login, receipt, changes>>

Return ==
  /\ At("ok") \/ At("error")
  /\ call' = NoCall
  /\ receipt' = NoReceipt
  /\ others' = Untouched
  /\ UNCHANGED <<local, remote, login, changes>>

----------------------------------------------------------------------------
\* Before anything is read.

\* Mutants: the project of EAS is not compared, or its selections are not validated.
ChecksLessOfEas ==
  /\ Req.provider = "cloudflare" /\ Req.pinned => login = "mine"
  /\ Req.provider = "eas" => Req.odd = {} /\ Req.long = {}
  /\ Req.provider \in Aws => Req.odd = {}

SkipsEasSelections ==
  /\ Req.provider \in Checked /\ Req.pinned => login = "mine"
  /\ Req.provider \in Aws => Req.odd = {}

\* EAS and AWS look at the selections first; EAS compares the project of the login with the one that
\* is named, Cloudflare the account with that of the nearest configuration.
PreparePasses ==
  /\ Req.provider \in Checked /\ Req.pinned => login = "mine"
  /\ Req.provider = "eas" => Req.odd = {} /\ Req.long = {}
  /\ Req.provider \in Aws => Req.odd = {}

Prepare ==
  /\ At("prepare")
  /\ Req.provider # "runtime"
  /\ PreparePasses
  /\ Becomes("read")
  /\ others' = [others EXCEPT !.switched = FALSE]
  /\ UNCHANGED <<local, remote, login, receipt, changes>>

\* The provider is unknown, its tool missing or too old, nobody is logged in, a check fails.
PrepareFails ==
  /\ At("prepare")
  /\ Error
  /\ UNCHANGED <<local, remote, login, receipt, others, changes>>

Readable == Req.keys # << >> /\ IsInjective(Req.keys)

Read ==
  /\ At("read")
  /\ Readable
  /\ \A k \in Range(Req.keys) : local[k] # Empty
  /\ call' = [call EXCEPT !.pc = "begin", !.values = Restrict(local, Range(Req.keys))]
  /\ UNCHANGED <<local, remote, login, receipt, others, changes>>

\* No key or one twice, a key without a value, or a file that is not managed or cannot be read.
ReadFails ==
  /\ At("read")
  /\ Error
  /\ UNCHANGED <<local, remote, login, receipt, others, changes>>

\* Cloudflare and personal packs look at the kinds only now.
BeginPush ==
  /\ At("begin") /\ Req.op = "push"
  /\ Req.provider \in {"cloudflare", "personal"} => Req.odd = {}
  /\ Becomes(IF Req.provider = "cloudflare" THEN "bulk" ELSE "send")
  /\ UNCHANGED <<local, remote, login, receipt, others, changes>>

\* A kind that is not taken, a destination that is not well formed.
BeginFails ==
  /\ At("begin") /\ Req.op = "push"
  /\ Error
  /\ UNCHANGED <<local, remote, login, receipt, others, changes>>

----------------------------------------------------------------------------
\* Sending.

Current == Req.keys[call.at]

\* The account that a provider's call reaches: the request or the prepared configuration names it, or
\* the login of the tool decides.
Place == IF Req.provider \in {"cloudflare", "eas", "personal"} THEN login ELSE "mine"

Stored(keys) ==
  [remote EXCEPT ![Place] = [k \in Key |-> IF k \in keys THEN call.values[k] ELSE @[k]]]

\* The loop goes on behind the current key.
Success == [call EXCEPT !.pc = "send", !.at = @ + 1,
                        !.acked = [k \in DOMAIN @ \cup {Current} |->
                                     IF k = Current THEN Place ELSE @[k]]]
Failure == [call EXCEPT !.pc = "send", !.at = @ + 1, !.failed = @ \cup {Current}]

Sending == At("send") /\ call.at <= Len(Req.keys)

\* GitHub looks at a kind when it comes to it, AWS and personal packs at the length of a name.
Refused ==
  \/ Req.provider = "github" /\ Current \in Req.odd
  \/ Req.provider \in Aws \cup {"personal"} /\ Current \in Req.long
  \/ Req.provider = "eas" /\ Current \in Req.odd \cup Req.long

LoopEndsEarly ==
  /\ Sending
  /\ Refused
  /\ Error
  /\ UNCHANGED <<local, remote, login, receipt, others, changes>>

\* gh, eas, a personal pack, or put_parameter: one call stores the value.
SendOne ==
  /\ Sending /\ ~Refused
  /\ Req.provider # "secrets"
  /\ remote' = Stored({Current})
  /\ call' = Success
  /\ UNCHANGED <<local, login, receipt, others, changes>>

\* Mutant: the loop stops at the first key that fails.
RunFailsAndStops ==
  /\ Sending /\ ~Refused
  /\ Req.provider \in {"github", "personal", "ssm"}
  /\ remote' \in {remote, Stored({Current})}
  /\ call' = [call EXCEPT !.at = Len(Req.keys) + 1, !.failed = @ \cup {Current}]
  /\ UNCHANGED <<local, login, receipt, others, changes>>

\* The tool cannot be run, does not take its input or reports a failure, or the service refuses: the
\* value may have been stored all the same.
RunFails ==
  /\ Sending /\ ~Refused
  /\ Req.provider \in {"github", "personal", "ssm"}
  /\ remote' \in {remote, Stored({Current})}
  /\ call' = Failure
  /\ UNCHANGED <<local, login, receipt, others, changes>>

\* eas never asks for the value, within 30 seconds or at all, or does not take it, and is killed.
PromptFails ==
  /\ Sending /\ ~Refused
  /\ Req.provider = "eas"
  /\ call' = Failure
  /\ UNCHANGED <<local, remote, login, receipt, others, changes>>

\* eas has the value, and reports a failure or is killed after 90 seconds.
CompletionFails ==
  /\ Sending /\ ~Refused
  /\ Req.provider = "eas"
  /\ remote' \in {remote, Stored({Current})}
  /\ call' = Failure
  /\ UNCHANGED <<local, login, receipt, others, changes>>

\* push_secret asks first whether the secret exists.
Describe ==
  /\ Sending /\ ~Refused
  /\ Req.provider = "secrets"
  /\ Becomes(IF remote["mine"][Current] = Absent THEN "create" ELSE "overwrite")
  /\ UNCHANGED <<local, remote, login, receipt, others, changes>>

DescribeFails ==
  /\ Sending /\ ~Refused
  /\ Req.provider = "secrets"
  /\ call' = Failure
  /\ UNCHANGED <<local, remote, login, receipt, others, changes>>

\* create_secret works on what is absent, put_secret_value and update_secret on what is there.
Fits == At("create") <=> remote["mine"][Current] = Absent

Store ==
  /\ At("create") \/ At("overwrite")
  /\ Fits
  /\ remote' = Stored({Current})
  /\ call' = Success
  /\ UNCHANGED <<local, login, receipt, others, changes>>

StoreFails ==
  /\ At("create") \/ At("overwrite")
  /\ remote' = remote \/ (Fits /\ remote' = Stored({Current}))
  /\ call' = Failure
  /\ UNCHANGED <<local, login, receipt, others, changes>>

\* wrangler secret bulk takes all values at once.
Bulk ==
  /\ At("bulk")
  /\ remote' = Stored(Range(Req.keys))
  /\ call' = [call EXCEPT !.pc = "sent", !.acked = [k \in Range(Req.keys) |-> Place]]
  /\ UNCHANGED <<local, login, receipt, others, changes>>

\* It reports a failure; any of them may have been stored.
BulkFails ==
  /\ At("bulk")
  /\ \E stored \in SUBSET Range(Req.keys) : remote' = Stored(stored)
  /\ Error
  /\ UNCHANGED <<local, login, receipt, others, changes>>

LoopEnds ==
  /\ At("send") /\ call.at > Len(Req.keys)
  /\ Becomes("sent")
  /\ UNCHANGED <<local, remote, login, receipt, others, changes>>

\* The receipt of the desktop: all selected keys succeeded but those that failed.
Record ==
  /\ At("sent")
  /\ receipt' = [succeeded |-> Range(Req.keys) \ call.failed, failed |-> call.failed]
  /\ Becomes("ok")
  /\ UNCHANGED <<local, remote, login, others, changes>>

\* The registry cannot be written: the command reports an error, though the values are sent.
RecordFails ==
  /\ At("sent")
  /\ call' = [call EXCEPT !.pc = "error", !.lost = TRUE]
  /\ UNCHANGED <<local, remote, login, receipt, others, changes>>

----------------------------------------------------------------------------
\* Comparing.

Unreadable == {"github", "cloudflare", "eas"}

\* The answer for stores that cannot be read, after the local values were; packs cannot compare.
BeginCompare ==
  /\ At("begin") /\ Req.op = "compare"
  /\ \/ /\ Req.provider \in Unreadable
        /\ call' = [call EXCEPT !.pc = "ok", !.items = [k \in Range(Req.keys) |-> "unverifiable"]]
     \/ Req.provider = "personal" /\ Error
     \/ Req.provider \in Aws /\ Becomes("look")
     \/ Req.provider = "runtime" /\ Becomes("verify")
  /\ UNCHANGED <<local, remote, login, receipt, others, changes>>

Compared(k) ==
  IF remote["mine"][k] = Absent THEN "unset"
  ELSE IF remote["mine"][k] = call.values[k] THEN "same" ELSE "different"

\* One answer more.
Answer(state) ==
  call' = [call EXCEPT !.at = @ + 1,
                       !.items = [k \in DOMAIN @ \cup {Current} |->
                                    IF k = Current THEN state ELSE @[k]]]

Looking == At("look") /\ call.at <= Len(Req.keys)

\* No region, no identity, or a name that is too long.
CompareFails ==
  /\ At("look")
  /\ call.at = 1 \/ (Looking /\ Current \in Req.long)
  /\ Error
  /\ UNCHANGED <<local, remote, login, receipt, others, changes>>

Look ==
  /\ Looking /\ Current \notin Req.long
  /\ Answer(Compared(Current))
  /\ UNCHANGED <<local, remote, login, receipt, others, changes>>

\* Mutant: a value that cannot be read counts as not set.
LookFailsAsUnset ==
  /\ Looking /\ Current \notin Req.long
  /\ Answer("unset")
  /\ UNCHANGED <<local, remote, login, receipt, others, changes>>

LookFails ==
  /\ Looking /\ Current \notin Req.long
  /\ Answer("error")
  /\ UNCHANGED <<local, remote, login, receipt, others, changes>>

LookEnds ==
  /\ At("look") /\ call.at > Len(Req.keys)
  /\ Becomes("ok")
  /\ UNCHANGED <<local, remote, login, receipt, others, changes>>

\* The verifier on the server answers for all keys at once (see RemoteVerifier), with an error for
\* those it cannot read.
Verify ==
  /\ At("verify")
  /\ \E unread \in SUBSET Range(Req.keys) :
       call' = [call EXCEPT !.pc = "ok",
                  !.items = [k \in Range(Req.keys) |->
                               IF k \in unread THEN "error" ELSE Compared(k)]]
  /\ UNCHANGED <<local, remote, login, receipt, others, changes>>

\* No such target, ssh fails or takes too long, or the answer does not fit the question.
VerifyFails ==
  /\ At("verify")
  /\ Error
  /\ UNCHANGED <<local, remote, login, receipt, others, changes>>

----------------------------------------------------------------------------
\* What others do: a user or another process of this program.

Changed == changes < MaxChanges /\ changes' = changes + 1

Edit(k, v) ==
  /\ Changed
  /\ local' = [local EXCEPT ![k] = v]
  /\ others' = [others EXCEPT !.edited = TRUE]
  /\ UNCHANGED <<remote, login, call, receipt>>

WriteRemote(k, v) ==
  /\ Changed
  /\ remote' = [remote EXCEPT !["mine"][k] = v]
  /\ others' = [others EXCEPT !.keys = @ \cup {k}]
  /\ UNCHANGED <<local, login, call, receipt>>

Switch(a) ==
  /\ Changed
  /\ login' = a
  /\ others' = [others EXCEPT !.switched = TRUE]
  /\ UNCHANGED <<local, remote, call, receipt>>

Others ==
  \/ \E k \in Key : \/ \E v \in Value \cup {Empty} : Edit(k, v)
                    \/ \E v \in Value \cup {Absent} : WriteRemote(k, v)
  \/ \E a \in Account : Switch(a)

Push ==
  \/ Prepare \/ PrepareFails \/ BeginPush \/ BeginFails \/ LoopEndsEarly
  \/ SendOne \/ RunFails \/ PromptFails \/ CompletionFails
  \/ Describe \/ DescribeFails \/ Store \/ StoreFails \/ Bulk \/ BulkFails
  \/ LoopEnds \/ Record \/ RecordFails

Compare ==
  \/ BeginCompare \/ CompareFails \/ Look \/ LookFails \/ LookEnds \/ Verify \/ VerifyFails

Next ==
  \/ /\ At("idle")
     /\ \E s \in Selection, op \in {"push", "compare"}, provider \in Provider, pinned \in BOOLEAN :
          CanAsk(op, provider, pinned, s) /\ Invoke(Request(op, provider, pinned, s))
  \/ Read \/ ReadFails \/ Push \/ Compare \/ Return
  \/ Others

Spec == Init /\ [][Next]_vars

----------------------------------------------------------------------------
Returned(op) == At("ok") /\ Req.op = op

\* A receipt lists every selected key, as succeeded exactly those that the provider has acknowledged:
\* unless somebody else has written it since, such a key holds the value this push has read, in the
\* account that acknowledged it (provider_push_receipt and the loops of the providers).
ReceiptIsTrue ==
  Returned("push") =>
    /\ receipt.succeeded = DOMAIN call.acked
    /\ receipt.failed = Range(Req.keys) \ receipt.succeeded
    /\ \A k \in receipt.succeeded \ others.keys : remote[call.acked[k]][k] = call.values[k]

\* A push whose selections the provider takes fails as a whole only when nothing was acknowledged, so
\* that an error without a list of keys loses nothing; a receipt that cannot be written is the one
\* exception.  GitHub refuses kinds, AWS and packs long names, only when they come to them.
ErrorSentNothing ==
  At("error") =>
    \/ call.acked = Nothing
    \/ call.lost
    \/ Req.provider = "github" /\ Req.odd # {}
    \/ Req.provider \in Aws \cup {"personal"} /\ Req.long # {}

\* A step of a call changes a destination only under a selected key, only to the value the call has
\* read, and only in the account that was asked for, unless nothing pins it or the login changed after
\* it was checked; personal packs are not checked.  Nothing is ever deleted.
OnlyWhatWasChosen ==
  [][\A a \in Account, k \in Key :
       remote'[a][k] # remote[a][k] /\ call' # call =>
         /\ Req.op = "push" /\ k \in Range(Req.keys)
         /\ remote'[a][k] = call.values[k]
         /\ a = "mine" \/ others.switched \/ ~Req.pinned \/ Req.provider = "personal"]_vars

\* A comparison answers for every selected key; an answer other than "error" and "unverifiable" is
\* right if nobody has changed the file or that key meanwhile.
ComparisonIsTrue ==
  Returned("compare") =>
    /\ DOMAIN call.items = Range(Req.keys)
    /\ \A k \in Range(Req.keys) :
         \/ call.items[k] = "error" /\ Req.provider \notin Unreadable
         \/ call.items[k] = "unverifiable" /\ Req.provider \in Unreadable
         \/ others.edited \/ k \in others.keys
         \/ call.items[k] = IF remote["mine"][k] = Absent THEN "unset"
                            ELSE IF remote["mine"][k] = local[k] THEN "same" ELSE "different"

----------------------------------------------------------------------------
States == {"unset", "same", "different", "error", "unverifiable"}

\* Functions on some of the keys.
Partial(S) == UNION { [K -> S] : K \in SUBSET Key }

CallRecord ==
  [pc : {"prepare", "read", "begin", "send", "create", "overwrite", "bulk", "sent", "look", "verify",
         "ok", "error"},
   req : [op : {"push", "compare"}, provider : Provider, pinned : BOOLEAN, keys : Seq(Key),
          odd : SUBSET Key, long : SUBSET Key],
   values : Partial(Value \cup {Empty}), at : Nat, failed : SUBSET Key, acked : Partial(Account),
   items : Partial(States), lost : BOOLEAN]

\* The type invariant.
TypeOK ==
  /\ local \in [Key -> Value \cup {Empty}]
  /\ remote \in [Account -> [Key -> Value \cup {Absent}]]
  /\ login \in Account
  /\ call \in {NoCall} \cup CallRecord
  /\ receipt \in [succeeded : SUBSET Key, failed : SUBSET Key]
  /\ others \in [keys : SUBSET Key, edited : BOOLEAN, switched : BOOLEAN]
  /\ changes \in Nat

\* A push past its checks is where it is meant to be, or the login has changed since; and the keys of
\* one to EAS are of kinds and lengths that EAS takes.
ChecksHold ==
  ~At("idle") /\ ~At("prepare") /\ ~At("error") /\ Req.op = "push" =>
    /\ Req.provider \in Checked /\ Req.pinned => login = "mine" \/ others.switched
    /\ Req.provider = "eas" => Req.odd = {} /\ Req.long = {}

\* What was read has no key twice, a value for each, and is what the file still says.
ValuesHold ==
  call.pc \notin {"idle", "prepare", "read", "error"} =>
    /\ IsInjective(Req.keys)
    /\ call.values \in [Range(Req.keys) -> Value]
    /\ \A k \in Range(Req.keys) : others.edited \/ call.values[k] = local[k]

\* No key was sent or answered before the call comes to sending or comparing.
NothingDone ==
  /\ call.pc \in {"prepare", "read", "begin", "bulk", "look", "verify"} =>
       call.acked = Nothing /\ call.failed = {}
  /\ call.pc \in {"prepare", "read", "begin"} => call.at = 1 /\ call.items = Nothing

\* The keys a loop has been through.
Handled == { Req.keys[i] : i \in 1..(call.at - 1) }

\* Of these, and of all in the end, each was acknowledged, failed or answered.
Accounted(keys) == DOMAIN call.acked = keys \ call.failed /\ call.failed \subseteq keys
LoopsAccount ==
  /\ call.pc \in {"prepare", "send", "create", "overwrite", "bulk", "sent"} => Req.op = "push"
  /\ call.pc \in {"look", "verify"} => Req.op = "compare" /\ Req.provider \notin Unreadable
  /\ call.pc \in {"send", "create", "overwrite", "look"} => call.at \in 1..(Len(Req.keys) + 1)
  /\ call.pc \in {"create", "overwrite"} => call.at <= Len(Req.keys)
  /\ call.pc \in {"send", "create", "overwrite"} => Accounted(Handled)
  /\ At("sent") => Accounted(Range(Req.keys))
  /\ At("look") => DOMAIN call.items = Handled

\* What was acknowledged is there, unless somebody else has written it since.
AckedIsStored ==
  ~At("idle") =>
    /\ DOMAIN call.acked \subseteq Range(Req.keys)
    /\ \A k \in DOMAIN call.acked \ others.keys : remote[call.acked[k]][k] = call.values[k]

\* What was looked at is so, unless somebody else has written it since.
LookedIsTrue ==
  At("look") =>
    \A k \in DOMAIN call.items : call.items[k] = "error" \/ k \in others.keys \/ call.items[k] = Compared(k)

\* The inductive invariant behind the four properties.
PushInv ==
  /\ TypeOK
  /\ ChecksHold /\ ValuesHold /\ NothingDone /\ LoopsAccount /\ AckedIsStored /\ LookedIsTrue
  /\ ReceiptIsTrue /\ ErrorSentNothing /\ ComparisonIsTrue
=============================================================================
