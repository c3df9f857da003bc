---------------------------- MODULE AdminClient ----------------------------
(***************************************************************************)
(* The client SDK's admin entry: one request with its time limit, what its *)
(* caller is told, and the receipts a server signs.                        *)
(* packages/client-sdk/admin/index.mjs.                                    *)
(*                                                                         *)
(* External, from how the client uses it: the server applies an order or   *)
(* refuses it, and answers with a status and a body, the error envelope    *)
(* {error: {code, message}} or something else.                             *)
(***************************************************************************)
EXTENDS Naturals, Sequences

CONSTANTS Ids,        \* identifiers of 32 bytes, each written in either case
          Stamps,     \* times and generations
          Characters, \* values of base64url characters tried in a signature
          MaxCalls

VARIABLES
  call,    \* the request under way, or how the last one ended
  applied, \* orders the server has applied
  given,   \* a receipt with its signature, as it came
  calls

adminVars == <<call, applied, given, calls>>

(***************************************************************************)
(* A receipt's canonical form: the domain, the operation's byte, and the   *)
(* fields at fixed places; the target is the field the operation is about. *)
(***************************************************************************)
Operations == {"register", "unregister", "disconnect", "renew", "visitor-grant", "visitor-revoke",
               "code-issue", "code-revoke", "block-add", "block-remove", "knock-dismiss",
               "knock-undismiss", "owner-meta", "visitor-meta"}
OpByte(op) ==
  CHOOSE i \in 1..14 :
    op = <<"register", "unregister", "disconnect", "renew", "visitor-grant", "visitor-revoke",
           "code-issue", "code-revoke", "block-add", "block-remove", "knock-dismiss",
           "knock-undismiss", "owner-meta", "visitor-meta">>[i]
MutTargetField(op) == IF op \in {"register", "unregister", "renew"} THEN "root" ELSE "endpoint_id"
TargetField(op) ==
  IF op \in {"register", "unregister", "renew", "owner-meta"} THEN "root"
  ELSE IF op \in {"code-issue", "code-revoke"} THEN "code_hash"
  ELSE IF op \in {"block-add", "block-remove"} THEN "id"
  ELSE "endpoint_id"
\* Hexadecimal text is read without regard to case; anything else throws.
Hex == {[id |-> i, upper |-> u] : i \in Ids, u \in BOOLEAN}
Malformed == [id |-> 0, upper |-> FALSE]
Fields == {"root", "endpoint_id", "code_hash", "id"}
Throws == <<>>
receiptCanonical(r) ==
  LET target == r[TargetField(r.op)]
  IN IF r.op \notin Operations \/ Malformed \in {r.fabric_id, target} THEN Throws
     ELSE <<"dweb/admin-receipt/v1", OpByte(r.op), r.fabric_id.id, target.id, r.ts, r.generation>>
registerReceiptCanonical(r) ==
  IF r.op # "register" \/ Malformed \in {r.code_hash, r.fabric_id, r.root} THEN Throws
  ELSE <<"dweb/register-receipt/v1", r.code_hash.id, r.fabric_id.id, r.root.id, r.ts, r.generation>>

(***************************************************************************)
(* fromBase64UrlNoPad, for a signature of one byte (of 64 in the code: two *)
(* characters too, once whole groups of three bytes are taken off): the    *)
(* bits left over must be zero.                                            *)
(***************************************************************************)
Power == [b \in 0..7 |-> <<1, 2, 4, 8, 16, 32, 64, 128>>[b + 1]]
MutLeftover(acc, bits) == TRUE
Leftover(acc, bits) == acc % Power[bits] = 0
FromBase64(s) ==
  LET f[i \in 0..Len(s)] ==
        IF i = 0 THEN [acc |-> 0, bits |-> 0, out |-> <<>>]
        ELSE LET acc == f[i - 1].acc * 64 + s[i]
                 bits == f[i - 1].bits + 6
             IN IF bits >= 8 THEN [acc |-> acc, bits |-> bits - 8,
                                   out |-> Append(f[i - 1].out, (acc \div Power[bits - 8]) % 256)]
                             ELSE [acc |-> acc, bits |-> bits, out |-> f[i - 1].out]
      end == f[Len(s)]
  IN IF Leftover(end.acc, end.bits) THEN [ok |-> TRUE, bytes |-> end.out] ELSE [ok |-> FALSE, bytes |-> <<>>]

\* The injected verifier accepts the one byte the server has made of these
\* very bytes: here, the byte 77.
Signature == <<77>>
verifies(r, sig, canonical) ==
  LET decoded == FromBase64(sig)
  IN canonical # Throws /\ decoded.ok /\ Len(decoded.bytes) = 1 /\ decoded.bytes = Signature

(***************************************************************************)
(* One call.  What is wrong on its face is refused before anything is      *)
(* sent; the probe asks for the status and looks at no body.               *)
(***************************************************************************)
NoCall == [step |-> "idle", probe |-> FALSE, status |-> 0, body |-> "none", code |-> "none", told |-> 0, did |-> FALSE]
NoReceipt == [op |-> "none"]
AdminInit == call = NoCall /\ applied = 0 /\ given = NoReceipt /\ calls = 0

Tell(code, status) == call' = [call EXCEPT !.step = "ended", !.code = code, !.told = status]
requireHex64 ==
  /\ call.step \in {"idle", "ended"} /\ calls < MaxCalls /\ given = NoReceipt
  /\ calls' = calls + 1
  /\ call' = [NoCall EXCEPT !.step = "ended", !.code = "invalid-request"]
  /\ UNCHANGED <<applied, given>>
Send ==
  /\ call.step \in {"idle", "ended"} /\ calls < MaxCalls /\ given = NoReceipt
  /\ calls' = calls + 1
  /\ \E p \in BOOLEAN : call' = [NoCall EXCEPT !.step = "sent", !.probe = p]
  /\ UNCHANGED <<applied, given>>
\* The server (external).
Statuses == {200, 400, 401, 404, 500}
ServerAnswers ==
  /\ call.step = "sent" /\ call.status = 0
  /\ \E s \in Statuses, b \in {"json", "envelope", "other"} :
       /\ b = "envelope" => s # 200
       /\ call' = [call EXCEPT !.status = s, !.body = b, !.did = s = 200 /\ ~call.probe]
       /\ applied' = IF s = 200 /\ ~call.probe THEN applied + 1 ELSE applied
  /\ UNCHANGED <<given, calls>>
\* fetch rejects: the connection fails or the time is up, before or after
\* the server has done its part.
transportError ==
  /\ call.step = "sent"
  /\ \E code \in {"network", "timeout"} : Tell(code, 0)
  /\ UNCHANGED <<applied, given, calls>>
Answered ==
  /\ call.step = "sent" /\ call.status # 0
  /\ call' = [call EXCEPT !.step = "body"]
  /\ UNCHANGED <<applied, given, calls>>

HttpCode == [s \in Statuses |-> IF s = 400 THEN "http-400" ELSE IF s = 401 THEN "http-401"
                                ELSE IF s = 404 THEN "http-404" ELSE "http-500"]
\* AdminError.fromResponse: the envelope's code if there is one.
MutFromResponse == IF call.status = 404 THEN "admin-not-enabled" ELSE HttpCode[call.status]
fromResponse == IF call.body = "envelope" THEN "server" ELSE HttpCode[call.status]
probeEnabled ==
  IF call.status = 404 THEN "admin-not-enabled" ELSE IF call.status = 401 THEN "unauthorized" ELSE HttpCode[call.status]
Body ==
  /\ call.step = "body"
  /\ IF call.probe THEN IF call.status = 200 THEN Tell("enabled", 200) ELSE Tell(probeEnabled, call.status)
     ELSE IF call.status # 200 THEN Tell(fromResponse, call.status)
     ELSE IF call.body = "json" THEN Tell("result", 200) ELSE Tell("invalid-response", 200)
  /\ UNCHANGED <<applied, given, calls>>
\* The body breaks off, or the time is up while it is read: an error's body
\* and the probe's are done without, a result's failure is thrown as it is.
BodyFails ==
  /\ call.step = "body"
  /\ IF call.probe THEN IF call.status = 200 THEN Tell("enabled", 200) ELSE Tell(probeEnabled, call.status)
     ELSE IF call.status # 200 THEN Tell(HttpCode[call.status], call.status)
     ELSE Tell("thrown", 0)
  /\ UNCHANGED <<applied, given, calls>>

\* A receipt as it came, whoever has made it.
Receipts ==
  [op : Operations, fabric_id : {h \in Hex : ~h.upper}, target : Hex \cup {Malformed},
   other : {h \in Hex : h.upper}, ts : Stamps, generation : {1}]
\* The server names an owner by its root, a code by its hash, a blocked one
\* by its id, and everyone else by the endpoint (external).
About == [root |-> {"register", "unregister", "renew", "owner-meta"}, code_hash |-> {"code-issue", "code-revoke"},
          id |-> {"block-add", "block-remove"},
          endpoint_id |-> {"disconnect", "visitor-grant", "visitor-revoke", "visitor-meta",
                           "knock-dismiss", "knock-undismiss"}]
Wire(g) ==
  [fld \in Fields \cup {"op", "fabric_id", "ts", "generation"} |->
     IF fld = "op" THEN g.op ELSE IF fld = "fabric_id" THEN g.fabric_id
     ELSE IF fld = "ts" THEN g.ts
     ELSE IF fld = "generation" THEN g.generation
     ELSE IF g.op \in About[fld] THEN g.target ELSE g.other]
Receive ==
  /\ call.step = "idle" /\ calls = 0 /\ given = NoReceipt
  /\ \E r \in Receipts : given' = r
  /\ UNCHANGED <<call, applied, calls>>

AdminNext == requireHex64 \/ Send \/ ServerAnswers \/ transportError \/ Answered \/ Body \/ BodyFails \/ Receive
AdminSpec == AdminInit /\ [][AdminNext]_adminVars

(***************************************************************************)
(* Properties.                                                             *)
(***************************************************************************)
\* What a caller is told is what it may rely on: a result means the server
\* has applied the order, an answered refusal that it has not, and the
\* verdict that there is no admin interface comes from the probe alone.
OutcomeTells ==
  call.step = "ended" =>
    /\ call.code = "result" => call.did
    /\ call.told \in {400, 401, 404, 500} => ~call.did
    /\ call.code = "admin-not-enabled" => call.probe /\ call.status = 404
    /\ call.code = "enabled" <=> (call.probe /\ call.told = 200)

\* A receipt's bytes say what the receipt says: those of another operation,
\* fabric, target or time are never the same, whatever the case of the hex
\* text, and never those of a registration's receipt.
Says(g) == <<g.op, g.fabric_id.id, g.target.id, g.ts, g.generation>>
ReceiptBinds ==
  given # NoReceipt =>
    \A o \in Operations, t \in Hex \cup {Malformed}, s \in Stamps, n \in Stamps :
      LET bytes == receiptCanonical(Wire(given))
          h == [given EXCEPT !.op = o, !.target = t, !.ts = s, !.generation = n]
      IN bytes # Throws =>
           /\ bytes = receiptCanonical(Wire(h)) <=> Says(given) = Says(h)
           /\ bytes # registerReceiptCanonical(Wire(h))

\* A signature has one text: no second text of it verifies.
OneSignatureText ==
  given # NoReceipt =>
    \A c, d, e, f \in Characters :
      /\ verifies(given, <<c, d>>, <<"some">>) /\ verifies(given, <<e, f>>, <<"some">>) => <<c, d>> = <<e, f>>
      /\ ~verifies(given, <<c>>, <<"some">>)

\* Answers and receipts can be relied on.
AdminHolds == OutcomeTells /\ ReceiptBinds /\ OneSignatureText

\* Refuted by TLC (README): every failure is an AdminError of the table, a
\* time limit one of code "timeout" (client-sdk/README.md:98).
AlwaysAdminError == call.code # "thrown"
=============================================================================
