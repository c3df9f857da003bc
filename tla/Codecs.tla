------------------------------- MODULE Codecs -------------------------------
(***************************************************************************)
(* The texts that people copy and programs exchange: access short codes,   *)
(* IPv6 addresses, aliases cut to a length, base64url                      *)
(* (packages/opendweb/src/util.mjs, register.mjs), and the wire form of an *)
(* invitation (packages/client-sdk/token).  A trial writes a value down,   *)
(* perhaps with a slip of the pen, and reads it again.                     *)
(*                                                                         *)
(* A character of an alphabet is its value; hyphens and characters outside *)
(* it are the numbers below.                                               *)
(***************************************************************************)
EXTENDS Integers, Sequences
LOCAL INSTANCE Bitwise
LOCAL INSTANCE SequencesExt

CONSTANTS Trials,   \* kind -> values
          MaxAlias, \* ALIAS_MAX_BYTES
          InviteLimits \* [relays, url, cap, addrs]: the limits of an invitation

VARIABLES trial, \* what is written
          step,  \* "write", "copy", "read", "done"
          text,  \* as written
          slip,  \* whether it was copied wrongly
          out    \* as read

codecVars == <<trial, step, text, slip, out>>

Hyphen == -1
Other == -2   \* i, l, o, u, or no character of the alphabet
Error == <<"error">>
Nothing == <<"nothing">>

(***************************************************************************)
(* Bits.                                                                   *)
(***************************************************************************)
Bits(v, n) == [i \in 1..n |-> (v \div 2^(n - i)) % 2]
Value(bits) == FoldLeft(LAMBDA acc, b : 2 * acc + b, 0, bits)
AllBits(values, n) == [k \in 1..n * Len(values) |-> Bits(values[((k - 1) \div n) + 1], n)[((k - 1) % n) + 1]]
Zeros(n) == [i \in 1..n |-> 0]
Chunks(s, n) == [i \in 1..((Len(s) + n - 1) \div n) |->
                   SubSeq(s, n * (i - 1) + 1, IF n * i < Len(s) THEN n * i ELSE Len(s))]

\* bytesToCrockford, toBase64UrlNoPad: n bits a character, the last one filled up.
Pack(bytes, n) ==
  LET bits == AllBits(bytes, 8)
      full == bits \o Zeros((n - (Len(bits) % n)) % n)
  IN [i \in 1..(Len(full) \div n) |-> Value(Chunks(full, n)[i])]

\* fromBase64UrlNoPad: whole bytes; what is left over must be zero.
fromBase64UrlNoPad(chars) ==
  LET bits == AllBits(chars, 6)
      whole == 8 * (Len(bits) \div 8)
  IN IF chars = <<>> \/ (\E c \in ToSet(chars) : c < 0)
        \/ \E i \in whole+1..Len(bits) : bits[i] = 1 THEN Error
     ELSE [i \in 1..(whole \div 8) |-> Value(SubSeq(bits, 8 * i - 7, 8 * i))]

(***************************************************************************)
(* IPv6 addresses: eight groups; as text, two lists of groups around "::". *)
(***************************************************************************)
\* Mutant: the last of the longest runs, and runs of one.
MutRun(groups) ==
  LET Run(i) == CHOOSE n \in 0..(9 - i) : (\A k \in 1..n : groups[i + k - 1] = 0) /\ (n = 9 - i \/ groups[i + n] # 0)
      best == CHOOSE i \in 1..8 : \A j \in 1..8 : Run(j) <= Run(i) /\ (Run(j) = Run(i) => j <= i)
  IN [from |-> best, len |-> Run(best)]

\* formatIpv6Groups: the first of the longest runs of zeros.
LongestRun(groups) ==
  LET Run(i) == CHOOSE n \in 0..(9 - i) : (\A k \in 1..n : groups[i + k - 1] = 0) /\ (n = 9 - i \/ groups[i + n] # 0)
      best == CHOOSE i \in 1..8 : \A j \in 1..8 : Run(j) <= Run(i) /\ (Run(j) = Run(i) => i <= j)
  IN [from |-> best, len |-> Run(best)]

formatIpv6Groups(groups) ==
  LET run == LongestRun(groups) IN
  IF run.len < 2 THEN [gap |-> FALSE, head |-> groups, tail |-> <<>>]
  ELSE [gap |-> TRUE, head |-> SubSeq(groups, 1, run.from - 1),
        tail |-> SubSeq(groups, run.from + run.len, 8)]

\* formatIpv6 of the token module: one pass, the run that grows beyond the best.
formatIpv6(groups) ==
  LET Pass(acc, i) ==
        LET cur == IF groups[i] # 0 THEN 0 ELSE acc.cur + 1
        IN IF cur > acc.len THEN [cur |-> cur, len |-> cur, from |-> i - cur + 1] ELSE [acc EXCEPT !.cur = cur]
      best == FoldLeft(Pass, [cur |-> 0, len |-> 0, from |-> 0], [i \in 1..8 |-> i])
  IN IF best.len < 2 THEN [gap |-> FALSE, head |-> groups, tail |-> <<>>]
     ELSE [gap |-> TRUE, head |-> SubSeq(groups, 1, best.from - 1),
           tail |-> SubSeq(groups, best.from + best.len, 8)]

\* parseIpv6Groups: "::" stands for one group at least.
parseIpv6Groups(t) ==
  LET missing == 8 - Len(t.head) - Len(t.tail) IN
  IF t.gap THEN IF missing < 1 THEN Error ELSE t.head \o Zeros(missing) \o t.tail
  ELSE IF Len(t.head) # 8 THEN Error ELSE t.head

isLinkLocalIpv6(groups) == (groups[1] \div 64) = 1018   \* fe80::/10

(***************************************************************************)
(* Access short codes: version, address, port, checksum.                   *)
(***************************************************************************)
\* Mutant: a plain sum, and the port is not in it.
MutCrc(bytes) == FoldLeft(LAMBDA crc, b : (crc + b) % 65536, 0, SubSeq(bytes, 1, Len(bytes) - 2))

\* The eight rounds of the loop over one byte's bits, for each byte.
Rounds ==
  LET Shift(crc) == IF crc >= 32768 THEN ((2 * crc) % 65536) ^^ 4129 ELSE 2 * crc
  IN [v \in 0..255 |-> Shift(Shift(Shift(Shift(Shift(Shift(Shift(Shift(256 * v))))))))]

\* The rounds are linear: the low byte only moves up.
crc16CcittFalse(bytes) ==
  LET crc[i \in 0..Len(bytes)] ==
        IF i = 0 THEN 65535
        ELSE LET before == crc[i - 1]
             IN (256 * (before % 256)) ^^ Rounds[(before \div 256) ^^ bytes[i]]
  IN crc[Len(bytes)]

TwoBytes(v) == <<v \div 256, v % 256>>
Payload(ip, port) ==
  IF Len(ip) = 4 THEN <<1>> \o ip \o TwoBytes(port)
  ELSE <<2>> \o FlattenSeq([i \in 1..8 |-> TwoBytes(ip[i])]) \o TwoBytes(port)

encodeShortCode(ip, port) ==
  IF port \notin 1..65535 \/ (Len(ip) = 8 /\ isLinkLocalIpv6(ip)) THEN Error
  ELSE LET p == Payload(ip, port) IN Pack(p \o TwoBytes(crc16CcittFalse(p)), 5)

Boundaries(n) == IF n = 15 THEN {5, 10} ELSE {4 * i : i \in 1..8}

\* formatShortCodeForDisplay: hyphens at the boundaries of its length.
formatShortCodeForDisplay(code) ==
  FlattenSeq([i \in 1..Len(code) |->
    IF i \in Boundaries(Len(code)) /\ i < Len(code) THEN <<code[i], Hyphen>> ELSE <<code[i]>>])

\* decodeShortCode: hyphens only at boundaries and never two; fifteen or
\* thirty-four characters; no padding bit set; version, length and checksum agree.
decodeShortCode(chars) ==
  LET data == SelectSeq(chars, LAMBDA c : c # Hyphen)
      Before(i) == Len(SelectSeq(SubSeq(chars, 1, i), LAMBDA c : c # Hyphen))
      Misplaced(i) == chars[i] = Hyphen
        /\ (i = 1 \/ chars[i - 1] = Hyphen \/ Before(i) \notin Boundaries(Len(data)))
      needed == IF Len(data) = 15 THEN 72 ELSE 168
      bits == AllBits(data, 5)
      bytes == [i \in 1..(needed \div 8) |-> Value(SubSeq(bits, 8 * i - 7, 8 * i))]
      n == Len(bytes)
      payload == SubSeq(bytes, 1, n - 2)
      Pair(i) == 256 * bytes[i] + bytes[i + 1]
      ip == IF n = 9 THEN SubSeq(bytes, 2, 5) ELSE [i \in 1..8 |-> Pair(2 * i)]
  IN IF Len(data) \notin {15, 34} \/ (\E i \in 1..Len(chars) : chars[i] = Other \/ Misplaced(i))
     THEN Error
     ELSE IF (\E i \in needed+1..Len(bits) : bits[i] = 1) \/ bytes[1] # (IF n = 9 THEN 1 ELSE 2)
     THEN Error
     ELSE IF Pair(n - 1) # crc16CcittFalse(payload) \/ (n = 21 /\ isLinkLocalIpv6(ip)) THEN Error
     ELSE <<ip, Pair(n - 3)>>

(***************************************************************************)
(* An alias, a sequence of characters of one to four bytes.                *)
(***************************************************************************)
\* The bytes of it: a first byte (TRUE), then continuation bytes.
Utf8(s) == FlattenSeq([i \in 1..Len(s) |-> [k \in 1..s[i] |-> k = 1]])

\* Mutant: cut where the limit falls.
MutCut(bytes) == MaxAlias

\* From the limit back to the first byte of a character.
CutAt(bytes) == CHOOSE n \in 0..MaxAlias :
  /\ n = 0 \/ bytes[n + 1]
  /\ \A m \in n+1..MaxAlias : ~bytes[m + 1]

truncateUtf8Bytes(s) ==
  LET bytes == Utf8(s) IN IF Len(bytes) <= MaxAlias THEN bytes ELSE SubSeq(bytes, 1, CutAt(bytes))

(***************************************************************************)
(* An invitation's variable part: the relays, each an URL and a capability *)
(* with their lengths, then direct addresses of four or sixteen bytes and  *)
(* a port.  (Lengths count one byte here, an URL and a capability some,    *)
(* an address one or two, a port one.)                                     *)
(***************************************************************************)
IpLen(family) == IF family = 4 THEN 1 ELSE 2

\* A field of n bytes at an offset, or nothing when they are not there.
Has(bytes, off, n) == off + n <= Len(bytes)
Taken(bytes, off, n) == SubSeq(bytes, off + 1, off + n)

\* One relay: [off, list] moves on, or fails for good.
Failed == [off |-> 0, list |-> <<>>] \* what was taken ends further on
TakeRelay(bytes, acc) ==
  IF acc = Failed \/ ~Has(bytes, acc.off, 1) THEN Failed
  ELSE LET url == bytes[acc.off + 1] IN
    IF url > InviteLimits.url \/ ~Has(bytes, acc.off + 1, url + 1) THEN Failed
    ELSE LET cap == bytes[acc.off + 1 + url + 1] IN
      IF cap > InviteLimits.cap \/ ~Has(bytes, acc.off + 2 + url, cap) THEN Failed
      ELSE [off |-> acc.off + 2 + url + cap,
            list |-> Append(acc.list, [url |-> Taken(bytes, acc.off + 1, url),
                                       cap |-> Taken(bytes, acc.off + 2 + url, cap)])]
TakeAddr(bytes, acc) ==
  IF acc = Failed \/ ~Has(bytes, acc.off, 1) THEN Failed
  ELSE LET f == bytes[acc.off + 1] IN
    IF f \notin {4, 6} \/ ~Has(bytes, acc.off + 1, IpLen(f) + 1) THEN Failed
    ELSE [off |-> acc.off + 2 + IpLen(f),
          list |-> Append(acc.list, [family |-> f, ip |-> Taken(bytes, acc.off + 1, IpLen(f)),
                                     port |-> bytes[acc.off + 2 + IpLen(f)]])]

\* A count within its limit, then so many items.
Counted(bytes, off, limit, Take(_, _)) ==
  IF ~Has(bytes, off, 1) \/ bytes[off + 1] > limit THEN Failed
  ELSE FoldLeft(LAMBDA acc, i : Take(bytes, acc), [off |-> off + 1, list |-> <<>>],
                [i \in 1..bytes[off + 1] |-> i])

\* Mutant: bytes after the last address are ignored.
MutAllRead(bytes, off) == off <= Len(bytes)
AllRead(bytes, off) == off = Len(bytes)

decodeInvite(bytes) ==
  LET relays == Counted(bytes, 0, InviteLimits.relays, TakeRelay)
      addrs == Counted(bytes, relays.off, InviteLimits.addrs, TakeAddr)
  IN IF relays = Failed \/ addrs = Failed THEN Error
     ELSE IF ~AllRead(bytes, addrs.off) THEN Error
     ELSE <<relays.list, addrs.list>>

\* What the Rust side writes.
InviteBytes(v) ==
  LET Relay(r) == <<Len(r.url)>> \o r.url \o <<Len(r.cap)>> \o r.cap
      Addr(a) == <<a.family>> \o a.ip \o <<a.port>>
  IN <<Len(v[1])>> \o FlattenSeq([i \in 1..Len(v[1]) |-> Relay(v[1][i])])
     \o <<Len(v[2])>> \o FlattenSeq([i \in 1..Len(v[2]) |-> Addr(v[2][i])])

(***************************************************************************)
(* Trials.                                                                 *)
(***************************************************************************)
CodecInit ==
  /\ \E kind \in DOMAIN Trials : \E value \in Trials[kind] : trial = [kind |-> kind, value |-> value]
  /\ step = "write" /\ text = <<>> /\ slip = FALSE /\ out = Nothing

Write ==
  /\ step = "write" /\ step' = "copy"
  /\ text' = CASE trial.kind = "short" -> encodeShortCode(trial.value[1], trial.value[2])
               [] trial.kind = "ipv6" -> formatIpv6Groups(trial.value)
               [] trial.kind = "base64" -> Pack(trial.value, 6)
               [] trial.kind = "utf8" -> truncateUtf8Bytes(trial.value)
               [] trial.kind = "invite" -> trial.value
  /\ UNCHANGED <<trial, slip, out>>

\* Copied as it is or for display; with one character wrong, or two swapped.
Copy ==
  /\ step = "copy" /\ step' = "read"
  /\ \/ UNCHANGED <<text, slip>>
     \/ /\ trial.kind = "short" /\ text # Error
        /\ \/ text' = formatShortCodeForDisplay(text) /\ UNCHANGED slip
           \/ \E i \in 1..Len(text), c \in {0, 1, 16, 31, Other} :
                c # text[i] /\ text' = [text EXCEPT ![i] = c] /\ slip' = TRUE
           \/ \E i \in 1..Len(text) - 1 :
                /\ text[i] # text[i + 1] /\ slip' = TRUE
                /\ text' = [text EXCEPT ![i] = text[i + 1], ![i + 1] = text[i]]
           \/ \E i \in 1..Len(text) :
                text' = SubSeq(text, 1, i) \o <<Hyphen>> \o SubSeq(text, i + 1, Len(text)) /\ UNCHANGED slip
  /\ UNCHANGED <<trial, out>>

Read ==
  /\ step = "read" /\ step' = "done"
  /\ out' = CASE trial.kind = "short" -> IF text = Error THEN Error ELSE decodeShortCode(text)
              [] trial.kind = "ipv6" -> parseIpv6Groups(text)
              [] trial.kind = "base64" -> fromBase64UrlNoPad(text)
              [] trial.kind = "utf8" -> text
              [] trial.kind = "invite" -> decodeInvite(text)
  /\ UNCHANGED <<trial, text, slip>>

CodecNext == Write \/ Copy \/ Read

(***************************************************************************)
(* Properties.                                                             *)
(***************************************************************************)
\* A short code read wrongly, one character off or two exchanged, is refused:
\* nobody is sent to another address.  Read rightly, with hyphens where they
\* belong, it is the address that was encoded.
CodeHolds ==
  step = "done" /\ trial.kind = "short" =>
    /\ slip => out = Error
    /\ ~slip => out = trial.value \/ (out = Error /\ (encodeShortCode(trial.value[1], trial.value[2]) = Error
                                                      \/ Hyphen \in ToSet(text)))

\* The two implementations write the same, the shortest form, and it reads back.
AddressHolds ==
  step = "done" /\ trial.kind = "ipv6" =>
    /\ out = trial.value /\ text = formatIpv6(trial.value)
    /\ \A t \in [gap : {TRUE}, head : {SubSeq(trial.value, 1, i) : i \in 0..8},
                 tail : {SubSeq(trial.value, i + 1, 8) : i \in 0..8}] :
         parseIpv6Groups(t) = trial.value =>
           Len(t.head) + Len(t.tail) >= Len(text.head) + Len(text.tail) \/ Len(t.head) + Len(t.tail) = 7

\* What is cut off an alias is whole characters, no more of them than needed.
AliasHolds ==
  step = "done" /\ trial.kind = "utf8" =>
    LET Prefix(n) == Utf8(SubSeq(trial.value, 1, n))
        fits == {n \in 0..Len(trial.value) : Len(Prefix(n)) <= MaxAlias}
    IN out = Prefix(CHOOSE n \in fits : \A m \in fits : m <= n)

\* An invitation that is accepted is one the other side could have written, to
\* the byte (the signature covers exactly these bytes); bytes that were written
\* as text come back.
InviteHolds ==
  /\ step = "done" /\ trial.kind = "invite" /\ out # Error => InviteBytes(out) = trial.value
  /\ step = "done" /\ trial.kind = "base64" /\ trial.value # <<>> => out = trial.value

Holds == CodeHolds /\ AddressHolds /\ AliasHolds /\ InviteHolds

\* Refuted by TLC (README): a character of zero bits after a whole number of
\* bytes is read over, so two texts stand for the same bytes.
OneText ==
  step = "read" /\ trial.kind = "base64" /\ text # <<>> =>
    fromBase64UrlNoPad(Append(text, 0)) # fromBase64UrlNoPad(text)
=============================================================================
