---------------------------- MODULE AuthMessagePb ----------------------------
(***************************************************************************)
(* The generated protobuf codec of AuthMessagePb,                          *)
(* src/p2p/data/authMessage.pb.go: Size, MarshalToSizedBuffer, Marshal,    *)
(* Unmarshal and skipAuthMessage, driven by a sender that marshals a       *)
(* message and a receiver that unmarshals the bytes that arrive.  The      *)
(* bytes come from the network: between the two, the wire may be cut      *)
(* short or have a crafted fragment appended.                              *)
(*                                                                         *)
(* The uint64 and int64 values of the wire format (tags, lengths, the      *)
(* timestamp, indices after adding a decoded length) are kept as their     *)
(* ten 7-bit groups, lowest first; group 10 holds bit 63 only, the sign of *)
(* an int64.  Additions wrap modulo 2^64 as Go's int does.                 *)
(***************************************************************************)
EXTENDS Integers, Sequences, Bitwise

CONSTANTS
    Payloads,       \* byte slices the sender puts in Message, Sig, Pubkey
    Timestamps,     \* int64 timestamps the sender uses (small, maybe < 0)
    Fragments       \* byte sequences a peer may append to a marshalled message

-----------------------------------------------------------------------------
(* 64-bit values as groups                                                 *)

Groups == 1..10
GroupCap(k) == IF k = 10 THEN 2 ELSE 128
Zero64 == [k \in Groups |-> 0]

\* a value 0 <= n < 2^28 (every index and length of the model)
FromNat(n) == [k \in Groups |-> IF k <= 4 THEN (n \div (128 ^ (k - 1))) % 128 ELSE 0]

\* uint64(x) of an int64 x: two's complement
FromInt(x) ==
    IF x >= 0 THEN FromNat(x)
    ELSE [k \in Groups |-> GroupCap(k) - 1 - FromNat(-x - 1)[k]]

IsNeg(v) == v[10] = 1
IsSmall(v) == \A k \in 5..10 : v[k] = 0
ToNat(v) == v[1] + v[2] * 128 + v[3] * 16384 + v[4] * 2097152

\* as int64: v < n and v > n, for a small n >= 0
LessThan(v, n) == IsNeg(v) \/ (IsSmall(v) /\ ToNat(v) < n)
GreaterThan(v, n) == ~IsNeg(v) /\ (~IsSmall(v) \/ ToNat(v) > n)

\* a + b of two int64 or uint64, wrapping modulo 2^64
RECURSIVE AddFrom(_, _, _, _)
AddFrom(a, b, k, carry) ==
    IF k > 10 THEN a
    ELSE LET s == a[k] + b[k] + carry
         IN  AddFrom([a EXCEPT ![k] = s % GroupCap(k)], b, k + 1, s \div GroupCap(k))
Add64(a, b) == AddFrom(a, b, 1, 0)

\* v >> 7
Shift7(v) == [k \in Groups |-> IF k < 10 THEN v[k + 1] ELSE 0]

\* math_bits.Len64 on groups
RECURSIVE BitLen(_)
BitLen(x) == IF x = 0 THEN 0 ELSE 1 + BitLen(x \div 2)
Len64(v) ==
    LET top == {k \in Groups : v[k] # 0}
        hi  == CHOOSE k \in top : \A j \in top : j <= k
    IN  IF top = {} THEN 0 ELSE 7 * (hi - 1) + BitLen(v[hi])

-----------------------------------------------------------------------------
(* Marshal                                                                 *)

\* the buffer dAtA; ok is FALSE once an index or a slice was out of range
Buffer(size) == [ok |-> TRUE, buf |-> [k \in 1..size |-> 0]]

\* dAtA[i] = b
Write(B, i, b) ==
    IF B.ok /\ i \in 0..(Len(B.buf) - 1)
    THEN [B EXCEPT !.buf[i + 1] = b]
    ELSE [B EXCEPT !.ok = FALSE]

\* copy(dAtA[i:], src)
CopyAt(B, i, src) ==
    IF B.ok /\ 0 <= i /\ i <= Len(B.buf)
    THEN [B EXCEPT !.buf = [k \in 1..Len(B.buf) |->
                              IF i < k /\ k <= i + Len(src) THEN src[k - i] ELSE B.buf[k]]]
    ELSE [B EXCEPT !.ok = FALSE]

\* mutant: the bit length is rounded up one group too many
SovRoundedUp(x) == (Len64([x EXCEPT ![1] = x[1] | 1]) + 7) \div 7

\* sovAuthMessage: bytes of the varint of x; x | 1 only sets bit 0
sovAuthMessage(x) == (Len64([x EXCEPT ![1] = x[1] | 1]) + 6) \div 7

\* the loop of encodeVarintAuthMessage from offset
RECURSIVE PutVarint(_, _, _)
PutVarint(B, off, v) ==
    IF Shift7(v) # Zero64
    THEN PutVarint(Write(B, off, (v[1] & 127) | 128), off + 1, Shift7(v))
    ELSE Write(B, off, v[1])

\* encodeVarintAuthMessage: the buffer and base
encodeVarintAuthMessage(B, offset, v) ==
    [b |-> PutVarint(B, offset - sovAuthMessage(v), v), i |-> offset - sovAuthMessage(v)]

\* Size: the bytes each present field takes
FieldSize(l) == IF l > 0 THEN 1 + l + sovAuthMessage(FromNat(l)) ELSE 0
Size(m) ==
    FieldSize(Len(m.message)) + FieldSize(Len(m.sig)) + FieldSize(Len(m.pubkey))
      + (IF m.timestamp # 0 THEN 1 + sovAuthMessage(FromInt(m.timestamp)) ELSE 0)

\* MarshalToSizedBuffer, back to front: Timestamp, Pubkey, Sig, Message
MarshalToSizedBuffer(m, B) ==
    LET s0 == [b |-> B, i |-> Len(B.buf)]
        ts == IF m.timestamp # 0
              THEN LET e == encodeVarintAuthMessage(s0.b, s0.i, FromInt(m.timestamp))
                   IN  [b |-> Write(e.b, e.i - 1, 32), i |-> e.i - 1]
              ELSE s0
        Bytes(s, src, tag) ==
            IF Len(src) > 0
            THEN LET i1 == s.i - Len(src)
                     e  == encodeVarintAuthMessage(CopyAt(s.b, i1, src), i1, FromNat(Len(src)))
                 IN  [b |-> Write(e.b, e.i - 1, tag), i |-> e.i - 1]
            ELSE s
    IN  Bytes(Bytes(Bytes(ts, m.pubkey, 26), m.sig, 18), m.message, 10)

\* Marshal: make([]byte, Size()), fill it, return dAtA[:n]
Marshal(m) ==
    LET size == Size(m)
        r    == MarshalToSizedBuffer(m, Buffer(size))
        n    == Len(r.b.buf) - r.i
    IN  IF r.b.ok /\ n \in 0..size
        THEN [ok |-> TRUE, buf |-> SubSeq(r.b.buf, 1, n)]
        ELSE [ok |-> FALSE, buf |-> <<>>]

-----------------------------------------------------------------------------
(* Unmarshal                                                               *)

\* the errors Unmarshal and skipAuthMessage return; "panic" is an index or
\* a slice out of range
Errors == {"none", "intOverflow", "unexpectedEOF", "invalidLength",
           "endGroupForNonGroup", "illegalTag", "wrongWireType",
           "unexpectedEndOfGroup", "illegalWireType", "panic"}

\* a varint loop from index j: shift >= 64 and iNdEx >= l fail, the value
\* collects b & 0x7F << shift (at shift 63 one bit is left), b < 0x80 ends it
RECURSIVE VarintFrom(_, _, _, _)
VarintFrom(d, j, k, acc) ==
    IF k > 10 THEN [err |-> "intOverflow", val |-> acc, next |-> j]
    ELSE IF j >= Len(d) THEN [err |-> "unexpectedEOF", val |-> acc, next |-> j]
    ELSE LET b == d[j + 1]
             v == [acc EXCEPT ![k] = (b & 127) % GroupCap(k)]
         IN  IF b < 128 THEN [err |-> "none", val |-> v, next |-> j + 1]
             ELSE VarintFrom(d, j + 1, k + 1, v)
ReadVarint(d, j) == VarintFrom(d, j, 1, Zero64)

\* wireType := int(wire & 0x7); fieldNum := int32(wire >> 3) keeps bits 3..34,
\* bit 34 its sign
WireType(w) == w[1] & 7
FieldBits(w) == (w[1] \div 8) + w[2] * 16 + w[3] * 2048 + w[4] * 262144
                  + (w[5] % 64) * 33554432
FieldNeg(w) == (w[5] \div 64) % 2 = 1

EmptyMsg == [message |-> <<>>, sig |-> <<>>, pubkey |-> <<>>, timestamp |-> Zero64]
BytesFields == <<"message", "sig", "pubkey">>

Fail(e, m) == [err |-> e, msg |-> m]

\* mutant: postIndex is not tested for having wrapped below zero
LengthErrorNoWrap(byteLen, postIndex, l) ==
    IF IsNeg(byteLen) THEN "invalidLength"
    ELSE IF GreaterThan(postIndex, l) THEN "unexpectedEOF"
    ELSE "none"

\* the checks of a length: byteLen < 0, postIndex < 0, postIndex > l
LengthError(byteLen, postIndex, l) ==
    IF IsNeg(byteLen) THEN "invalidLength"
    ELSE IF IsNeg(postIndex) THEN "invalidLength"
    ELSE IF GreaterThan(postIndex, l) THEN "unexpectedEOF"
    ELSE "none"

\* dAtA[lo:hi] is in range
SliceOk(d, lo, hi) == ~IsNeg(hi) /\ ~LessThan(hi, lo) /\ ~GreaterThan(hi, Len(d))

\* one step of skipAuthMessage's loop at iNdEx = j < l
SkipStep(d, j, depth) ==
    LET t  == ReadVarint(d, j)
        wt == WireType(t.val)
        v  == ReadVarint(d, t.next)
        To(i, dp) == [err |-> "none", i |-> i, depth |-> dp]
        Err(e) == [err |-> e, i |-> Zero64, depth |-> depth]
    IN  IF t.err # "none" THEN Err(t.err)
        ELSE CASE wt = 0 -> IF v.err # "none" THEN Err(v.err) ELSE To(FromNat(v.next), depth)
               [] wt = 1 -> To(FromNat(t.next + 8), depth)
               [] wt = 2 -> IF v.err # "none" THEN Err(v.err)
                            ELSE IF IsNeg(v.val) THEN Err("invalidLength")
                            ELSE To(Add64(FromNat(v.next), v.val), depth)
               [] wt = 3 -> To(FromNat(t.next), depth + 1)
               [] wt = 4 -> IF depth = 0 THEN Err("unexpectedEndOfGroup")
                            ELSE To(FromNat(t.next), depth - 1)
               [] wt = 5 -> To(FromNat(t.next + 4), depth)
               [] OTHER  -> Err("illegalWireType")

\* skipAuthMessage(d) from iNdEx = i: [err, n]
RECURSIVE SkipFrom(_, _, _)
SkipFrom(d, i, depth) ==
    IF ~LessThan(i, Len(d)) THEN [err |-> "unexpectedEOF", n |-> Zero64]
    ELSE LET s == SkipStep(d, ToNat(i), depth)
         IN  IF s.err # "none" THEN [err |-> s.err, n |-> Zero64]
             ELSE IF IsNeg(s.i) THEN [err |-> "invalidLength", n |-> Zero64]
             ELSE IF s.depth = 0 THEN [err |-> "none", n |-> s.i]
             ELSE SkipFrom(d, s.i, s.depth)
skipAuthMessage(d) == SkipFrom(d, Zero64, 0)

RECURSIVE UnmarshalFrom(_, _, _)

\* case 1, 2, 3: a length-delimited field; the last occurrence wins
BytesField(d, j, m, f, wt) ==
    LET v    == ReadVarint(d, j)
        post == Add64(FromNat(v.next), v.val)
        e    == LengthError(v.val, post, Len(d))
    IN  IF wt # 2 THEN Fail("wrongWireType", m)
        ELSE IF v.err # "none" THEN Fail(v.err, m)
        ELSE IF e # "none" THEN Fail(e, m)
        ELSE IF ~SliceOk(d, v.next, post) THEN Fail("panic", m)
        ELSE UnmarshalFrom(d, ToNat(post),
                 [m EXCEPT ![BytesFields[f]] = SubSeq(d, v.next + 1, ToNat(post))])

\* mutant: the Timestamp case tests the wire type of a bytes field
TimestampFieldAsBytes(d, j, m, wt) ==
    LET v == ReadVarint(d, j)
    IN  IF wt # 2 THEN Fail("wrongWireType", m)
        ELSE IF v.err # "none" THEN Fail(v.err, m)
        ELSE UnmarshalFrom(d, v.next, [m EXCEPT !.timestamp = v.val])

\* case 4: Timestamp is reset, then read as a varint
TimestampField(d, j, m, wt) ==
    LET v == ReadVarint(d, j)
    IN  IF wt # 0 THEN Fail("wrongWireType", m)
        ELSE IF v.err # "none" THEN Fail(v.err, m)
        ELSE UnmarshalFrom(d, v.next, [m EXCEPT !.timestamp = v.val])

\* default: skipAuthMessage(dAtA[preIndex:]) and its checks
SkipField(d, pre, m) ==
    LET s   == skipAuthMessage(SubSeq(d, pre + 1, Len(d)))
        end == Add64(FromNat(pre), s.n)
    IN  IF s.err # "none" THEN Fail(s.err, m)
        ELSE IF IsNeg(s.n) THEN Fail("invalidLength", m)
        ELSE IF IsNeg(end) THEN Fail("invalidLength", m)
        ELSE IF GreaterThan(end, Len(d)) THEN Fail("unexpectedEOF", m)
        ELSE UnmarshalFrom(d, ToNat(end), m)

\* the loop of Unmarshal at iNdEx = j: read the tag, dispatch on fieldNum
UnmarshalFrom(d, j, m) ==
    IF j >= Len(d)
    THEN Fail(IF j > Len(d) THEN "unexpectedEOF" ELSE "none", m)
    ELSE LET t == ReadVarint(d, j)
             w == t.val
         IN  IF t.err # "none" THEN Fail(t.err, m)
             ELSE IF WireType(w) = 4 THEN Fail("endGroupForNonGroup", m)
             ELSE IF FieldBits(w) = 0 \/ FieldNeg(w) THEN Fail("illegalTag", m)
             ELSE IF FieldBits(w) \in 1..3 THEN BytesField(d, t.next, m, FieldBits(w), WireType(w))
             ELSE IF FieldBits(w) = 4 THEN TimestampField(d, t.next, m, WireType(w))
             ELSE SkipField(d, j, m)

\* Unmarshal into a fresh AuthMessagePb
Unmarshal(d) == UnmarshalFrom(d, 0, EmptyMsg)

\* Equal: bytes.Equal on the three slices (nil equals empty), == on Timestamp
Equal(this, that) ==
    /\ this.message = that.message
    /\ this.sig = that.sig
    /\ this.pubkey = that.pubkey
    /\ this.timestamp = that.timestamp

-----------------------------------------------------------------------------
(* The wire format, written forwards: the reference the codec is checked   *)
(* against.  A varint is the 7-bit groups of v up to the highest nonzero   *)
(* one, lowest first, each but the last with bit 7 set.                    *)

VarintRef(v) ==
    LET top == {k \in Groups : v[k] # 0}
        n   == IF top = {} THEN 1 ELSE CHOOSE k \in top : \A j \in top : j <= k
    IN  [k \in 1..n |-> IF k < n THEN v[k] + 128 ELSE v[k]]

LenFieldRef(tag, s) ==
    IF s = <<>> THEN <<>> ELSE <<tag>> \o VarintRef(FromNat(Len(s))) \o s

WireFormat(m) ==
    LenFieldRef(10, m.message) \o LenFieldRef(18, m.sig) \o LenFieldRef(26, m.pubkey)
      \o (IF m.timestamp = 0 THEN <<>> ELSE <<32>> \o VarintRef(FromInt(m.timestamp)))

-----------------------------------------------------------------------------
(* Sender, network, receiver                                               *)

Messages == [message : Payloads, sig : Payloads, pubkey : Payloads, timestamp : Timestamps]

\* each message the sender may send with its Marshal, computed once
Marshalled == {[msg |-> m, out |-> Marshal(m)] : m \in Messages}

\* the sender's message as the receiver's struct holds it
AsDecoded(m) == [m EXCEPT !.timestamp = FromInt(m.timestamp)]

VARIABLES
    sent,       \* the AuthMessagePb last marshalled
    wire,       \* the bytes on the way to the receiver
    marshalOk,  \* Marshal did not run out of its buffer
    tampered,   \* the bytes were cut or extended on the way
    phase,      \* "idle", "sent" or "received"
    got         \* Unmarshal's result: [err, msg]

vars == <<sent, wire, marshalOk, tampered, phase, got>>

Init ==
    /\ sent = [message |-> <<>>, sig |-> <<>>, pubkey |-> <<>>, timestamp |-> 0]
    /\ wire = <<>>
    /\ marshalOk = TRUE
    /\ tampered = FALSE
    /\ phase = "idle"
    /\ got = Fail("none", EmptyMsg)

\* the sender marshals m (r is Marshal(m)); the receiver decodes it into
\* a fresh struct
Send(m, r) ==
    /\ phase \in {"idle", "received"}
    /\ wire' = r.buf
    /\ marshalOk' = r.ok
    /\ sent' = m
    /\ tampered' = FALSE
    /\ phase' = "sent"
    /\ got' = Fail("none", EmptyMsg)

\* the connection delivers only the first k bytes
Truncate(k) ==
    /\ phase = "sent"
    /\ ~tampered
    /\ wire' = SubSeq(wire, 1, k)
    /\ tampered' = TRUE
    /\ UNCHANGED <<sent, marshalOk, phase, got>>

\* a peer appends crafted bytes
Extend(f) ==
    /\ phase = "sent"
    /\ ~tampered
    /\ wire' = wire \o f
    /\ tampered' = TRUE
    /\ UNCHANGED <<sent, marshalOk, phase, got>>

\* the receiver unmarshals what arrived
Receive ==
    /\ phase = "sent"
    /\ got' = Unmarshal(wire)
    /\ phase' = "received"
    /\ UNCHANGED <<sent, wire, marshalOk, tampered>>

Next ==
    \/ \E x \in Marshalled : Send(x.msg, x.out)
    \/ \E k \in 0..(Len(wire) - 1) : Truncate(k)
    \/ \E f \in Fragments : Extend(f)
    \/ Receive

Spec == Init /\ [][Next]_vars

-----------------------------------------------------------------------------

TypeOK ==
    /\ sent \in Messages \cup {[message |-> <<>>, sig |-> <<>>, pubkey |-> <<>>, timestamp |-> 0]}
    /\ marshalOk \in BOOLEAN
    /\ tampered \in BOOLEAN
    /\ phase \in {"idle", "sent", "received"}
    /\ got.err \in Errors
    /\ \A k \in DOMAIN wire : wire[k] \in 0..255

\* Marshal sizes its buffer with Size and fills it back to front with
\* MarshalToSizedBuffer, then returns dAtA[:n]: the two must agree to the
\* byte for every field length and timestamp, or the result starts with
\* stray zero bytes or the fill runs off the buffer.  What it returns is the
\* protobuf encoding of the message, fields in number order.
MarshalIsWireFormat ==
    phase = "sent" /\ ~tampered => marshalOk /\ wire = WireFormat(sent)

\* Unmarshal of what Marshal produced, undisturbed, succeeds and gives a
\* message Equal to the one sent: the decoder's wire type per field, its
\* varint loops and its slices match the encoder, negative timestamps
\* (ten byte varints) included.
RoundTrip ==
    phase = "received" /\ ~tampered =>
        got.err = "none" /\ Equal(got.msg, AsDecoded(sent))

\* Whatever bytes arrive (cut anywhere, or followed by lengths near 2^63
\* that wrap iNdEx + byteLen, overlong varints, unknown fields and groups),
\* Unmarshal returns an error or a message and never indexes or slices
\* dAtA out of range.
UnmarshalNeverPanics ==
    phase = "received" => got.err # "panic"

=============================================================================
