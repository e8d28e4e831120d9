------------------------- MODULE Ts2021Channel_proofs --------------------------
(***************************************************************************)
(* Theorems about Ts2021Channel, for any number of connections, records,   *)
(* nonces and server keys.                                                 *)
(*                                                                         *)
(* The handshake is run symbolically first: what the pattern IK makes of   *)
(* one server key k and connection c is written down in full, and lemmas   *)
(* show that the library's functions compute it.  The rest of the module   *)
(* uses these results and never looks into the functions again.            *)
(***************************************************************************)
EXTENDS Ts2021Channel, FiniteSetTheorems, SequenceTheorems, TLAPS

-----------------------------------------------------------------------------
(* What the handshake of connection c with the server key k computes.      *)

ClientKey(c) == [owner |-> "client", kind |-> "ephemeral", id |-> c]
AnswerKey(c) == [owner |-> "server", kind |-> "ephemeral", id |-> c]
Prologue == [prologue |-> "Tailscale Control Protocol v1"]

HandshakeState(role, action, tokens, h, ck, cipher, s, e, rs, re) ==
  [role |-> role, action |-> action, tokens |-> tokens, h |-> h, ck |-> ck,
   cipher |-> cipher, s |-> s, e |-> e, rs |-> rs, re |-> re]

(* The chaining keys after es, ss, ee and se.                              *)
AfterES(k, c) == Append(<<>>, Secret(ClientKey(c), k))
AfterSS(k, c) == Append(AfterES(k, c), Secret(Machine, k))
AfterEE(k, c) == Append(AfterSS(k, c), Secret(ClientKey(c), AnswerKey(c)))
AfterSE(k, c) == Append(AfterEE(k, c), Secret(Machine, AnswerKey(c)))

MessageKey(ck) == InitKey(Key("handshake", ck))
Used(cipher) == [cipher EXCEPT !.n = 1]

(* What has been hashed before, between and after the two texts of the     *)
(* first message, and after the second.                                    *)
Begun(k) == Append(Append(<<ProtocolName>>, Prologue), k)
SealedMachine(k, c) ==
  Seal(MessageKey(AfterES(k, c)), Append(Begun(k), ClientKey(c)), Machine)
Introduced(k, c) == Append(Append(Begun(k), ClientKey(c)), SealedMachine(k, c))
FirstPayload(k, c) == Seal(MessageKey(AfterSS(k, c)), Introduced(k, c), None)
FirstHash(k, c) == Append(Introduced(k, c), FirstPayload(k, c))
SecondPayload(k, c) ==
  Seal(MessageKey(AfterSE(k, c)), Append(FirstHash(k, c), AnswerKey(c)), None)
SecondHash(k, c) == Append(Append(FirstHash(k, c), AnswerKey(c)), SecondPayload(k, c))

FirstMessage(k, c) == <<ClientKey(c), SealedMachine(k, c), FirstPayload(k, c)>>
SecondMessage(k, c) == <<AnswerKey(c), SecondPayload(k, c)>>

SecondTokens == <<"e", "ee", "se", "end">>

(* The client before, between and after the messages, and the server.      *)
Keyed(k) ==
  HandshakeState("INITIATOR", "NONE", PatternIK, <<ProtocolName>>, <<>>, InitKey(NoKey),
                 Machine, None, k, None)
Waiting(k, c) ==
  HandshakeState("INITIATOR", "READ_MESSAGE", SecondTokens, FirstHash(k, c), AfterSS(k, c),
                 Used(MessageKey(AfterSS(k, c))), Machine, ClientKey(c), k, None)
ClientDone(k, c, action) ==
  HandshakeState("INITIATOR", action, <<"end">>, SecondHash(k, c), AfterSE(k, c),
                 Used(MessageKey(AfterSE(k, c))), Machine, ClientKey(c), k, AnswerKey(c))
Asked(k, c) ==
  HandshakeState("RESPONDER", "WRITE_MESSAGE", SecondTokens, FirstHash(k, c), AfterSS(k, c),
                 Used(MessageKey(AfterSS(k, c))), k, None, Machine, ClientKey(c))
ServerDone(k, c, action) ==
  HandshakeState("RESPONDER", action, <<"end">>, SecondHash(k, c), AfterSE(k, c),
                 Used(MessageKey(AfterSE(k, c))), k, AnswerKey(c), Machine, ClientKey(c))
-----------------------------------------------------------------------------
(* Evaluation of the library's functions.                                  *)

TokenNames == {"e", "es", "s", "ss", "flip", "ee", "se", "end"}

LEMMA FirstLength == MessageLength(PatternIK) = 4
<1> DEFINE P(n) == /\ PatternIK[n + 1] \in {"flip", "end"}
                   /\ \A i \in 1 .. n : PatternIK[i] \notin {"flip", "end"}
<1>1. Len(PatternIK) = 9 /\ 4 \in 0 .. 9 - 1
  BY DEF PatternIK
<1>2. P(4)
  BY DEF PatternIK
<1>3. ASSUME NEW n \in 0 .. 8, P(n) PROVE n = 4
  <2>1. n < 4 => PatternIK[n + 1] \notin {"flip", "end"}
    BY DEF PatternIK, TokenNames
  <2>2. n > 4 => 5 \in 1 .. n /\ PatternIK[5] = "flip"
    BY DEF PatternIK, TokenNames
  <2> QED BY <1>3, <2>1, <2>2
<1> QED BY <1>1, <1>2, <1>3 DEF MessageLength

LEMMA SecondLength == MessageLength(SecondTokens) = 3
<1> DEFINE P(n) == /\ SecondTokens[n + 1] \in {"flip", "end"}
                   /\ \A i \in 1 .. n : SecondTokens[i] \notin {"flip", "end"}
<1>1. Len(SecondTokens) = 4 /\ 3 \in 0 .. 4 - 1
  BY DEF SecondTokens
<1>2. P(3)
  BY DEF SecondTokens
<1>3. ASSUME NEW n \in 0 .. 3, P(n) PROVE n = 3
  BY <1>3 DEF SecondTokens
<1> QED BY <1>1, <1>2, <1>3 DEF MessageLength

LEMMA AsTuple ==
  ASSUME NEW S, NEW s \in Seq(S)
  PROVE  /\ Len(s) = 1 => s = <<s[1]>>
         /\ Len(s) = 2 => s = <<s[1], s[2]>>
         /\ Len(s) = 3 => s = <<s[1], s[2], s[3]>>
         /\ Len(s) = 4 => s = <<s[1], s[2], s[3], s[4]>>
OBVIOUS

LEMMA TupleAppend ==
  ASSUME NEW a, NEW b, NEW c
  PROVE  /\ Append(<<>>, a) = <<a>> 
         /\ Append(<<a>>, b) = <<a, b>> 
         /\ Append(<<a, b>>, c) = <<a, b, c>>
<1> DEFINE S == {a, b, c}
<1>0. <<>> \in Seq(S) /\ <<a>> \in Seq(S) /\ <<a,b>> \in Seq(S) /\ a \in S /\ b \in S /\ c \in S
  OBVIOUS
<1> HIDE DEF S
<1>1. /\ Append(<<>>, a) \in Seq(S) 
      /\ Len(Append(<<>>, a)) = 1 /\ Append(<<>>, a)[1] = a
  BY <1>0
<1>2. /\ Append(<<a>>, b) \in Seq(S) 
      /\ Len(Append(<<a>>, b)) = 2 /\ Append(<<a>>, b)[1] = a/\ Append(<<a>>, b)[2] = b
  BY <1>0
<1>3. /\ Append(<<a, b>>, c) \in Seq(S) 
      /\ Len(Append(<<a, b>>, c)) = 3 /\ Append(<<a, b>>, c)[1] = a/\ Append(<<a, b>>, c)[2] = b
      /\ Append(<<a, b>>, c)[3] = c
  BY <1>0
<1>4. Append(<<>>, a) = <<a>> 
  BY <1>1, AsTuple
<1>5. Append(<<a>>, b) = <<a, b>>
  BY <1>2, AsTuple
<1>6. Append(<<a, b>>, c) = <<a, b, c>>
  BY <1>3, AsTuple
<1> QED BY <1>4, <1>5, <1>6

LEMMA TupleTail ==
  ASSUME NEW a, NEW b, NEW c
  PROVE  /\ Head(<<a, b, c>>) = a /\ Head(<<a, b>>) = a /\ Head(<<a>>) = a
         /\ Len(<<a, b, c>>) = 3 /\ Len(<<a,b>>) = 2 /\ Len(<<a>>) = 1
         /\ Tail(<<a>>) = <<>>
         /\ Tail(<<a, b>>) = <<b>>
         /\ Tail(<<a, b, c>>) = <<b, c>>
<1> DEFINE S == {a, b, c}
<1>0. <<a>> \in Seq(S) /\ <<a,b>> \in Seq(S) /\ <<a,b,c>> \in Seq(S)
  OBVIOUS
<1>1. Len(<<a, b, c>>) = 3 /\ Len(<<a,b>>) = 2 /\ Len(<<a>>) = 1
  OBVIOUS
<1> HIDE DEF S
<1>2. Tail(<<a>>) \in Seq(S) /\ Len(Tail(<<a>>)) = 0
  BY <1>0, <1>1
<1>3. /\ Tail(<<a,b>>) \in Seq(S) /\ Len(Tail(<<a,b>>)) = 1
      /\ Tail(<<a,b>>)[1] = b
  BY <1>0, <1>1
<1>4. /\ Tail(<<a,b,c>>) \in Seq(S) /\ Len(Tail(<<a,b,c>>)) = 2
      /\ Tail(<<a,b,c>>)[1] = b
      /\ Tail(<<a,b,c>>)[2] = c
  BY <1>0, <1>1
<1>5. Tail(<<a>>) = <<>> 
  BY <1>2
<1>6. Tail(<<a, b>>) = <<b>>
  BY <1>3, AsTuple
<1>7. Tail(<<a, b, c>>) = <<b, c>>
  BY <1>4, AsTuple
<1> QED BY <1>1, <1>5, <1>6, <1>7

LEMMA Tokens ==
  ASSUME NEW hs0
  PROVE  /\ hs0.tokens = PatternIK => MessageTokens(hs0) = <<"e", "es", "s", "ss">>
         /\ hs0.tokens = SecondTokens => MessageTokens(hs0) = <<"e", "ee", "se">>
<1>1. SubSeq(PatternIK, 1, 4) = <<"e", "es", "s", "ss">>
  <2>1. PatternIK \in Seq(TokenNames) /\ Len(PatternIK) = 9
    BY DEF PatternIK, TokenNames
  <2>2. /\ PatternIK[1] = "e" /\ PatternIK[2] = "es"
        /\ PatternIK[3] = "s" /\ PatternIK[4] = "ss"
    BY DEF PatternIK, TokenNames
  <2> DEFINE s == SubSeq(PatternIK, 1, 4)
  <2>3. s \in Seq(TokenNames) /\ Len(s) = 4
    BY <2>1
  <2>4. \A i \in 1 .. 4 : s[i] = PatternIK[i]
    BY <2>1
  <2>5. s[1] = "e" /\ s[2] = "es" /\ s[3] = "s" /\ s[4] = "ss"
    BY <2>2, <2>4
  <2> HIDE DEF s
  <2>6. s = <<s[1], s[2], s[3], s[4]>>
    BY <2>3, AsTuple
  <2>7. s = <<"e", "es", "s", "ss">>
    BY <2>5, <2>6
  <2> QED BY <2>7 DEF s
<1>2. SubSeq(SecondTokens, 1, 3) = <<"e", "ee", "se">>
  <2>1. SecondTokens \in Seq(TokenNames) /\ Len(SecondTokens) = 4
    BY DEF SecondTokens, TokenNames
  <2>2. SecondTokens[1] = "e" /\ SecondTokens[2] = "ee" /\ SecondTokens[3] = "se"
    BY DEF SecondTokens, TokenNames
  <2> DEFINE s == SubSeq(SecondTokens, 1, 3)
  <2>3. s \in Seq(TokenNames) /\ Len(s) = 3
    BY <2>1, SMTT(20)
  <2>4. \A i \in 1 .. 3 : s[i] = SecondTokens[i]
    BY <2>1
  <2>5. s[1] = "e" /\ s[2] = "ee" /\ s[3] = "se"
    BY <2>2, <2>4
  <2> HIDE DEF s
  <2>6. s = <<s[1], s[2], s[3]>>
    BY <2>3, AsTuple
  <2>7. s = <<"e", "ee", "se">>
    BY <2>5, <2>6
  <2> QED BY <2>7 DEF s
<1> QED BY <1>1, <1>2, FirstLength, SecondLength DEF MessageTokens

(* What is left of the tokens after a message.                             *)
LEMMA Tails ==
  /\ PatternIK[5] = "flip" /\ SubSeq(PatternIK, 6, Len(PatternIK)) = SecondTokens
  /\ SecondTokens[4] = "end" /\ SubSeq(SecondTokens, 4, Len(SecondTokens)) = <<"end">>
<1>1. PatternIK \in Seq(TokenNames) /\ Len(PatternIK) = 9
  BY DEF PatternIK, TokenNames
<1>2. /\ PatternIK[5] = "flip" /\ PatternIK[6] = "e" /\ PatternIK[7] = "ee"
      /\ PatternIK[8] = "se" /\ PatternIK[9] = "end"
  BY DEF PatternIK
<1> DEFINE s == SubSeq(PatternIK, 6, 9)
<1>3. s \in Seq(TokenNames) /\ Len(s) = 4
  <2>1. ASSUME NEW n \in 6 .. 9, n = 9
        PROVE  SubSeq(PatternIK, 6, n) \in Seq(TokenNames) /\ Len(SubSeq(PatternIK, 6, n)) = n - 5
    <3>1. \A i \in 6 .. n : PatternIK[i] \in TokenNames
      BY <2>1 DEF PatternIK, TokenNames
    <3> QED BY <3>1, SubSeqProperties
  <2> QED BY <2>1
<1>4. \A i \in 1 .. 4 : s[i] = PatternIK[6 + i - 1]
  BY <1>1, SubSeqProperties
<1>5. s[1] = "e" /\ s[2] = "ee" /\ s[3] = "se" /\ s[4] = "end"
  BY <1>2, <1>4
<1>6. SecondTokens \in Seq(TokenNames) /\ Len(SecondTokens) = 4 /\ SecondTokens[4] = "end"
  BY DEF SecondTokens, TokenNames
<1> DEFINE t == SubSeq(SecondTokens, 4, 4)
<1>7. t \in Seq(TokenNames) /\ Len(t) = 1 /\ t[1] = "end"
  <2>1. t \in Seq(TokenNames) /\ Len(t) = 1
    BY <1>6
  <2>2. t[1] = SecondTokens[4]
    BY <1>6
  <2> QED BY <1>6, <2>1, <2>2
<1> HIDE DEF s, t
<1>8. s = SecondTokens
  BY <1>3, <1>5, AsTuple DEF SecondTokens
<1>9. t = <<"end">>
  BY <1>7, AsTuple
<1> QED BY <1>1, <1>2, <1>6, <1>8, <1>9 DEF s, t

(* Names of different things differ.                                       *)
LEMMA NamesDiffer ==
  /\ Machine # None
  /\ \A n : StaticKey(n) # None /\ StaticKey(n) # Machine
  /\ \A c : ClientKey(c) # None /\ AnswerKey(c) # None
  /\ \A ck : Key("handshake", ck) # NoKey /\ Key("one", ck) # NoKey /\ Key("two", ck) # NoKey
BY DEF Machine, None, StaticKey, ClientKey, AnswerKey, Key, NoKey

(* Both ends come to the same secret.                                      *)
LEMMA SecretCommutes == \A a, b : Secret(a, b) = Secret(b, a)
BY DEF Secret

(* A fresh key encrypts, and its nonce moves on.                           *)
LEMMA FreshKeySeals ==
  ASSUME NEW ck, NEW ad, NEW plain
  PROVE  EncryptWithAd(MessageKey(ck), ad, plain)
           = [cipher |-> Used(MessageKey(ck)), text |-> Seal(MessageKey(ck), ad, plain),
              err |-> "NONE"]
BY NonceAssumption, NamesDiffer DEF EncryptWithAd, MessageKey, InitKey, Used, HasKey

LEMMA FreshKeyOpens ==
  ASSUME NEW ck, NEW ad, NEW plain
  PROVE  DecryptWithAd(MessageKey(ck), ad, Seal(MessageKey(ck), ad, plain))
           = [cipher |-> Used(MessageKey(ck)), plain |-> plain, err |-> "NONE"]
BY NonceAssumption, NamesDiffer DEF DecryptWithAd, MessageKey, InitKey, Used, HasKey, Seal

(* Another key does not open it.                                           *)
LEMMA OtherKeyFails ==
  ASSUME NEW ck, NEW ck2, ck # ck2, NEW ad, NEW ad2, NEW plain
  PROVE  DecryptWithAd(MessageKey(ck), ad, Seal(MessageKey(ck2), ad2, plain)).err = "MAC_FAILURE"
BY NonceAssumption, NamesDiffer DEF DecryptWithAd, MessageKey, InitKey, HasKey, Seal, Key

LEMMA StartClient ==
  ASSUME NEW k, k # None
  PROVE  Start(Keyed(k))
           = [hs |-> HandshakeState("INITIATOR", "WRITE_MESSAGE", PatternIK,
                                    Begun(k), <<>>, InitKey(NoKey),
                                    Machine, None, k, None),
              err |-> "NONE"]
BY NamesDiffer DEF Start, Keyed, HandshakeState, Fails, MixHash, Prologue, Begun

LEMMA StartServer ==
  ASSUME NEW k, k # None
  PROVE  Start([NewHandshake("RESPONDER") EXCEPT !.s = k])
           = [hs |-> HandshakeState("RESPONDER", "READ_MESSAGE", PatternIK,
                                    Begun(k), <<>>, InitKey(NoKey),
                                    k, None, None, None),
              err |-> "NONE"]
BY NamesDiffer DEF Start, NewHandshake, HandshakeState, Fails, MixHash, Prologue, Begun

(* How the steps of the handshake change its state.                        *)
LEMMA StateChanges ==
  ASSUME NEW role, NEW action, NEW tokens, NEW h, NEW ck, NEW cipher,
         NEW s, NEW e, NEW rs, NEW re, NEW x
  PROVE  LET hs0 == HandshakeState(role, action, tokens, h, ck, cipher, s, e, rs, re)
         IN  /\ MixHash(hs0, x)
                  = HandshakeState(role, action, tokens, Append(h, x), ck, cipher, s, e, rs, re)
             /\ MixKey(hs0, x)
                  = HandshakeState(role, action, tokens, h, Append(ck, x),
                                   MessageKey(Append(ck, x)), s, e, rs, re)
             /\ [hs0 EXCEPT !.e = x]
                  = HandshakeState(role, action, tokens, h, ck, cipher, s, x, rs, re)
             /\ [hs0 EXCEPT !.rs = x]
                  = HandshakeState(role, action, tokens, h, ck, cipher, s, e, x, re)
             /\ [hs0 EXCEPT !.re = x]
                  = HandshakeState(role, action, tokens, h, ck, cipher, s, e, rs, x)
             /\ [hs0 EXCEPT !.cipher = x]
                  = HandshakeState(role, action, tokens, h, ck, x, s, e, rs, re)
             /\ [hs0 EXCEPT !.action = x]
                  = HandshakeState(role, x, tokens, h, ck, cipher, s, e, rs, re)
<1> DEFINE hs0 == HandshakeState(role, action, tokens, h, ck, cipher, s, e, rs, re)
<1>1. MixHash(hs0, x)
        = HandshakeState(role, action, tokens, Append(h, x), ck, cipher, s, e, rs, re)
  BY DEF HandshakeState, MixHash
<1>2. MixKey(hs0, x)
        = HandshakeState(role, action, tokens, h, Append(ck, x),
                         MessageKey(Append(ck, x)), s, e, rs, re)
  <2> DEFINE key == Append(ck, x)
  <2>1. [hs0 EXCEPT !.ck = key]
          = HandshakeState(role, action, tokens, h, key, cipher, s, e, rs, re)
    BY DEF HandshakeState
  <2>2. [HandshakeState(role, action, tokens, h, key, cipher, s, e, rs, re)
           EXCEPT !.cipher = MessageKey(key)]
          = HandshakeState(role, action, tokens, h, key, MessageKey(key), s, e, rs, re)
    BY DEF HandshakeState
  <2>3. MixKey(hs0, x) = [[hs0 EXCEPT !.ck = key] EXCEPT !.cipher = MessageKey(key)]
    BY DEF HandshakeState, MixKey, MessageKey
  <2> QED BY <2>1, <2>2, <2>3
<1>3. /\ [hs0 EXCEPT !.e = x]
           = HandshakeState(role, action, tokens, h, ck, cipher, s, x, rs, re)
      /\ [hs0 EXCEPT !.rs = x]
           = HandshakeState(role, action, tokens, h, ck, cipher, s, e, x, re)
      /\ [hs0 EXCEPT !.re = x]
           = HandshakeState(role, action, tokens, h, ck, cipher, s, e, rs, x)
  BY DEF HandshakeState
<1>4. /\ [hs0 EXCEPT !.cipher = x]
           = HandshakeState(role, action, tokens, h, ck, x, s, e, rs, re)
      /\ [hs0 EXCEPT !.action = x]
           = HandshakeState(role, x, tokens, h, ck, cipher, s, e, rs, re)
  BY DEF HandshakeState
<1> QED BY <1>1, <1>2, <1>3, <1>4

LEMMA StateFields ==
  ASSUME NEW role, NEW action, NEW tokens, NEW h, NEW ck, NEW cipher,
         NEW s, NEW e, NEW rs, NEW re
  PROVE  LET hs0 == HandshakeState(role, action, tokens, h, ck, cipher, s, e, rs, re)
         IN  /\ hs0.role = role /\ hs0.action = action /\ hs0.tokens = tokens
             /\ hs0.h = h /\ hs0.ck = ck /\ hs0.cipher = cipher
             /\ hs0.s = s /\ hs0.e = e /\ hs0.rs = rs /\ hs0.re = re
BY DEF HandshakeState

(* What each token writes.                                                 *)
LEMMA WriteIs ==
  ASSUME NEW hs0, NEW out, NEW new
  PROVE  LET acc == [hs |-> hs0, out |-> out, err |-> "NONE"]
         IN  /\ WriteToken(acc, "e", new)
                  = [hs |-> MixHash([hs0 EXCEPT !.e = new], new), out |-> Append(out, new),
                     err |-> "NONE"]
             /\ WriteToken(acc, "s", new)
                  = [hs |-> EncryptAndHash(hs0, hs0.s).hs,
                     out |-> Append(out, EncryptAndHash(hs0, hs0.s).text),
                     err |-> EncryptAndHash(hs0, hs0.s).err]
             /\ \A token \in {"es", "ss", "ee", "se"} :
                  WriteToken(acc, token, new)
                    = [hs |-> MixDH(hs0, token).hs, out |-> out, err |-> MixDH(hs0, token).err]
BY DEF WriteToken, Fails

(* The loop over the tokens of a message, unrolled: the function it is      *)
(* defined by exists.                                                      *)
LEMMA WriteAll ==
  ASSUME NEW acc0, NEW acc1, NEW acc2, NEW acc3, NEW acc4, NEW new
  PROVE  /\ /\ WriteToken(acc0, "e", new) = acc1 /\ WriteToken(acc1, "es", new) = acc2
            /\ WriteToken(acc2, "s", new) = acc3 /\ WriteToken(acc3, "ss", new) = acc4
            => WriteTokens(acc0, <<"e", "es", "s", "ss">>, new) = acc4
         /\ /\ WriteToken(acc0, "e", new) = acc1 /\ WriteToken(acc1, "ee", new) = acc2
            /\ WriteToken(acc2, "se", new) = acc3
            => WriteTokens(acc0, <<"e", "ee", "se">>, new) = acc3
<1>1. ASSUME WriteToken(acc0, "e", new) = acc1, WriteToken(acc1, "es", new) = acc2,
            WriteToken(acc2, "s", new) = acc3, WriteToken(acc3, "ss", new) = acc4
     PROVE  WriteTokens(acc0, <<"e", "es", "s", "ss">>, new) = acc4
  <2> DEFINE tokens == <<"e", "es", "s", "ss">>
             Is(g) == g = [i \in 0 .. Len(tokens) |->
                             IF i = 0 THEN acc0 ELSE WriteToken(g[i - 1], tokens[i], new)]
             done == [i \in 0 .. 4 |->
                        IF i = 0 THEN acc0 ELSE IF i = 1 THEN acc1 ELSE IF i = 2 THEN acc2
                        ELSE IF i = 3 THEN acc3 ELSE acc4]
  <2>1. /\ Len(tokens) = 4
        /\ tokens[1] = "e" /\ tokens[2] = "es" /\ tokens[3] = "s" /\ tokens[4] = "ss"
    OBVIOUS
  <2>2. WriteTokens(acc0, tokens, new) = (CHOOSE g : Is(g))[Len(tokens)]
    BY Zenon DEF WriteTokens
  <2> HIDE DEF tokens
  <2>3. Is(done)
    <3>1. \A i \in 0 .. 4 :
            done[i] = IF i = 0 THEN acc0 ELSE WriteToken(done[i - 1], tokens[i], new)
      <4> SUFFICES ASSUME NEW i \in 0 .. 4
                   PROVE  done[i] = IF i = 0 THEN acc0 ELSE WriteToken(done[i - 1], tokens[i], new)
        OBVIOUS
      <4>1. i = 0 \/ i = 1 \/ i = 2 \/ i = 3 \/ i = 4
        OBVIOUS
      <4> QED BY <1>1, <2>1, <4>1
    <3> QED BY <2>1, <3>1
  <2>4. PICK f : f = (CHOOSE g : Is(g))
    OBVIOUS
  <2>5. Is(f)
    BY <2>3, <2>4, Zenon
  <2>6. f[0] = acc0
    BY <2>1, <2>5
  <2>7. f[1] = acc1
    BY <1>1, <2>1, <2>5, <2>6
  <2>8. f[2] = acc2
    BY <1>1, <2>1, <2>5, <2>7
  <2>9. f[3] = acc3
    BY <1>1, <2>1, <2>5, <2>8
  <2>10. f[4] = acc4
    BY <1>1, <2>1, <2>5, <2>9
  <2> QED BY <2>1, <2>2, <2>4, <2>10 DEF tokens
<1>2. ASSUME WriteToken(acc0, "e", new) = acc1, WriteToken(acc1, "ee", new) = acc2,
            WriteToken(acc2, "se", new) = acc3
     PROVE  WriteTokens(acc0, <<"e", "ee", "se">>, new) = acc3
  <2> DEFINE tokens == <<"e", "ee", "se">>
             Is(g) == g = [i \in 0 .. Len(tokens) |->
                             IF i = 0 THEN acc0 ELSE WriteToken(g[i - 1], tokens[i], new)]
             done == [i \in 0 .. 3 |->
                        IF i = 0 THEN acc0 ELSE IF i = 1 THEN acc1 ELSE IF i = 2 THEN acc2
                        ELSE acc3]
  <2>1. /\ Len(tokens) = 3
        /\ tokens[1] = "e" /\ tokens[2] = "ee" /\ tokens[3] = "se"
    OBVIOUS
  <2>2. WriteTokens(acc0, tokens, new) = (CHOOSE g : Is(g))[Len(tokens)]
    BY Zenon DEF WriteTokens
  <2> HIDE DEF tokens
  <2>3. Is(done)
    <3>1. \A i \in 0 .. 3 :
            done[i] = IF i = 0 THEN acc0 ELSE WriteToken(done[i - 1], tokens[i], new)
      <4> SUFFICES ASSUME NEW i \in 0 .. 3
                   PROVE  done[i] = IF i = 0 THEN acc0 ELSE WriteToken(done[i - 1], tokens[i], new)
        OBVIOUS
      <4>1. i = 0 \/ i = 1 \/ i = 2 \/ i = 3
        OBVIOUS
      <4> QED BY <1>2, <2>1, <4>1
    <3> QED BY <2>1, <3>1
  <2>4. PICK f : f = (CHOOSE g : Is(g))
    OBVIOUS
  <2>5. Is(f)
    BY <2>3, <2>4, Zenon
  <2>6. f[0] = acc0
    BY <2>1, <2>5
  <2>7. f[1] = acc1
    BY <1>2, <2>1, <2>5, <2>6
  <2>8. f[2] = acc2
    BY <1>2, <2>1, <2>5, <2>7
  <2>9. f[3] = acc3
    BY <1>2, <2>1, <2>5, <2>8
  <2> QED BY <2>1, <2>2, <2>4, <2>9 DEF tokens
<1> QED BY <1>1, <1>2

(* Encrypting with a key that is new.                                      *)
LEMMA SealedIs ==
  ASSUME NEW role, NEW action, NEW tokens, NEW h, NEW ck, NEW k2,
         NEW s, NEW e, NEW rs, NEW re, NEW plain
  PROVE  LET hs0 == HandshakeState(role, action, tokens, h, ck, MessageKey(k2), s, e, rs, re)
             text == Seal(MessageKey(k2), h, plain)
             hs1 == HandshakeState(role, action, tokens, Append(h, text), ck,
                                   Used(MessageKey(k2)), s, e, rs, re)
         IN  /\ EncryptAndHash(hs0, plain) = [hs |-> hs1, text |-> text, err |-> "NONE"]
             /\ DecryptAndHash(hs0, text) = [hs |-> hs1, plain |-> plain, err |-> "NONE"]
<1> DEFINE hs0 == HandshakeState(role, action, tokens, h, ck, MessageKey(k2), s, e, rs, re)
           text == Seal(MessageKey(k2), h, plain)
           hs1 == HandshakeState(role, action, tokens, Append(h, text), ck,
                                 Used(MessageKey(k2)), s, e, rs, re)
<1>1. hs0.cipher = MessageKey(k2) /\ hs0.h = h
  BY StateFields
<1>2. MixHash([hs0 EXCEPT !.cipher = Used(MessageKey(k2))], text) = hs1
  <2>1. [hs0 EXCEPT !.cipher = Used(MessageKey(k2))]
          = HandshakeState(role, action, tokens, h, ck, Used(MessageKey(k2)), s, e, rs, re)
    BY DEF HandshakeState
  <2> HIDE DEF hs0, text
  <2> QED BY <2>1, StateChanges
<1> HIDE DEF hs0, text, hs1
<1>3. EncryptWithAd(MessageKey(k2), h, plain)
        = [cipher |-> Used(MessageKey(k2)), text |-> text, err |-> "NONE"]
  BY FreshKeySeals DEF text
<1>4. DecryptWithAd(MessageKey(k2), h, text)
        = [cipher |-> Used(MessageKey(k2)), plain |-> plain, err |-> "NONE"]
  BY FreshKeyOpens DEF text
<1>5. EncryptAndHash(hs0, plain) = [hs |-> hs1, text |-> text, err |-> "NONE"]
  BY <1>1, <1>2, <1>3 DEF EncryptAndHash, Fails
<1>6. DecryptAndHash(hs0, text) = [hs |-> hs1, plain |-> plain, err |-> "NONE"]
  BY <1>1, <1>2, <1>4 DEF DecryptAndHash, Fails
<1> QED BY <1>5, <1>6 DEF hs0, text, hs1

(* The secrets that the tokens mix into the chaining key.                  *)
LEMMA MixClient ==
  ASSUME NEW action, NEW tokens, NEW h, NEW ck, NEW cipher, NEW s, NEW e, NEW rs, NEW re
  PROVE  LET At(key) == HandshakeState("INITIATOR", action, tokens, h, key, MessageKey(key),
                                       s, e, rs, re)
             hs0 == HandshakeState("INITIATOR", action, tokens, h, ck, cipher, s, e, rs, re)
         IN  /\ e # None => MixDH(hs0, "es")
                              = [hs |-> At(Append(ck, Secret(e, rs))), err |-> "NONE"]
             /\ s # None => MixDH(hs0, "ss")
                              = [hs |-> At(Append(ck, Secret(s, rs))), err |-> "NONE"]
             /\ e # None => MixDH(hs0, "ee")
                              = [hs |-> At(Append(ck, Secret(e, re))), err |-> "NONE"]
             /\ s # None => MixDH(hs0, "se")
                              = [hs |-> At(Append(ck, Secret(s, re))), err |-> "NONE"]
<1> DEFINE hs0 == HandshakeState("INITIATOR", action, tokens, h, ck, cipher, s, e, rs, re)
           At(key) == HandshakeState("INITIATOR", action, tokens, h, key, MessageKey(key),
                                     s, e, rs, re)
<1>1. /\ hs0.role = "INITIATOR" /\ hs0.s = s /\ hs0.e = e /\ hs0.rs = rs /\ hs0.re = re
      /\ \A x : MixKey(hs0, x) = At(Append(ck, x))
  BY StateChanges, StateFields
<1> HIDE DEF hs0, At
<1>2. /\ e # None => MixDH(hs0, "es") = [hs |-> At(Append(ck, Secret(e, rs))), err |-> "NONE"]
      /\ s # None => MixDH(hs0, "ss") = [hs |-> At(Append(ck, Secret(s, rs))), err |-> "NONE"]
      /\ e # None => MixDH(hs0, "ee") = [hs |-> At(Append(ck, Secret(e, re))), err |-> "NONE"]
      /\ s # None => MixDH(hs0, "se") = [hs |-> At(Append(ck, Secret(s, re))), err |-> "NONE"]
  BY <1>1 DEF MixDH
<1> QED BY <1>2 DEF hs0, At

LEMMA MixServer ==
  ASSUME NEW action, NEW tokens, NEW h, NEW ck, NEW cipher, NEW s, NEW e, NEW rs, NEW re
  PROVE  LET At(key) == HandshakeState("RESPONDER", action, tokens, h, key, MessageKey(key),
                                       s, e, rs, re)
             hs0 == HandshakeState("RESPONDER", action, tokens, h, ck, cipher, s, e, rs, re)
         IN  /\ s # None => MixDH(hs0, "es")
                              = [hs |-> At(Append(ck, Secret(s, re))), err |-> "NONE"]
             /\ s # None => MixDH(hs0, "ss")
                              = [hs |-> At(Append(ck, Secret(s, rs))), err |-> "NONE"]
             /\ e # None => MixDH(hs0, "ee")
                              = [hs |-> At(Append(ck, Secret(e, re))), err |-> "NONE"]
             /\ e # None => MixDH(hs0, "se")
                              = [hs |-> At(Append(ck, Secret(e, rs))), err |-> "NONE"]
<1> DEFINE hs0 == HandshakeState("RESPONDER", action, tokens, h, ck, cipher, s, e, rs, re)
           At(key) == HandshakeState("RESPONDER", action, tokens, h, key, MessageKey(key),
                                     s, e, rs, re)
<1>1. /\ hs0.role = "RESPONDER" /\ hs0.s = s /\ hs0.e = e /\ hs0.rs = rs /\ hs0.re = re
      /\ \A x : MixKey(hs0, x) = At(Append(ck, x))
  BY StateChanges, StateFields
<1> HIDE DEF hs0, At
<1>2. /\ s # None => MixDH(hs0, "es") = [hs |-> At(Append(ck, Secret(s, re))), err |-> "NONE"]
      /\ s # None => MixDH(hs0, "ss") = [hs |-> At(Append(ck, Secret(s, rs))), err |-> "NONE"]
      /\ e # None => MixDH(hs0, "ee") = [hs |-> At(Append(ck, Secret(e, re))), err |-> "NONE"]
      /\ e # None => MixDH(hs0, "se") = [hs |-> At(Append(ck, Secret(e, rs))), err |-> "NONE"]
  BY <1>1 DEF MixDH
<1> QED BY <1>2 DEF hs0, At

(* The direction turns after the first message, and the second is the last.*)
LEMMA TurnedIs ==
  ASSUME NEW hs0, NEW next
  PROVE  /\ hs0.tokens = PatternIK =>
              Turned(hs0, next) = [hs0 EXCEPT !.tokens = SecondTokens, !.action = next]
         /\ hs0.tokens = SecondTokens =>
              Turned(hs0, next) = [hs0 EXCEPT !.tokens = <<"end">>, !.action = "SPLIT"]
<1>1. ASSUME hs0.tokens = PatternIK
      PROVE  Turned(hs0, next) = [hs0 EXCEPT !.tokens = SecondTokens, !.action = next]
  <2>1. PICK n : n = MessageLength(hs0.tokens) + 1
    OBVIOUS
  <2>2. n = 5 /\ n + 1 = 6
    BY <1>1, <2>1, FirstLength
  <2>3. hs0.tokens[n] # "end" /\ SubSeq(hs0.tokens, n + 1, Len(hs0.tokens)) = SecondTokens
    BY <1>1, <2>2, Tails
  <2> QED BY <2>1, <2>3 DEF Turned
<1>2. ASSUME hs0.tokens = SecondTokens
      PROVE  Turned(hs0, next) = [hs0 EXCEPT !.tokens = <<"end">>, !.action = "SPLIT"]
  <2>1. PICK n : n = MessageLength(hs0.tokens) + 1
    OBVIOUS
  <2>2. n = 4
    BY <1>2, <2>1, SecondLength
  <2>3. hs0.tokens[n] = "end" /\ SubSeq(hs0.tokens, n, Len(hs0.tokens)) = <<"end">>
    BY <1>2, <2>2, Tails
  <2> QED BY <2>1, <2>3 DEF Turned
<1> QED BY <1>1, <1>2

LEMMA TurnedState ==
  ASSUME NEW role, NEW action, NEW tokens, NEW h, NEW ck, NEW cipher,
         NEW s, NEW e, NEW rs, NEW re, NEW next
  PROVE  /\ Turned(HandshakeState(role, action, PatternIK, h, ck, cipher, s, e, rs, re), next)
              = HandshakeState(role, next, SecondTokens, h, ck, cipher, s, e, rs, re)
         /\ Turned(HandshakeState(role, action, SecondTokens, h, ck, cipher, s, e, rs, re), next)
              = HandshakeState(role, "SPLIT", <<"end">>, h, ck, cipher, s, e, rs, re)
<1>1. ASSUME NEW x, NEW y, NEW t
      PROVE  [HandshakeState(role, action, t, h, ck, cipher, s, e, rs, re)
                EXCEPT !.tokens = x, !.action = y]
               = HandshakeState(role, y, x, h, ck, cipher, s, e, rs, re)
  <2> DEFINE hs0 == HandshakeState(role, action, t, h, ck, cipher, s, e, rs, re)
  <2>1. [hs0 EXCEPT !.tokens = x, !.action = y] = [[hs0 EXCEPT !.tokens = x] EXCEPT !.action = y]
    BY DEF HandshakeState
  <2>2. [hs0 EXCEPT !.tokens = x] = HandshakeState(role, action, x, h, ck, cipher, s, e, rs, re)
    BY DEF HandshakeState
  <2>3. [HandshakeState(role, action, x, h, ck, cipher, s, e, rs, re) EXCEPT !.action = y]
          = HandshakeState(role, y, x, h, ck, cipher, s, e, rs, re)
    BY DEF HandshakeState
  <2> QED BY <2>1, <2>2, <2>3
<1> DEFINE At(t) == HandshakeState(role, action, t, h, ck, cipher, s, e, rs, re)
<1>2. At(PatternIK).tokens = PatternIK /\ At(SecondTokens).tokens = SecondTokens
  BY StateFields
<1>3. Turned(At(PatternIK), next)
        = [At(PatternIK) EXCEPT !.tokens = SecondTokens, !.action = next]
  BY <1>2, TurnedIs
<1>4. Turned(At(SecondTokens), next)
        = [At(SecondTokens) EXCEPT !.tokens = <<"end">>, !.action = "SPLIT"]
  BY <1>2, TurnedIs
<1>5. [At(PatternIK) EXCEPT !.tokens = SecondTokens, !.action = next]
        = HandshakeState(role, next, SecondTokens, h, ck, cipher, s, e, rs, re)
  BY <1>1
<1>6. [At(SecondTokens) EXCEPT !.tokens = <<"end">>, !.action = "SPLIT"]
        = HandshakeState(role, "SPLIT", <<"end">>, h, ck, cipher, s, e, rs, re)
  BY <1>1
<1> QED BY <1>3, <1>4, <1>5, <1>6

(* A message whose tokens and payload are written without an error.        *)
LEMMA MessageWritten ==
  ASSUME NEW hs0, NEW new, NEW hs1, NEW out, NEW hs2, NEW text,
         hs0.action = "WRITE_MESSAGE",
         WriteTokens([hs |-> hs0, out |-> <<>>, err |-> "NONE"], MessageTokens(hs0), new)
           = [hs |-> hs1, out |-> out, err |-> "NONE"],
         EncryptAndHash(hs1, None) = [hs |-> hs2, text |-> text, err |-> "NONE"]
  PROVE  WriteMessage(hs0, new)
           = [hs |-> Turned(hs2, "READ_MESSAGE"), out |-> Append(out, text), err |-> "NONE"]
BY DEF WriteMessage, Fails

(* The client writes its first message.                                    *)
LEMMA WriteFirst ==
  ASSUME NEW k, NEW c
  PROVE  WriteMessage(HandshakeState("INITIATOR", "WRITE_MESSAGE", PatternIK, Begun(k), <<>>,
                                     InitKey(NoKey), Machine, None, k, None), ClientKey(c))
           = [hs |-> Waiting(k, c), out |-> FirstMessage(k, c), err |-> "NONE"]
<1> DEFINE e == ClientKey(c)
           At(h, ck, cipher, eph) ==
             HandshakeState("INITIATOR", "WRITE_MESSAGE", PatternIK, h, ck, cipher,
                            Machine, eph, k, None)
           S0 == At(Begun(k), <<>>, InitKey(NoKey), None)
           S1 == At(Append(Begun(k), e), <<>>, InitKey(NoKey), e)
           S2 == At(Append(Begun(k), e), AfterES(k, c), MessageKey(AfterES(k, c)), e)
           S3 == At(Introduced(k, c), AfterES(k, c), Used(MessageKey(AfterES(k, c))), e)
           S4 == At(Introduced(k, c), AfterSS(k, c), MessageKey(AfterSS(k, c)), e)
           S5 == At(FirstHash(k, c), AfterSS(k, c), Used(MessageKey(AfterSS(k, c))), e)
           Acc(state, out) == [hs |-> state, out |-> out, err |-> "NONE"]
<1>1. MixHash([S0 EXCEPT !.e = e], e) = S1
  <2>1. [S0 EXCEPT !.e = e] = At(Begun(k), <<>>, InitKey(NoKey), e)
    BY DEF HandshakeState
  <2> HIDE DEF S0
  <2> QED BY <2>1, StateChanges
<1>2. MixDH(S1, "es") = [hs |-> S2, err |-> "NONE"]
  <2>1. e # None
    BY NamesDiffer
  <2> HIDE DEF e
  <2>2. PICK z : z = <<>>
    OBVIOUS
  <2>3. MixDH(At(Append(Begun(k), e), z, InitKey(NoKey), e), "es")
          = [hs |-> At(Append(Begun(k), e), Append(z, Secret(e, k)),
                       MessageKey(Append(z, Secret(e, k))), e), err |-> "NONE"]
    BY <2>1, MixClient
  <2>4. Append(z, Secret(e, k)) = AfterES(k, c)
    BY <2>2 DEF AfterES, e
  <2> QED BY <2>2, <2>3, <2>4
<1>3. EncryptAndHash(S2, Machine) = [hs |-> S3, text |-> SealedMachine(k, c), err |-> "NONE"]
  BY SealedIs DEF SealedMachine, Introduced
<1>4. MixDH(S3, "ss") = [hs |-> S4, err |-> "NONE"]
  BY MixClient, NamesDiffer DEF AfterSS
<1>5. EncryptAndHash(S4, None) = [hs |-> S5, text |-> FirstPayload(k, c), err |-> "NONE"]
  BY SealedIs DEF FirstPayload, FirstHash
<1>6. S2.s = Machine /\ S0.tokens = PatternIK /\ S5.tokens = PatternIK
      /\ S0.action = "WRITE_MESSAGE"
  BY StateFields
<1>7. Turned(S5, "READ_MESSAGE") = Waiting(k, c)
  BY TurnedState DEF Waiting
<1> HIDE DEF S0, S1, S2, S3, S4, S5
<1>8. WriteToken(Acc(S0, <<>>), "e", e) = Acc(S1, <<e>>)
  BY <1>1, TupleAppend DEF WriteToken, Fails
<1>9. WriteToken(Acc(S1, <<e>>), "es", e) = Acc(S2, <<e>>)
  BY <1>2 DEF WriteToken, Fails
<1>10. WriteToken(Acc(S2, <<e>>), "s", e) = Acc(S3, <<e, SealedMachine(k, c)>>)
  BY <1>3, <1>6, TupleAppend DEF WriteToken, Fails
<1>11. WriteToken(Acc(S3, <<e, SealedMachine(k, c)>>), "ss", e)
         = Acc(S4, <<e, SealedMachine(k, c)>>)
  BY <1>4 DEF WriteToken, Fails
<1>12. WriteTokens(Acc(S0, <<>>), MessageTokens(S0), e) = Acc(S4, <<e, SealedMachine(k, c)>>)
  <2>1. MessageTokens(S0) = <<"e", "es", "s", "ss">>
    BY <1>6, Tokens
  <2> HIDE DEF Acc
  <2> QED BY <1>8, <1>9, <1>10, <1>11, <2>1, WriteAll
<1>13. Append(<<e, SealedMachine(k, c)>>, FirstPayload(k, c)) = FirstMessage(k, c)
  BY TupleAppend DEF FirstMessage
<1>14. WriteMessage(S0, e) = Acc(Waiting(k, c), FirstMessage(k, c))
  <2>1. PICK out, text : out = <<e, SealedMachine(k, c)>> /\ text = FirstPayload(k, c)
    OBVIOUS
  <2>2. WriteMessage(S0, e)
          = [hs |-> Turned(S5, "READ_MESSAGE"), out |-> Append(out, text), err |-> "NONE"]
    <3>1. /\ S0.action = "WRITE_MESSAGE"
          /\ EncryptAndHash(S4, None) = [hs |-> S5, text |-> text, err |-> "NONE"]
      BY <1>5, <1>6, <2>1
    <3>2. WriteTokens([hs |-> S0, out |-> <<>>, err |-> "NONE"], MessageTokens(S0), e)
            = [hs |-> S4, out |-> out, err |-> "NONE"]
      BY <1>12, <2>1
    <3> HIDE DEF e
    <3> QED BY <3>1, <3>2, MessageWritten
  <2> QED BY <1>7, <1>13, <2>1, <2>2
<1> QED BY <1>14 DEF S0

(* What each token reads.                                                  *)
LEMMA ReadIs ==
  ASSUME NEW hs0, NEW in
  PROVE  LET acc == [hs |-> hs0, in |-> in, err |-> "NONE"]
         IN  /\ in # <<>> => ReadToken(acc, "e")
                  = [hs |-> [MixHash(hs0, Head(in)) EXCEPT !.re = Head(in)], in |-> Tail(in),
                     err |-> "NONE"]
             /\ in # <<>> /\ ~Fails(DecryptAndHash(hs0, Head(in)).err) => ReadToken(acc, "s")
                  = [hs |-> [DecryptAndHash(hs0, Head(in)).hs
                               EXCEPT !.rs = DecryptAndHash(hs0, Head(in)).plain],
                     in |-> Tail(in), err |-> DecryptAndHash(hs0, Head(in)).err]
             /\ in # <<>> => ReadToken(acc, "s").err = DecryptAndHash(hs0, Head(in)).err
             /\ \A token \in {"es", "ss", "ee", "se"} :
                  ReadToken(acc, token)
                    = [hs |-> MixDH(hs0, token).hs, in |-> in, err |-> MixDH(hs0, token).err]
BY ZenonT(60) DEF ReadToken, Fails

LEMMA ReadMix ==
  ASSUME NEW hs0, NEW in, NEW token \in {"es", "ss", "ee", "se"}, NEW hs1,
         MixDH(hs0, token) = [hs |-> hs1, err |-> "NONE"]
  PROVE  ReadToken([hs |-> hs0, in |-> in, err |-> "NONE"], token)
           = [hs |-> hs1, in |-> in, err |-> "NONE"]
<1>1. MixDH(hs0, token).hs = hs1 /\ MixDH(hs0, token).err = "NONE"
  OBVIOUS
<1> QED BY <1>1, ReadIs, ZenonT(40)

LEMMA ReadSealed ==
  ASSUME NEW hs0, NEW in, in # <<>>, NEW hs1, NEW plain,
         DecryptAndHash(hs0, Head(in)) = [hs |-> hs1, plain |-> plain, err |-> "NONE"]
  PROVE  ReadToken([hs |-> hs0, in |-> in, err |-> "NONE"], "s")
           = [hs |-> [hs1 EXCEPT !.rs = plain], in |-> Tail(in), err |-> "NONE"]
<1> DEFINE r == DecryptAndHash(hs0, Head(in))
<1>1. r.hs = hs1 /\ r.plain = plain /\ r.err = "NONE"
  OBVIOUS
<1>2. ReadToken([hs |-> hs0, in |-> in, err |-> "NONE"], "s")
        = [hs |-> [r.hs EXCEPT !.rs = r.plain], in |-> Tail(in), err |-> r.err]
  <2>1. ~Fails(r.err)
    BY <1>1 DEF Fails
  <2> HIDE DEF r
  <2> QED BY <2>1, ReadIs DEF r
<1> HIDE DEF r
<1> QED BY <1>1, <1>2

LEMMA ReadAll ==
  ASSUME NEW acc0, NEW acc1, NEW acc2, NEW acc3, NEW acc4
  PROVE  /\ /\ ReadToken(acc0, "e") = acc1 /\ ReadToken(acc1, "es") = acc2
            /\ ReadToken(acc2, "s") = acc3 /\ ReadToken(acc3, "ss") = acc4
            => ReadTokens(acc0, <<"e", "es", "s", "ss">>) = acc4
         /\ /\ ReadToken(acc0, "e") = acc1 /\ ReadToken(acc1, "ee") = acc2
            /\ ReadToken(acc2, "se") = acc3
            => ReadTokens(acc0, <<"e", "ee", "se">>) = acc3
<1>1. ASSUME ReadToken(acc0, "e") = acc1, ReadToken(acc1, "es") = acc2,
            ReadToken(acc2, "s") = acc3, ReadToken(acc3, "ss") = acc4
     PROVE  ReadTokens(acc0, <<"e", "es", "s", "ss">>) = acc4
  <2> DEFINE tokens == <<"e", "es", "s", "ss">>
             Is(g) == g = [i \in 0 .. Len(tokens) |->
                             IF i = 0 THEN acc0 ELSE ReadToken(g[i - 1], tokens[i])]
             done == [i \in 0 .. 4 |->
                        IF i = 0 THEN acc0 ELSE IF i = 1 THEN acc1 ELSE IF i = 2 THEN acc2
                        ELSE IF i = 3 THEN acc3 ELSE acc4]
  <2>1. /\ Len(tokens) = 4
        /\ tokens[1] = "e" /\ tokens[2] = "es" /\ tokens[3] = "s" /\ tokens[4] = "ss"
    OBVIOUS
  <2>2. ReadTokens(acc0, tokens) = (CHOOSE g : Is(g))[Len(tokens)]
    BY Zenon DEF ReadTokens
  <2> HIDE DEF tokens
  <2>3. Is(done)
    <3>1. \A i \in 0 .. 4 :
            done[i] = IF i = 0 THEN acc0 ELSE ReadToken(done[i - 1], tokens[i])
      <4> SUFFICES ASSUME NEW i \in 0 .. 4
                   PROVE  done[i] = IF i = 0 THEN acc0 ELSE ReadToken(done[i - 1], tokens[i])
        OBVIOUS
      <4>1. i = 0 \/ i = 1 \/ i = 2 \/ i = 3 \/ i = 4
        OBVIOUS
      <4> QED BY <1>1, <2>1, <4>1
    <3> QED BY <2>1, <3>1
  <2>4. PICK f : f = (CHOOSE g : Is(g))
    OBVIOUS
  <2>5. Is(f)
    BY <2>3, <2>4, Zenon
  <2>6. f[0] = acc0
    BY <2>1, <2>5
  <2>7. f[1] = acc1
    BY <1>1, <2>1, <2>5, <2>6
  <2>8. f[2] = acc2
    BY <1>1, <2>1, <2>5, <2>7
  <2>9. f[3] = acc3
    BY <1>1, <2>1, <2>5, <2>8
  <2>10. f[4] = acc4
    BY <1>1, <2>1, <2>5, <2>9
  <2> QED BY <2>1, <2>2, <2>4, <2>10 DEF tokens
<1>2. ASSUME ReadToken(acc0, "e") = acc1, ReadToken(acc1, "ee") = acc2,
            ReadToken(acc2, "se") = acc3
     PROVE  ReadTokens(acc0, <<"e", "ee", "se">>) = acc3
  <2> DEFINE tokens == <<"e", "ee", "se">>
             Is(g) == g = [i \in 0 .. Len(tokens) |->
                             IF i = 0 THEN acc0 ELSE ReadToken(g[i - 1], tokens[i])]
             done == [i \in 0 .. 3 |->
                        IF i = 0 THEN acc0 ELSE IF i = 1 THEN acc1 ELSE IF i = 2 THEN acc2
                        ELSE acc3]
  <2>1. /\ Len(tokens) = 3
        /\ tokens[1] = "e" /\ tokens[2] = "ee" /\ tokens[3] = "se"
    OBVIOUS
  <2>2. ReadTokens(acc0, tokens) = (CHOOSE g : Is(g))[Len(tokens)]
    BY Zenon DEF ReadTokens
  <2> HIDE DEF tokens
  <2>3. Is(done)
    <3>1. \A i \in 0 .. 3 :
            done[i] = IF i = 0 THEN acc0 ELSE ReadToken(done[i - 1], tokens[i])
      <4> SUFFICES ASSUME NEW i \in 0 .. 3
                   PROVE  done[i] = IF i = 0 THEN acc0 ELSE ReadToken(done[i - 1], tokens[i])
        OBVIOUS
      <4>1. i = 0 \/ i = 1 \/ i = 2 \/ i = 3
        OBVIOUS
      <4> QED BY <1>2, <2>1, <4>1
    <3> QED BY <2>1, <3>1
  <2>4. PICK f : f = (CHOOSE g : Is(g))
    OBVIOUS
  <2>5. Is(f)
    BY <2>3, <2>4, Zenon
  <2>6. f[0] = acc0
    BY <2>1, <2>5
  <2>7. f[1] = acc1
    BY <1>2, <2>1, <2>5, <2>6
  <2>8. f[2] = acc2
    BY <1>2, <2>1, <2>5, <2>7
  <2>9. f[3] = acc3
    BY <1>2, <2>1, <2>5, <2>8
  <2> QED BY <2>1, <2>2, <2>4, <2>9 DEF tokens
<1> QED BY <1>1, <1>2

(* A message whose tokens and payload are read without an error.           *)
LEMMA MessageOpened ==
  ASSUME NEW hs0, NEW message, NEW hs1, NEW hs2, NEW text, NEW plain,
         hs0.action = "READ_MESSAGE",
         ReadTokens([hs |-> hs0, in |-> message, err |-> "NONE"], MessageTokens(hs0))
           = [hs |-> hs1, in |-> <<text>>, err |-> "NONE"],
         DecryptAndHash(hs1, text) = [hs |-> hs2, plain |-> plain, err |-> "NONE"]
  PROVE  ReadMessage(hs0, message)
           = [hs |-> Turned(hs2, "WRITE_MESSAGE"), err |-> "NONE"]
<1>1. Len(<<text>>) = 1 /\ <<text>>[1] = text
  OBVIOUS
<1> QED BY <1>1 DEF ReadMessage, Fails

(* The server reads the first message with the key it was meant for.       *)
LEMMA ReadFirst ==
  ASSUME NEW k, k # None, NEW c
  PROVE  ReadMessage(HandshakeState("RESPONDER", "READ_MESSAGE", PatternIK, Begun(k), <<>>,
                                    InitKey(NoKey), k, None, None, None), FirstMessage(k, c))
           = [hs |-> Asked(k, c), err |-> "NONE"]
<1> DEFINE e == ClientKey(c)
           At(h, ck, cipher, rs, re) ==
             HandshakeState("RESPONDER", "READ_MESSAGE", PatternIK, h, ck, cipher,
                            k, None, rs, re)
           S0 == At(Begun(k), <<>>, InitKey(NoKey), None, None)
           S1 == At(Append(Begun(k), e), <<>>, InitKey(NoKey), None, e)
           S2 == At(Append(Begun(k), e), AfterES(k, c), MessageKey(AfterES(k, c)), None, e)
           S3 == At(Introduced(k, c), AfterES(k, c), Used(MessageKey(AfterES(k, c))), Machine, e)
           S4 == At(Introduced(k, c), AfterSS(k, c), MessageKey(AfterSS(k, c)), Machine, e)
           S5 == At(FirstHash(k, c), AfterSS(k, c), Used(MessageKey(AfterSS(k, c))), Machine, e)
           Acc(state, in) == [hs |-> state, in |-> in, err |-> "NONE"]
           T1 == SealedMachine(k, c)
           T2 == FirstPayload(k, c)
<1>1. [MixHash(S0, e) EXCEPT !.re = e] = S1
  <2>1. MixHash(S0, e) = At(Append(Begun(k), e), <<>>, InitKey(NoKey), None, None)
    BY StateChanges
  <2>2. [At(Append(Begun(k), e), <<>>, InitKey(NoKey), None, None) EXCEPT !.re = e] = S1
    BY DEF HandshakeState
  <2> HIDE DEF S0, S1, At
  <2> QED BY <2>1, <2>2
<1>2. MixDH(S1, "es") = [hs |-> S2, err |-> "NONE"]
  <2> HIDE DEF e
  <2>1. PICK z : z = <<>>
    OBVIOUS
  <2>2. MixDH(At(Append(Begun(k), e), z, InitKey(NoKey), None, e), "es")
          = [hs |-> At(Append(Begun(k), e), Append(z, Secret(k, e)),
                       MessageKey(Append(z, Secret(k, e))), None, e), err |-> "NONE"]
    BY MixServer
  <2>3. Append(z, Secret(k, e)) = AfterES(k, c)
    BY <2>1, SecretCommutes DEF AfterES, e
  <2> QED BY <2>1, <2>2, <2>3
<1>3. DecryptAndHash(S2, T1)
        = [hs |-> At(Introduced(k, c), AfterES(k, c), Used(MessageKey(AfterES(k, c))), None, e),
           plain |-> Machine, err |-> "NONE"]
  BY SealedIs DEF SealedMachine, Introduced
<1>4. [At(Introduced(k, c), AfterES(k, c), Used(MessageKey(AfterES(k, c))), None, e)
         EXCEPT !.rs = Machine] = S3
  BY DEF HandshakeState
<1>5. MixDH(S3, "ss") = [hs |-> S4, err |-> "NONE"]
  <2>1. Append(AfterES(k, c), Secret(k, Machine)) = AfterSS(k, c)
    BY SecretCommutes DEF AfterSS
  <2>2. MixDH(S3, "ss")
          = [hs |-> At(Introduced(k, c), Append(AfterES(k, c), Secret(k, Machine)),
                       MessageKey(Append(AfterES(k, c), Secret(k, Machine))), Machine, e),
             err |-> "NONE"]
    BY MixServer
  <2> QED BY <2>1, <2>2
<1>6. DecryptAndHash(S4, T2) = [hs |-> S5, plain |-> None, err |-> "NONE"]
  BY SealedIs DEF FirstPayload, FirstHash
<1>7. S0.tokens = PatternIK /\ S0.action = "READ_MESSAGE"
  BY StateFields
<1>8. Turned(S5, "WRITE_MESSAGE") = Asked(k, c)
  BY TurnedState DEF Asked
<1> HIDE DEF S0, S1, S2, S3, S4, S5, T1, T2
<1>9. ReadToken(Acc(S0, <<e, T1, T2>>), "e") = Acc(S1, <<T1, T2>>)
  <2>1. PICK in : in = <<e, T1, T2>>
    OBVIOUS
  <2>2. in # <<>> /\ Head(in) = e /\ Tail(in) = <<T1, T2>>
    BY <2>1, TupleTail
  <2>3. ReadToken(Acc(S0, in), "e") = Acc(S1, Tail(in))
    BY <1>1, <2>2, ZenonT(60) DEF ReadToken, Fails
  <2> QED BY <2>1, <2>2, <2>3
<1>10. ReadToken(Acc(S1, <<T1, T2>>), "es") = Acc(S2, <<T1, T2>>)
  <2>1. ASSUME NEW in PROVE ReadToken(Acc(S1, in), "es") = Acc(S2, in)
    BY <1>2, ReadMix
  <2> QED BY <2>1
<1>11. ReadToken(Acc(S2, <<T1, T2>>), "s") = Acc(S3, <<T2>>)
  <2>1. PICK in : in = <<T1, T2>>
    OBVIOUS
  <2>2. in # <<>> /\ Head(in) = T1 /\ Tail(in) = <<T2>>
    BY <2>1, TupleTail
  <2>3. ReadToken(Acc(S2, in), "s") = Acc(S3, Tail(in))
    BY <1>3, <1>4, <2>2, ReadSealed
  <2> QED BY <2>1, <2>2, <2>3
<1>12. ReadToken(Acc(S3, <<T2>>), "ss") = Acc(S4, <<T2>>)
  BY <1>5, ReadMix
<1>13. ReadTokens(Acc(S0, <<e, T1, T2>>), MessageTokens(S0)) = Acc(S4, <<T2>>)
  <2>1. MessageTokens(S0) = <<"e", "es", "s", "ss">>
    BY <1>7, Tokens
  <2> HIDE DEF Acc
  <2> QED BY <1>9, <1>10, <1>11, <1>12, <2>1, ReadAll
<1>14. ReadMessage(S0, <<e, T1, T2>>) = [hs |-> Asked(k, c), err |-> "NONE"]
  BY <1>6, <1>7, <1>8, <1>13, MessageOpened
<1> QED BY <1>14 DEF S0, T1, T2, FirstMessage

(* With another key it does not open.                                      *)
LEMMA ReadFirstFails ==
  ASSUME NEW k, NEW k0, k # None, k # k0, NEW c
  PROVE  Fails(ReadMessage(HandshakeState("RESPONDER", "READ_MESSAGE", PatternIK, Begun(k), <<>>,
                                    InitKey(NoKey), k, None, None, None), FirstMessage(k0, c)).err)
<1> DEFINE e == ClientKey(c)
           At(h, ck, cipher, rs, re) ==
             HandshakeState("RESPONDER", "READ_MESSAGE", PatternIK, h, ck, cipher,
                            k, None, rs, re)
           ck1 == Append(<<>>, Secret(k, e))
           S0 == At(Begun(k), <<>>, InitKey(NoKey), None, None)
           S1 == At(Append(Begun(k), e), <<>>, InitKey(NoKey), None, e)
           S2 == At(Append(Begun(k), e), ck1, MessageKey(ck1), None, e)
           Acc(state, in) == [hs |-> state, in |-> in, err |-> "NONE"]
           T1 == SealedMachine(k0, c)
           T2 == FirstPayload(k0, c)
<1>1. [MixHash(S0, e) EXCEPT !.re = e] = S1
  <2>1. MixHash(S0, e) = At(Append(Begun(k), e), <<>>, InitKey(NoKey), None, None)
    BY StateChanges
  <2>2. [At(Append(Begun(k), e), <<>>, InitKey(NoKey), None, None) EXCEPT !.re = e] = S1
    BY SMTT(20) DEF HandshakeState
  <2> HIDE DEF S0, S1, At
  <2> QED BY <2>1, <2>2
<1>2. MixDH(S1, "es") = [hs |-> S2, err |-> "NONE"]
  <2> HIDE DEF e
  <2>1. PICK z : z = <<>>
    OBVIOUS
  <2>2. MixDH(At(Append(Begun(k), e), z, InitKey(NoKey), None, e), "es")
          = [hs |-> At(Append(Begun(k), e), Append(z, Secret(k, e)),
                       MessageKey(Append(z, Secret(k, e))), None, e), err |-> "NONE"]
    BY MixServer
  <2>3. Append(z, Secret(k, e)) = ck1
    BY <2>1
  <2> QED BY <2>1, <2>2, <2>3
<1>3. ck1 # AfterES(k0, c)
  <2>1. Secret(k, e) # Secret(e, k0)
    BY DEF Secret
  <2>2. \A a, b : Append(<<>>, a) = Append(<<>>, b) => a = b
    BY TupleAppend
  <2> QED BY <2>1, <2>2 DEF AfterES
<1> HIDE DEF ck1, e
<1>4. S2.cipher = MessageKey(ck1) /\ S2.h = Append(Begun(k), e)
  BY DEF HandshakeState
<1>5. S0.tokens = PatternIK /\ S0.action = "READ_MESSAGE"
  BY StateFields
<1> USE DEF e
<1> HIDE DEF S0, S1, S2, T1, T2
<1>6. DecryptAndHash(S2, T1).err = "MAC_FAILURE"
  <2>1. DecryptWithAd(MessageKey(ck1), S2.h, T1).err = "MAC_FAILURE"
    BY <1>3, OtherKeyFails DEF T1, SealedMachine
  <2> QED BY <1>4, <2>1 DEF DecryptAndHash, Fails
<1>7. ReadToken(Acc(S0, <<e, T1, T2>>), "e") = Acc(S1, <<T1, T2>>)
  <2>1. PICK in : in = <<e, T1, T2>>
    OBVIOUS
  <2>2. in # <<>> /\ Head(in) = e /\ Tail(in) = <<T1, T2>>
    BY <2>1, TupleTail
  <2>3. ReadToken(Acc(S0, in), "e") = Acc(S1, Tail(in))
    BY <1>1, <2>2, ZenonT(60) DEF ReadToken, Fails
  <2> QED BY <2>1, <2>2, <2>3
<1>8. ReadToken(Acc(S1, <<T1, T2>>), "es") = Acc(S2, <<T1, T2>>)
  <2>1. ASSUME NEW in PROVE ReadToken(Acc(S1, in), "es") = Acc(S2, in)
    BY <1>2, ReadMix
  <2> QED BY <2>1
<1>9. PICK acc3 : acc3 = ReadToken(Acc(S2, <<T1, T2>>), "s")
  OBVIOUS
<1>10. acc3.err = "MAC_FAILURE"
  <2>1. PICK in : in = <<T1, T2>>
    OBVIOUS
  <2>2. in # <<>> /\ Head(in) = T1
    BY <2>1, TupleTail
  <2>3. ReadToken(Acc(S2, in), "s").err = "MAC_FAILURE"
    BY <1>6, <2>2, ZenonT(60) DEF ReadToken, Fails
  <2> QED BY <1>9, <2>1, <2>3
<1>11. ReadToken(acc3, "ss") = acc3
  BY <1>10, ZenonT(60) DEF ReadToken, Fails
<1>12. ReadTokens(Acc(S0, <<e, T1, T2>>), MessageTokens(S0)) = acc3
  <2>1. MessageTokens(S0) = <<"e", "es", "s", "ss">>
    BY <1>5, Tokens
  <2> HIDE DEF Acc
  <2> QED BY <1>7, <1>8, <1>9, <1>11, <2>1, ReadAll
<1>13. Fails(ReadMessage(S0, <<e, T1, T2>>).err)
  BY <1>5, <1>10, <1>12 DEF ReadMessage, Fails
<1> QED BY <1>13 DEF S0, T1, T2, FirstMessage

(* The server writes the second message, and the pattern has ended.        *)
LEMMA WriteSecond ==
  ASSUME NEW k, NEW c
  PROVE  WriteMessage(Asked(k, c), AnswerKey(c))
           = [hs |-> ServerDone(k, c, "SPLIT"), out |-> SecondMessage(k, c), err |-> "NONE"]
<1> DEFINE e == AnswerKey(c)
           At(h, ck, cipher, eph) ==
             HandshakeState("RESPONDER", "WRITE_MESSAGE", SecondTokens, h, ck, cipher,
                            k, eph, Machine, ClientKey(c))
           h2 == Append(FirstHash(k, c), e)
           S0 == At(FirstHash(k, c), AfterSS(k, c), Used(MessageKey(AfterSS(k, c))), None)
           S1 == At(h2, AfterSS(k, c), Used(MessageKey(AfterSS(k, c))), e)
           S2 == At(h2, AfterEE(k, c), MessageKey(AfterEE(k, c)), e)
           S3 == At(h2, AfterSE(k, c), MessageKey(AfterSE(k, c)), e)
           S4 == At(SecondHash(k, c), AfterSE(k, c), Used(MessageKey(AfterSE(k, c))), e)
           Acc(state, out) == [hs |-> state, out |-> out, err |-> "NONE"]
<1>1. MixHash([S0 EXCEPT !.e = e], e) = S1
  <2>1. [S0 EXCEPT !.e = e]
          = At(FirstHash(k, c), AfterSS(k, c), Used(MessageKey(AfterSS(k, c))), e)
    BY DEF HandshakeState
  <2> HIDE DEF S0
  <2> QED BY <2>1, StateChanges
<1>2. MixDH(S1, "ee") = [hs |-> S2, err |-> "NONE"]
  <2>1. Append(AfterSS(k, c), Secret(e, ClientKey(c))) = AfterEE(k, c)
    BY SecretCommutes DEF AfterEE
  <2>2. MixDH(S1, "ee")
          = [hs |-> At(h2, Append(AfterSS(k, c), Secret(e, ClientKey(c))),
                       MessageKey(Append(AfterSS(k, c), Secret(e, ClientKey(c)))), e),
             err |-> "NONE"]
    BY MixServer, NamesDiffer
  <2> QED BY <2>1, <2>2
<1>3. MixDH(S2, "se") = [hs |-> S3, err |-> "NONE"]
  <2>1. Append(AfterEE(k, c), Secret(e, Machine)) = AfterSE(k, c)
    BY SecretCommutes DEF AfterSE
  <2>2. MixDH(S2, "se")
          = [hs |-> At(h2, Append(AfterEE(k, c), Secret(e, Machine)),
                       MessageKey(Append(AfterEE(k, c), Secret(e, Machine))), e),
             err |-> "NONE"]
    BY MixServer, NamesDiffer
  <2> QED BY <2>1, <2>2
<1>4. EncryptAndHash(S3, None) = [hs |-> S4, text |-> SecondPayload(k, c), err |-> "NONE"]
  BY SealedIs DEF SecondPayload, SecondHash
<1>5. S0.tokens = SecondTokens /\ S0.action = "WRITE_MESSAGE"
  BY StateFields
<1>6. Turned(S4, "READ_MESSAGE") = ServerDone(k, c, "SPLIT")
  BY TurnedState DEF ServerDone
<1> HIDE DEF S0, S1, S2, S3, S4
<1>7. WriteToken(Acc(S0, <<>>), "e", e) = Acc(S1, <<e>>)
  BY <1>1, TupleAppend DEF WriteToken, Fails
<1>8. WriteToken(Acc(S1, <<e>>), "ee", e) = Acc(S2, <<e>>)
  BY <1>2 DEF WriteToken, Fails
<1>9. WriteToken(Acc(S2, <<e>>), "se", e) = Acc(S3, <<e>>)
  BY <1>3 DEF WriteToken, Fails
<1>10. WriteTokens(Acc(S0, <<>>), MessageTokens(S0), e) = Acc(S3, <<e>>)
  <2>1. MessageTokens(S0) = <<"e", "ee", "se">>
    BY <1>5, Tokens
  <2> HIDE DEF Acc
  <2> QED BY <1>7, <1>8, <1>9, <2>1, WriteAll
<1>11. Append(<<e>>, SecondPayload(k, c)) = SecondMessage(k, c)
  BY TupleAppend DEF SecondMessage
<1>12. WriteMessage(S0, e) = Acc(ServerDone(k, c, "SPLIT"), SecondMessage(k, c))
  BY <1>4, <1>5, <1>6, <1>10, <1>11, MessageWritten
<1> QED BY <1>12 DEF S0, Asked

(* The client reads it.                                                    *)
LEMMA ReadSecond ==
  ASSUME NEW k, NEW c
  PROVE  ReadMessage(Waiting(k, c), SecondMessage(k, c))
           = [hs |-> ClientDone(k, c, "SPLIT"), err |-> "NONE"]
<1> DEFINE e == AnswerKey(c)
           At(h, ck, cipher, re) ==
             HandshakeState("INITIATOR", "READ_MESSAGE", SecondTokens, h, ck, cipher,
                            Machine, ClientKey(c), k, re)
           h2 == Append(FirstHash(k, c), e)
           S0 == At(FirstHash(k, c), AfterSS(k, c), Used(MessageKey(AfterSS(k, c))), None)
           S1 == At(h2, AfterSS(k, c), Used(MessageKey(AfterSS(k, c))), e)
           S2 == At(h2, AfterEE(k, c), MessageKey(AfterEE(k, c)), e)
           S3 == At(h2, AfterSE(k, c), MessageKey(AfterSE(k, c)), e)
           S4 == At(SecondHash(k, c), AfterSE(k, c), Used(MessageKey(AfterSE(k, c))), e)
           Acc(state, in) == [hs |-> state, in |-> in, err |-> "NONE"]
           T == SecondPayload(k, c)
<1>1. [MixHash(S0, e) EXCEPT !.re = e] = S1
  <2>1. MixHash(S0, e) = At(h2, AfterSS(k, c), Used(MessageKey(AfterSS(k, c))), None)
    BY StateChanges
  <2>2. [At(h2, AfterSS(k, c), Used(MessageKey(AfterSS(k, c))), None) EXCEPT !.re = e] = S1
    BY DEF HandshakeState
  <2> HIDE DEF S0, S1, At
  <2> QED BY <2>1, <2>2
<1>2. MixDH(S1, "ee") = [hs |-> S2, err |-> "NONE"]
  BY MixClient, NamesDiffer DEF AfterEE
<1>3. MixDH(S2, "se") = [hs |-> S3, err |-> "NONE"]
  BY MixClient, NamesDiffer DEF AfterSE
<1>4. DecryptAndHash(S3, T) = [hs |-> S4, plain |-> None, err |-> "NONE"]
  BY SealedIs DEF SecondPayload, SecondHash
<1>5. S0.tokens = SecondTokens /\ S0.action = "READ_MESSAGE"
  BY StateFields
<1>6. Turned(S4, "WRITE_MESSAGE") = ClientDone(k, c, "SPLIT")
  BY TurnedState DEF ClientDone
<1> HIDE DEF S0, S1, S2, S3, S4, T
<1>7. ReadToken(Acc(S0, <<e, T>>), "e") = Acc(S1, <<T>>)
  <2>1. PICK in : in = <<e, T>>
    OBVIOUS
  <2>2. in # <<>> /\ Head(in) = e /\ Tail(in) = <<T>>
    BY <2>1, TupleTail
  <2>3. ReadToken(Acc(S0, in), "e") = Acc(S1, Tail(in))
    BY <1>1, <2>2, ZenonT(60) DEF ReadToken, Fails
  <2> QED BY <2>1, <2>2, <2>3
<1>8. ReadToken(Acc(S1, <<T>>), "ee") = Acc(S2, <<T>>)
  BY <1>2, ReadMix
<1>9. ReadToken(Acc(S2, <<T>>), "se") = Acc(S3, <<T>>)
  BY <1>3, ReadMix
<1>10. ReadTokens(Acc(S0, <<e, T>>), MessageTokens(S0)) = Acc(S3, <<T>>)
  <2>1. MessageTokens(S0) = <<"e", "ee", "se">>
    BY <1>5, Tokens
  <2> HIDE DEF Acc
  <2> QED BY <1>7, <1>8, <1>9, <2>1, ReadAll
<1>11. ReadMessage(S0, <<e, T>>) = [hs |-> ClientDone(k, c, "SPLIT"), err |-> "NONE"]
  BY <1>4, <1>5, <1>6, <1>10, MessageOpened
<1> QED BY <1>11 DEF S0, T, SecondMessage, Waiting

(* The two ends split the same chaining key, crosswise.                    *)
LEMMA SplitIs ==
  ASSUME NEW k, NEW c
  PROVE  /\ SplitKeys(ClientDone(k, c, "SPLIT"))
              = [hs |-> ClientDone(k, c, "COMPLETE"),
                 send |-> InitKey(Key("one", AfterSE(k, c))),
                 recv |-> InitKey(Key("two", AfterSE(k, c)))]
         /\ SplitKeys(ServerDone(k, c, "SPLIT"))
              = [hs |-> ServerDone(k, c, "COMPLETE"),
                 send |-> InitKey(Key("two", AfterSE(k, c))),
                 recv |-> InitKey(Key("one", AfterSE(k, c)))]
<1>1. /\ [ClientDone(k, c, "SPLIT") EXCEPT !.action = "COMPLETE"] = ClientDone(k, c, "COMPLETE")
      /\ ClientDone(k, c, "SPLIT").ck = AfterSE(k, c)
      /\ ClientDone(k, c, "SPLIT").role = "INITIATOR"
  BY DEF ClientDone, HandshakeState
<1>2. /\ [ServerDone(k, c, "SPLIT") EXCEPT !.action = "COMPLETE"] = ServerDone(k, c, "COMPLETE")
      /\ ServerDone(k, c, "SPLIT").ck = AfterSE(k, c)
      /\ ServerDone(k, c, "SPLIT").role = "RESPONDER"
  BY DEF ServerDone, HandshakeState
<1> QED BY <1>1, <1>2 DEF SplitKeys

-----------------------------------------------------------------------------
(* The inductive invariant.                                                *)

StaticKeys == {StaticKey(n) : n \in 1 .. MaxServerKeys}

(* The server has answered with a response.                                *)
Served == server.hs # NoHandshake
TheirKey == server.hs.s

(* What may be on its way: the messages of this connection's handshake, and*)
(* record after record under the key of its direction.                     *)
Transport(label, k) == Key(label, AfterSE(k, connection))
Record(label, n) ==
  Message("record", Seal([key |-> Transport(label, TheirKey), n |-> n], <<>>, n + 1))
Response == Message("response", SecondMessage(TheirKey, connection))

UpMessages ==
  {Message("initiation", FirstMessage(k, connection)) : k \in StaticKeys}
    \cup (IF Served THEN {Record("one", n) : n \in 0 .. Len(sent["up"]) - 1} ELSE {})
DownMessages ==
  {Message("101", <<>>), Garbage, Message("error", <<>>), Message("close", <<>>)}
    \cup (IF Served THEN {Response} \cup {Record("two", n) : n \in 0 .. Len(sent["down"]) - 1}
                    ELSE {})
Pieces(messages) == [part : 0 .. 2, msg : messages]

Traffic ==
  /\ {up, pending} \subseteq Seq(Pieces(UpMessages))
  /\ {recvBuffer, down} \subseteq Seq(Pieces(DownMessages))

(* Each end has as much of the handshake as its stage says, and counts what*)
(* it has sent and got.                                                    *)
ServerShape ==
  /\ server.stage \in {"absent", "ready", "gone"}
  /\ ~Served => server = [NobodyThere EXCEPT !.stage = server.stage]
  /\ Served => \E k \in StaticKeys :
       server = [stage |-> server.stage, hs |-> ServerDone(k, connection, "COMPLETE"),
                 send |-> [key |-> Transport("two", k), n |-> Len(sent["down"])],
                 recv |-> [key |-> Transport("one", k), n |-> Len(got["up"])]]
  /\ server.stage = "ready" => Served
  /\ server.stage = "absent" => ~Served

ClientShape ==
  /\ stage \in Stages
  /\ stage = "kIdle" => hs \in {NoHandshake, NewHandshake("INITIATOR")}
  /\ stage = "kClientInit" => hs = NoHandshake \/ \E k \in StaticKeys : hs = Keyed(k)
  /\ stage = "kAwaitingServerResponse" =>
       hs = NoHandshake \/ \E k \in StaticKeys : hs = Waiting(k, connection)
  /\ stage = "kTransportReady" => Served /\ (hs # NoHandshake => send # NoCipher)
  /\ send # NoCipher =>
       /\ Served /\ stage \in {"kTransportReady", "kFailed"}
       /\ hs = ClientDone(TheirKey, connection, "COMPLETE")
       /\ send = [key |-> Transport("one", TheirKey), n |-> Len(sent["up"])]
       /\ recv = [key |-> Transport("two", TheirKey), n |-> Len(got["down"])]
  /\ send = NoCipher => recv = NoCipher
  /\ hs # NoHandshake => hs.role = "INITIATOR"

(* Nothing comes before its time.                                          *)
Order ==
  /\ stage \in {"kIdle", "kClientInit"} =>
       ~tls /\ ~upgraded /\ server.stage = "absent" /\ up = <<>>
  /\ server.stage = "absent" =>
       /\ down = <<>> /\ recvBuffer = <<>> /\ ~upgraded
       /\ up # <<>> => \E k \in StaticKeys :
            /\ up = Request(FirstMessage(k, connection))
            /\ stage = "kAwaitingServerResponse" /\ hs # NoHandshake => hs = Waiting(k, connection)
  /\ ~Served => pending = <<>> /\ \A d \in Directions : sent[d] = <<>> /\ got[d] = <<>>
  /\ stage = "kAwaitingServerResponse" => sent["up"] = <<>> /\ got["down"] = <<>>
  /\ Served /\ stage = "kAwaitingServerResponse" /\ hs # NoHandshake =>
       hs = Waiting(TheirKey, connection)

(* The records of a direction are numbered from 1, and what was got is     *)
(* what was sent, from its beginning.                                      *)
Numbered(s) == \A i \in 1 .. Len(s) : s[i] = i
Records ==
  /\ {sent, got} \subseteq [Directions -> Seq(Nat \ {0})]
  /\ \A d \in Directions :
       /\ Numbered(sent[d]) /\ Numbered(got[d])
       /\ Len(got[d]) <= Len(sent[d]) /\ Len(sent[d]) <= NonceLimit

(* A key that was used belongs to one connection.                          *)
UsedIn(c) ==
  UNION {{<<Key("handshake", AfterES(k, c)), 0>>, <<Key("handshake", AfterSS(k, c)), 0>>}
           \cup {<<Key("one", AfterSE(k, c)), n>> : n \in 0 .. NonceLimit} : k \in StaticKeys}
UsedUpTo(m) == UNION {UsedIn(c) : c \in 0 .. m}
Spendings ==
  /\ spent \in Seq(UsedUpTo(IF stage \in {"kIdle", "kClientInit"}
                              THEN connection - 1 ELSE connection))
  /\ \A i \in DOMAIN spent, k \in StaticKeys :
       spent[i][1] = Transport("one", k) => spent[i][2] < Len(sent["up"])
  /\ IsInjective(spent)

(* While both ends are there, what arrives is the rest of the header and   *)
(* then whole frames, the response first and every record after it.        *)
DownMessage(j) == IF j = 0 THEN Response ELSE Record("two", j - 1)
Taken == IF stage = "kAwaitingServerResponse" THEN 0 ELSE Len(got["down"]) + 1
Awaited == Len(sent["down"]) + 1 - Taken
Frames(s, rest, first, count) ==
  /\ Len(s) = rest + 2 * count
  /\ \A j \in 0 .. count - 1 :
       /\ s[rest + 2 * j + 1] = [part |-> 1, msg |-> DownMessage(first + j)]
       /\ s[rest + 2 * j + 2] = [part |-> 2, msg |-> DownMessage(first + j)]
Arriving == recvBuffer \o down
Both ==
  /\ server.stage = "ready" /\ stage \in {"kAwaitingServerResponse", "kTransportReady"}
  /\ hs # NoHandshake
WholeStream ==
  Both =>
    /\ ~upgraded => recvBuffer = <<>> /\ stage = "kAwaitingServerResponse"
    /\ \E rest \in 0 .. 2 :
         /\ Frames(Arriving, rest, Taken, Awaited)
         /\ IF upgraded THEN rest <= 1 ELSE rest >= 1
         /\ stage = "kTransportReady" => rest = 0
         /\ \A i \in 1 .. rest : Arriving[i] = Header(2)[IF upgraded THEN i + 1 ELSE i]

ChannelInv ==
  /\ ServerShape /\ ClientShape /\ Order /\ Records /\ Spendings /\ Traffic /\ WholeStream
  /\ serverKey \in StaticKeys /\ connection \in 0 .. MaxConnections
  /\ {tls, upgraded} \subseteq BOOLEAN

-----------------------------------------------------------------------------
(* What the actions do with the handshake and the records.                 *)

(* The server's key and the ends of the handshake, read from their states. *)
LEMMA DoneFields ==
  ASSUME NEW k, NEW c, NEW action
  PROVE  /\ ClientDone(k, c, action).role = "INITIATOR" /\ ClientDone(k, c, action).rs = k
         /\ ClientDone(k, c, action).s = Machine
         /\ ClientDone(k, c, action).h = SecondHash(k, c)
         /\ ServerDone(k, c, action).s = k /\ ServerDone(k, c, action).rs = Machine
         /\ ServerDone(k, c, action).h = SecondHash(k, c)
         /\ ServerDone(k, c, action).role = "RESPONDER"
         /\ Waiting(k, c).role = "INITIATOR" /\ Waiting(k, c).rs = k
         /\ Keyed(k).role = "INITIATOR" /\ Keyed(k).action = "NONE"
BY DEF ClientDone, ServerDone, Waiting, Keyed, HandshakeState

LEMMA RolesDiffer ==
  /\ NoHandshake.role = "NONE"
  /\ \A k, c, action : ServerDone(k, c, action) # NoHandshake /\ ClientDone(k, c, action) # NoHandshake
  /\ \A k, c : Waiting(k, c) # NoHandshake
  /\ \A k : Keyed(k) # NoHandshake
BY DoneFields DEF NoHandshake

LEMMA StaticKeyIsKey == \A k \in StaticKeys : k # None
BY NamesDiffer DEF StaticKeys

(* Served, the server's state is in full what its handshake has made of it.*)
LEMMA ServedIs ==
  ASSUME ServerShape, Served
  PROVE  /\ TheirKey \in StaticKeys
         /\ server.hs = ServerDone(TheirKey, connection, "COMPLETE")
         /\ server = [stage |-> server.stage, hs |-> ServerDone(TheirKey, connection, "COMPLETE"),
                      send |-> [key |-> Transport("two", TheirKey), n |-> Len(sent["down"])],
                      recv |-> [key |-> Transport("one", TheirKey), n |-> Len(got["up"])]]
         /\ server.send = [key |-> Transport("two", TheirKey), n |-> Len(sent["down"])]
         /\ server.recv = [key |-> Transport("one", TheirKey), n |-> Len(got["up"])]
<1>1. PICK k \in StaticKeys :
        server = [stage |-> server.stage, hs |-> ServerDone(k, connection, "COMPLETE"),
                  send |-> [key |-> Transport("two", k), n |-> Len(sent["down"])],
                  recv |-> [key |-> Transport("one", k), n |-> Len(got["up"])]]
  BY DEF ServerShape
<1>2. /\ server.hs = ServerDone(k, connection, "COMPLETE")
      /\ server.send = [key |-> Transport("two", k), n |-> Len(sent["down"])]
      /\ server.recv = [key |-> Transport("one", k), n |-> Len(got["up"])]
  BY <1>1
<1>3. k = TheirKey
  BY <1>2, DoneFields DEF TheirKey
<1> QED BY <1>1, <1>2, <1>3

(* The client's message is always built, from the key it fetched.          *)
LEMMA BuildIs ==
  ASSUME ClientShape, stage = "kClientInit", hs # NoHandshake
  PROVE  \E k \in StaticKeys :
           /\ hs = Keyed(k)
           /\ BuildHandshakeMessage
                = [hs |-> Waiting(k, connection), out |-> FirstMessage(k, connection), err |-> "NONE"]
<1>1. PICK k \in StaticKeys : hs = Keyed(k)
  BY DEF ClientShape
<1>2. hs.action = "NONE"
  BY <1>1, DoneFields
<1> DEFINE S == HandshakeState("INITIATOR", "WRITE_MESSAGE", PatternIK, Begun(k), <<>>,
                               InitKey(NoKey), Machine, None, k, None)
<1>3. Start(hs) = [hs |-> S, err |-> "NONE"]
  BY <1>1, StartClient, StaticKeyIsKey
<1>4. Ephemeral("client") = ClientKey(connection)
  BY DEF Ephemeral, ClientKey
<1>5. WriteMessage(S, ClientKey(connection))
        = [hs |-> Waiting(k, connection), out |-> FirstMessage(k, connection), err |-> "NONE"]
  BY WriteFirst
<1> HIDE DEF S
<1>6. BuildHandshakeMessage = WriteMessage(S, ClientKey(connection))
  BY <1>2, <1>3, <1>4 DEF BuildHandshakeMessage, Fails
<1> QED BY <1>1, <1>5, <1>6

(* The server answers with a response if the message was meant for the key *)
(* that it has now, and with an error otherwise.                           *)
LEMMA AnswerIs ==
  ASSUME Order, serverKey \in StaticKeys, ServerAnswers
  PROVE  \E k \in StaticKeys, pieces \in 1 .. 2 :
           /\ up = Request(FirstMessage(k, connection))
           /\ stage = "kAwaitingServerResponse" /\ hs # NoHandshake => hs = Waiting(k, connection)
           /\ up' = <<>>
           /\ \/ /\ server' = [stage |-> "ready", hs |-> ServerDone(k, connection, "COMPLETE"),
                               send |-> [key |-> Transport("two", k), n |-> 0],
                               recv |-> [key |-> Transport("one", k), n |-> 0]]
                 /\ down' = Header(pieces) \o Frame(Message("response", SecondMessage(k, connection)))
              \/ /\ server' = [server EXCEPT !.stage = "gone"]
                 /\ down' = Header(pieces) \o Frame(Message("error", <<>>))
<1>1. PICK k \in StaticKeys :
        /\ up = Request(FirstMessage(k, connection))
        /\ stage = "kAwaitingServerResponse" /\ hs # NoHandshake => hs = Waiting(k, connection)
  BY DEF Order, ServerAnswers
<1>2. up[1].msg.body = FirstMessage(k, connection) /\ up' = <<>>
  <2>1. up = <<[part |-> 0, msg |-> Message("initiation", FirstMessage(k, connection))]>>
    BY <1>1 DEF Request
  <2> QED BY <2>1, TupleTail DEF ServerAnswers, Message
<1> DEFINE S == HandshakeState("RESPONDER", "READ_MESSAGE", PatternIK, Begun(serverKey), <<>>,
                               InitKey(NoKey), serverKey, None, None, None)
           read == ReadMessage(S, FirstMessage(k, connection))
           written == WriteMessage(read.hs, Ephemeral("server"))
           keys == SplitKeys(written.hs)
<1>3. Start([NewHandshake("RESPONDER") EXCEPT !.s = serverKey]) = [hs |-> S, err |-> "NONE"]
  BY StartServer, StaticKeyIsKey
<1>4. /\ \E pieces \in 1 .. 2 :
           down' = Header(pieces) \o Frame(IF Fails(read.err) THEN Message("error", <<>>)
                                           ELSE Message("response", written.out))
      /\ server' = IF Fails(read.err) THEN [server EXCEPT !.stage = "gone"]
                   ELSE [stage |-> "ready", hs |-> keys.hs, send |-> keys.send, recv |-> keys.recv]
  <2> HIDE DEF S
  <2>1. Start([NewHandshake("RESPONDER") EXCEPT !.s = serverKey]).hs = S
    BY <1>3
  <2>2. ReadMessage(Start([NewHandshake("RESPONDER") EXCEPT !.s = serverKey]).hs, up[1].msg.body)
          = read
    BY <1>2, <2>1
  <2> HIDE DEF read
  <2>3. \E pieces \in 1 .. 2 :
          down' = Header(pieces) \o Frame(IF Fails(read.err) THEN Message("error", <<>>)
                                          ELSE Message("response", written.out))
    BY <2>2 DEF ServerAnswers
  <2>4. server' = IF Fails(read.err) THEN [server EXCEPT !.stage = "gone"]
                  ELSE [stage |-> "ready", hs |-> keys.hs, send |-> keys.send, recv |-> keys.recv]
    BY <2>2 DEF ServerAnswers
  <2> QED BY <2>3, <2>4
<1>5. CASE serverKey = k
  <2>1. read = [hs |-> Asked(k, connection), err |-> "NONE"]
    BY <1>5, ReadFirst, StaticKeyIsKey
  <2> HIDE DEF read
  <2>2. Ephemeral("server") = AnswerKey(connection)
    BY DEF Ephemeral, AnswerKey
  <2>3. written = [hs |-> ServerDone(k, connection, "SPLIT"),
                   out |-> SecondMessage(k, connection), err |-> "NONE"]
    BY <2>1, <2>2, WriteSecond
  <2>4. written.hs = ServerDone(k, connection, "SPLIT") /\ written.out = SecondMessage(k, connection)
    BY <2>3
  <2> HIDE DEF written
  <2>5. keys = [hs |-> ServerDone(k, connection, "COMPLETE"),
                send |-> InitKey(Transport("two", k)), recv |-> InitKey(Transport("one", k))]
    BY <2>4, SplitIs DEF Transport
  <2>6. /\ keys.hs = ServerDone(k, connection, "COMPLETE")
        /\ keys.send = [key |-> Transport("two", k), n |-> 0]
        /\ keys.recv = [key |-> Transport("one", k), n |-> 0]
    BY <2>5 DEF InitKey
  <2> HIDE DEF keys
  <2>7. ~Fails(read.err)
    BY <2>1 DEF Fails
  <2> QED BY <1>1, <1>2, <1>4, <2>4, <2>6, <2>7
<1>6. CASE serverKey # k
  <2>1. Fails(read.err)
    BY <1>6, ReadFirstFails, StaticKeyIsKey
  <2> HIDE DEF read, written, keys
  <2> QED BY <1>1, <1>2, <1>4, <2>1
<1> QED BY <1>5, <1>6

(* What is at the head of a buffer of pieces.                              *)
LEMMA DecodedIs ==
  ASSUME NEW M, NEW buffer \in Seq(Pieces(M)), FrameReady(buffer)
  PROVE  /\ Decoded(buffer) \in M \cup {Garbage}
         /\ \A m : /\ buffer[1] = [part |-> 1, msg |-> m] /\ buffer[2] = [part |-> 2, msg |-> m]
                   => Decoded(buffer) = m
         /\ buffer[2].part # 2 => Decoded(buffer) = Garbage
<1>1. Len(buffer) \in Nat /\ Len(buffer) >= 2
  BY DEF FrameReady
<1>2. buffer[1] \in Pieces(M) /\ buffer[2] \in Pieces(M)
  BY <1>1
<1>3. buffer[1].msg \in M
  BY <1>2 DEF Pieces
<1> DEFINE two == SubSeq(buffer, 1, 2)
<1>4. two \in Seq(Pieces(M)) /\ Len(two) = 2 /\ two[1] = buffer[1] /\ two[2] = buffer[2]
  BY <1>1
<1> HIDE DEF two
<1>5. two = <<buffer[1], buffer[2]>>
  BY <1>4, AsTuple
<1>6. Decoded(buffer) = IF two = Frame(buffer[1].msg) THEN buffer[1].msg ELSE Garbage
  BY DEF Decoded, two
<1>7. \A m : two = Frame(m) <=> /\ buffer[1] = [part |-> 1, msg |-> m]
                                /\ buffer[2] = [part |-> 2, msg |-> m]
  BY <1>5 DEF Frame
<1> HIDE DEF Frame
<1>8. ASSUME NEW m, buffer[1] = [part |-> 1, msg |-> m], buffer[2] = [part |-> 2, msg |-> m]
      PROVE  Decoded(buffer) = m
  <2>1. buffer[1].msg = m
    BY <1>8
  <2> QED BY <1>6, <1>7, <1>8, <2>1
<1>9. buffer[2].part # 2 => Decoded(buffer) = Garbage
  <2>1. two = Frame(buffer[1].msg) => buffer[2] = [part |-> 2, msg |-> buffer[1].msg]
    BY <1>7
  <2>2. [part |-> 2, msg |-> buffer[1].msg].part = 2
    OBVIOUS
  <2>3. two = Frame(buffer[1].msg) => buffer[2].part = 2
    BY <2>1, <2>2
  <2> QED BY <1>6, <2>3
<1> QED BY <1>3, <1>6, <1>8, <1>9

LEMMA ConsumedIs ==
  ASSUME NEW S, NEW buffer \in Seq(S), FrameReady(buffer)
  PROVE  /\ Consumed(buffer) \in Seq(S) /\ Len(Consumed(buffer)) = Len(buffer) - 2
         /\ \A i \in 1 .. Len(buffer) - 2 : Consumed(buffer)[i] = buffer[i + 2]
<1>1. Len(buffer) \in Nat /\ Len(buffer) >= 2
  BY DEF FrameReady
<1>2. \A i \in 3 .. Len(buffer) : buffer[i] \in S
  BY <1>1
<1>3. PICK n \in Int : n = Len(buffer)
  BY <1>1
<1>4. /\ SubSeq(buffer, 3, n) \in Seq(S)
      /\ Len(SubSeq(buffer, 3, n)) = IF 3 <= n THEN n - 3 + 1 ELSE 0
      /\ \A i \in 1 .. n - 3 + 1 : SubSeq(buffer, 3, n)[i] = buffer[3 + i - 1]
  BY <1>2, <1>3, SubSeqProperties
<1> QED BY <1>1, <1>3, <1>4 DEF Consumed

(* The types of the messages tell them apart.                              *)
LEMMA MessageTypes ==
  /\ Garbage.type = "other" /\ Response.type = "response"
  /\ Response.body = SecondMessage(TheirKey, connection)
  /\ \A label, n : /\ Record(label, n).type = "record"
                   /\ Record(label, n).body
                        = Seal([key |-> Transport(label, TheirKey), n |-> n], <<>>, n + 1)
  /\ \A type, body : Message(type, body).type = type /\ Message(type, body).body = body
BY DEF Garbage, Response, Record, Message

LEMMA UpMessagesAre ==
  ASSUME NEW m \in UpMessages \cup {Garbage}, m.type = "record"
  PROVE  Served /\ \E n \in 0 .. Len(sent["up"]) - 1 : m = Record("one", n)
BY MessageTypes DEF UpMessages

LEMMA DownMessagesAre ==
  ASSUME NEW m \in DownMessages \cup {Garbage}
  PROVE  /\ m.type = "record" => Served /\ \E n \in 0 .. Len(sent["down"]) - 1 : m = Record("two", n)
         /\ m.type = "response" => Served /\ m = Response
BY MessageTypes DEF DownMessages

(* The one response there can be is the one that the client waits for.     *)
LEMMA AcceptIs ==
  ASSUME Order, Traffic, stage = "kAwaitingServerResponse", hs # NoHandshake,
         FrameReady(recvBuffer), Decoded(recvBuffer).type = "response"
  PROVE  /\ Served /\ hs = Waiting(TheirKey, connection) /\ Decoded(recvBuffer) = Response
         /\ Accepted = [hs |-> ClientDone(TheirKey, connection, "SPLIT"), err |-> "NONE"]
         /\ Acceptable
<1>1. recvBuffer \in Seq(Pieces(DownMessages))
  BY DEF Traffic
<1>2. Served /\ Decoded(recvBuffer) = Response
  BY <1>1, DecodedIs, DownMessagesAre
<1>3. hs = Waiting(TheirKey, connection)
  BY <1>2 DEF Order
<1>4. Decoded(recvBuffer).body = SecondMessage(TheirKey, connection)
  BY <1>2, MessageTypes
<1>5. Accepted = [hs |-> ClientDone(TheirKey, connection, "SPLIT"), err |-> "NONE"]
  BY <1>3, <1>4, ReadSecond DEF Accepted
<1> QED BY <1>2, <1>3, <1>5 DEF Acceptable, Fails

LEMMA AcceptedIs ==
  ASSUME Order, Traffic, AcceptHandshakeMessage
  PROVE  /\ Served /\ hs' = ClientDone(TheirKey, connection, "COMPLETE")
         /\ send' = [key |-> Transport("one", TheirKey), n |-> 0]
         /\ recv' = [key |-> Transport("two", TheirKey), n |-> 0]
         /\ Decoded(recvBuffer) = Response
<1>1. /\ stage = "kAwaitingServerResponse" /\ hs # NoHandshake
      /\ FrameReady(recvBuffer) /\ Decoded(recvBuffer).type = "response"
  BY DEF AcceptHandshakeMessage, Acceptable, Take
<1>2. /\ Served /\ Decoded(recvBuffer) = Response
      /\ Accepted = [hs |-> ClientDone(TheirKey, connection, "SPLIT"), err |-> "NONE"]
  BY <1>1, AcceptIs
<1>3. Accepted.hs = ClientDone(TheirKey, connection, "SPLIT")
  BY <1>2
<1> DEFINE keys == SplitKeys(Accepted.hs)
<1>4. hs' = keys.hs /\ send' = keys.send /\ recv' = keys.recv
  BY DEF AcceptHandshakeMessage
<1>5. keys = [hs |-> ClientDone(TheirKey, connection, "COMPLETE"),
              send |-> InitKey(Transport("one", TheirKey)),
              recv |-> InitKey(Transport("two", TheirKey))]
  BY <1>3, SplitIs DEF Transport
<1> HIDE DEF keys
<1> QED BY <1>2, <1>4, <1>5 DEF InitKey

LEMMA RefusedIs ==
  ASSUME Order, Traffic, HandshakeFails
  PROVE  hs' = hs /\ stage' \in {"kFailed", stage}
<1>1. stage = "kAwaitingServerResponse"
  BY DEF HandshakeFails
<1>2. CASE FrameReady(recvBuffer)
  <2>1. ~Acceptable
    BY <1>2 DEF HandshakeFails
  <2>2. ~(hs # NoHandshake /\ Decoded(recvBuffer).type = "response")
    BY <1>1, <1>2, <2>1, AcceptIs
  <2> QED BY <1>2, <2>2 DEF HandshakeFails
<1>3. CASE ~FrameReady(recvBuffer)
  BY <1>3 DEF HandshakeFails
<1> QED BY <1>2, <1>3

(* A record that opens is the one whose turn it is.                        *)
LEMMA OpensInTurn ==
  ASSUME NEW label \in {"one", "two"}, NEW k, NEW m \in Nat, NEW n \in Nat, NEW cipher,
         cipher = [key |-> Transport(label, k), n |-> m], NEW text,
         text = Seal([key |-> Transport(label, k), n |-> n], <<>>, n + 1),
         ~Fails(DecryptWithAd(cipher, <<>>, text).err)
  PROVE  /\ m = n /\ n # NonceLimit
         /\ DecryptWithAd(cipher, <<>>, text).plain = m + 1
         /\ DecryptWithAd(cipher, <<>>, text).cipher = [key |-> Transport(label, k), n |-> m + 1]
<1>1. HasKey(cipher)
  BY NamesDiffer DEF HasKey, Transport
<1>2. cipher.n = m /\ text.plain = n + 1
  BY DEF Seal
<1>3. cipher.n # NonceLimit /\ text = Seal(cipher, <<>>, text.plain)
  BY <1>1 DEF DecryptWithAd, Fails
<1>4. m = n
  BY <1>3 DEF Seal
<1>5. DecryptWithAd(cipher, <<>>, text)
        = [cipher |-> [cipher EXCEPT !.n = @ + 1], plain |-> text.plain, err |-> "NONE"]
  BY <1>1, <1>3 DEF DecryptWithAd
<1>6. [cipher EXCEPT !.n = @ + 1] = [key |-> Transport(label, k), n |-> m + 1]
  OBVIOUS
<1> QED BY <1>2, <1>3, <1>4, <1>5, <1>6

LEMMA ReceivedIs ==
  ASSUME ServerShape, ClientShape, Records, Traffic, ReceivePlaintext
  PROVE  /\ Served /\ Decoded(recvBuffer) = Record("two", Len(got["down"]))
         /\ Len(got["down"]) < Len(sent["down"])
         /\ recv' = [key |-> Transport("two", TheirKey), n |-> Len(got["down"]) + 1]
         /\ got' = [got EXCEPT !["down"] = Append(@, Len(@) + 1)]
<1>1. /\ recv # NoCipher /\ FrameReady(recvBuffer)
      /\ Decoded(recvBuffer).type = "record" /\ ~Fails(Decrypted.err)
      /\ recv' = Decrypted.cipher
      /\ got' = [got EXCEPT !["down"] = Append(@, Decrypted.plain)]
  BY DEF ReceivePlaintext, Readable, Take
<1>2. Served /\ recv = [key |-> Transport("two", TheirKey), n |-> Len(got["down"])]
  BY <1>1 DEF ClientShape
<1>3. PICK n \in 0 .. Len(sent["down"]) - 1 : Decoded(recvBuffer) = Record("two", n)
  <2>1. recvBuffer \in Seq(Pieces(DownMessages))
    BY DEF Traffic
  <2> QED BY <1>1, <2>1, DecodedIs, DownMessagesAre
<1>4. Len(got["down"]) \in Nat /\ Len(sent["down"]) \in Nat
  BY DEF Records, Directions
<1>5. Decoded(recvBuffer).body = Seal([key |-> Transport("two", TheirKey), n |-> n], <<>>, n + 1)
  BY <1>3, MessageTypes
<1>6. /\ Len(got["down"]) = n
      /\ Decrypted.plain = Len(got["down"]) + 1
      /\ Decrypted.cipher = [key |-> Transport("two", TheirKey), n |-> Len(got["down"]) + 1]
  BY <1>1, <1>2, <1>4, <1>5, OpensInTurn DEF Decrypted
<1>7. Append(got["down"], Decrypted.plain) = Append(got["down"], Len(got["down"]) + 1)
  BY <1>6
<1> QED BY <1>1, <1>2, <1>3, <1>4, <1>6, <1>7

LEMMA ServerReadsIs ==
  ASSUME ServerShape, Records, Traffic, ServerReads
  PROVE  \/ /\ Len(got["up"]) < Len(sent["up"])
            /\ server' = [server EXCEPT !.recv = [key |-> Transport("one", TheirKey),
                                                  n |-> Len(got["up"]) + 1]]
            /\ got' = [got EXCEPT !["up"] = Append(@, Len(@) + 1)]
         \/ server' = [server EXCEPT !.stage = "gone"] /\ got' = got
<1> DEFINE msg == Decoded(up)
           r == DecryptWithAd(server.recv, <<>>, msg.body)
<1>1. CASE msg.type = "record" /\ ~Fails(r.err)
  <2>1. /\ server' = [server EXCEPT !.recv = r.cipher]
        /\ got' = [got EXCEPT !["up"] = Append(@, r.plain)]
    BY <1>1 DEF ServerReads
  <2>2. Served /\ server.recv = [key |-> Transport("one", TheirKey), n |-> Len(got["up"])]
    BY ServedIs DEF ServerReads, ServerShape
  <2>3. PICK n \in 0 .. Len(sent["up"]) - 1 : msg = Record("one", n)
    <3>1. up \in Seq(Pieces(UpMessages)) /\ FrameReady(up)
      BY DEF Traffic, ServerReads
    <3> QED BY <1>1, <3>1, DecodedIs, UpMessagesAre
  <2>4. Len(got["up"]) \in Nat /\ Len(sent["up"]) \in Nat
    BY DEF Records, Directions
  <2>5. msg.body = Seal([key |-> Transport("one", TheirKey), n |-> n], <<>>, n + 1)
    BY <2>3, MessageTypes
  <2> HIDE DEF msg
  <2>6. /\ Len(got["up"]) = n
        /\ r.plain = Len(got["up"]) + 1
        /\ r.cipher = [key |-> Transport("one", TheirKey), n |-> Len(got["up"]) + 1]
    BY <1>1, <2>2, <2>4, <2>5, OpensInTurn
  <2> HIDE DEF r
  <2>7. Append(got["up"], r.plain) = Append(got["up"], Len(got["up"]) + 1)
    BY <2>6
  <2> QED BY <2>1, <2>3, <2>4, <2>6, <2>7
<1>2. CASE ~(msg.type = "record" /\ ~Fails(r.err))
  BY <1>2 DEF ServerReads
<1> QED BY <1>1, <1>2

(* A record is sealed with the next nonce.                                 *)
LEMMA SealsInTurn ==
  ASSUME NEW label \in {"one", "two"}, NEW k, NEW m \in Nat, NEW cipher,
         cipher = [key |-> Transport(label, k), n |-> m],
         ~Fails(EncryptWithAd(cipher, <<>>, m + 1).err)
  PROVE  /\ m # NonceLimit
         /\ EncryptWithAd(cipher, <<>>, m + 1).text
              = Seal([key |-> Transport(label, k), n |-> m], <<>>, m + 1)
         /\ EncryptWithAd(cipher, <<>>, m + 1).cipher = [key |-> Transport(label, k), n |-> m + 1]
<1>1. HasKey(cipher) /\ cipher.n = m
  BY NamesDiffer DEF HasKey, Transport
<1>2. m # NonceLimit
  BY <1>1 DEF EncryptWithAd, Fails
<1>3. EncryptWithAd(cipher, <<>>, m + 1)
        = [cipher |-> [cipher EXCEPT !.n = @ + 1], text |-> Seal(cipher, <<>>, m + 1),
           err |-> "NONE"]
  BY <1>1, <1>2 DEF EncryptWithAd
<1>4. [cipher EXCEPT !.n = @ + 1] = [key |-> Transport(label, k), n |-> m + 1]
  OBVIOUS
<1> QED BY <1>2, <1>3, <1>4

LEMMA SendIs ==
  ASSUME ClientShape, Records, SendPlaintext
  PROVE  /\ Served /\ Len(sent["up"]) < NonceLimit
         /\ send = [key |-> Transport("one", TheirKey), n |-> Len(sent["up"])]
         /\ send' = [key |-> Transport("one", TheirKey), n |-> Len(sent["up"]) + 1]
         /\ Message("record", Encrypted.text) = Record("one", Len(sent["up"]))
<1>1. Served /\ send = [key |-> Transport("one", TheirKey), n |-> Len(sent["up"])]
  BY DEF ClientShape, SendPlaintext
<1>2. Len(sent["up"]) \in Nat /\ Len(sent["up"]) <= NonceLimit
  BY DEF Records, Directions
<1>3. /\ Len(sent["up"]) # NonceLimit
      /\ Encrypted.text
           = Seal([key |-> Transport("one", TheirKey), n |-> Len(sent["up"])], <<>>,
                  Len(sent["up"]) + 1)
      /\ Encrypted.cipher = [key |-> Transport("one", TheirKey), n |-> Len(sent["up"]) + 1]
  BY <1>1, <1>2, SealsInTurn DEF Encrypted, SendPlaintext
<1> QED BY <1>1, <1>2, <1>3, NonceAssumption DEF SendPlaintext, Record

LEMMA ServerSendsIs ==
  ASSUME ServerShape, Records, ServerSends
  PROVE  /\ Served /\ Len(sent["down"]) < NonceLimit
         /\ server' = [server EXCEPT !.send = [key |-> Transport("two", TheirKey),
                                               n |-> Len(sent["down"]) + 1]]
         /\ down' = down \o Frame(Record("two", Len(sent["down"])))
<1> DEFINE r == EncryptWithAd(server.send, <<>>, Len(sent["down"]) + 1)
<1>1. /\ ~Fails(r.err) /\ server' = [server EXCEPT !.send = r.cipher]
      /\ down' = down \o Frame(Message("record", r.text))
  BY DEF ServerSends
<1>2. Served /\ server.send = [key |-> Transport("two", TheirKey), n |-> Len(sent["down"])]
  BY ServedIs DEF ServerSends, ServerShape
<1>3. Len(sent["down"]) \in Nat /\ Len(sent["down"]) <= NonceLimit
  BY DEF Records, Directions
<1>4. /\ Len(sent["down"]) # NonceLimit
      /\ r.text = Seal([key |-> Transport("two", TheirKey), n |-> Len(sent["down"])], <<>>,
                       Len(sent["down"]) + 1)
      /\ r.cipher = [key |-> Transport("two", TheirKey), n |-> Len(sent["down"]) + 1]
  BY <1>1, <1>2, <1>3, SealsInTurn
<1> HIDE DEF r
<1> QED BY <1>1, <1>2, <1>3, <1>4, NonceAssumption DEF Record

-----------------------------------------------------------------------------
(* Every step keeps the invariant: the records.                            *)

(* One more record in one direction.                                       *)
LEMMA Adds ==
  ASSUME NEW f \in [Directions -> Seq(Nat \ {0})], NEW d \in Directions, Numbered(f[d]),
         NEW g, g = [f EXCEPT ![d] = Append(@, Len(@) + 1)]
  PROVE  /\ g \in [Directions -> Seq(Nat \ {0})]
         /\ g[d] = Append(f[d], Len(f[d]) + 1) /\ Numbered(g[d])
         /\ Len(f[d]) \in Nat /\ Len(g[d]) = Len(f[d]) + 1
         /\ \A e \in Directions : e # d => g[e] = f[e]
<1>1. f[d] \in Seq(Nat \ {0}) /\ Len(f[d]) \in Nat
  OBVIOUS
<1>2. Append(f[d], Len(f[d]) + 1) \in Seq(Nat \ {0})
  BY <1>1
<1>3. g \in [Directions -> Seq(Nat \ {0})] /\ g[d] = Append(f[d], Len(f[d]) + 1)
  BY <1>2
<1>4. /\ Len(g[d]) = Len(f[d]) + 1 /\ g[d][Len(f[d]) + 1] = Len(f[d]) + 1
      /\ \A i \in 1 .. Len(f[d]) : g[d][i] = f[d][i]
  BY <1>1, <1>3
<1>5. Numbered(g[d])
  BY <1>1, <1>4 DEF Numbered
<1> QED BY <1>1, <1>3, <1>4, <1>5

(* The steps that send or receive a record.                                *)
LEMMA WhoRecords ==
  ASSUME [Next]_vars
  PROVE  \/ InitializeIk \/ SendPlaintext \/ ReceivePlaintext \/ ServerSends \/ ServerReads
         \/ sent' = sent /\ got' = got
<1>1. CASE InitializeIkFails \/ BeginHandshake \/ Connect \/ ConnectFails \/ UpgradeAnswered
           \/ UpgradeFails \/ Pull \/ HandshakeFails \/ EncryptFails \/ SessionFails
  BY <1>1 DEF InitializeIkFails, BeginHandshake, Connect, ConnectFails, UpgradeAnswered,
              UpgradeFails, Pull, HandshakeFails, EncryptFails, SessionFails, history
<1>2. CASE TakeClose \/ AcceptHandshakeMessage \/ ReceiveFails
  BY <1>2 DEF TakeClose, AcceptHandshakeMessage, ReceiveFails, Take
<1>3. CASE ServerAnswers \/ ServerLeaves \/ ServerKeyChanges \/ UNCHANGED vars
  BY <1>3 DEF ServerAnswers, ServerLeaves, ServerKeyChanges, vars, history
<1> QED BY <1>1, <1>2, <1>3 DEF Next

LEMMA RecordsKept ==
  ASSUME ServerShape, ClientShape, Traffic, Records, [Next]_vars
  PROVE  Records'
<1>1. {sent, got} \subseteq [Directions -> Seq(Nat \ {0})] /\ "up" \in Directions
      /\ "down" \in Directions
  BY DEF Records, Directions
<1>2. \A d \in Directions : /\ Numbered(sent[d]) /\ Numbered(got[d])
                            /\ Len(sent[d]) \in Nat /\ Len(got[d]) \in Nat
                            /\ Len(got[d]) <= Len(sent[d]) /\ Len(sent[d]) <= NonceLimit
  BY <1>1 DEF Records
<1>3. CASE InitializeIk
  <2>1. sent' = [d \in Directions |-> <<>>] /\ got' = [d \in Directions |-> <<>>]
    BY <1>3 DEF InitializeIk
  <2>2. \A d \in Directions : sent'[d] = <<>> /\ got'[d] = <<>>
    BY <2>1
  <2>3. sent' \in [Directions -> Seq(Nat \ {0})] /\ got' \in [Directions -> Seq(Nat \ {0})]
    BY <2>1
  <2>4. \A d \in Directions : Len(sent'[d]) = 0 /\ Len(got'[d]) = 0
    BY <2>2
  <2> QED BY <2>3, <2>4, NonceAssumption DEF Records, Numbered
<1>4. CASE SendPlaintext
  <2>1. /\ sent' = [sent EXCEPT !["up"] = Append(@, Len(@) + 1)] /\ got' = got
        /\ Len(sent["up"]) < NonceLimit
    BY <1>4, SendIs DEF SendPlaintext
  <2>2. /\ sent' \in [Directions -> Seq(Nat \ {0})] /\ Numbered(sent'["up"])
        /\ Len(sent'["up"]) = Len(sent["up"]) + 1
        /\ \A e \in Directions : e # "up" => sent'[e] = sent[e]
    BY <1>1, <1>2, <2>1, Adds
  <2> QED BY <1>1, <1>2, <2>1, <2>2, NonceAssumption DEF Records
<1>5. CASE ServerSends
  <2>1. /\ sent' = [sent EXCEPT !["down"] = Append(@, Len(@) + 1)] /\ got' = got
        /\ Len(sent["down"]) < NonceLimit
    BY <1>5, ServerSendsIs DEF ServerSends
  <2>2. /\ sent' \in [Directions -> Seq(Nat \ {0})] /\ Numbered(sent'["down"])
        /\ Len(sent'["down"]) = Len(sent["down"]) + 1
        /\ \A e \in Directions : e # "down" => sent'[e] = sent[e]
    BY <1>1, <1>2, <2>1, Adds
  <2> QED BY <1>1, <1>2, <2>1, <2>2, NonceAssumption DEF Records
<1>6. CASE ReceivePlaintext
  <2>1. /\ got' = [got EXCEPT !["down"] = Append(@, Len(@) + 1)] /\ sent' = sent
        /\ Len(got["down"]) < Len(sent["down"])
    BY <1>6, ReceivedIs DEF ReceivePlaintext, Take
  <2>2. /\ got' \in [Directions -> Seq(Nat \ {0})] /\ Numbered(got'["down"])
        /\ Len(got'["down"]) = Len(got["down"]) + 1
        /\ \A e \in Directions : e # "down" => got'[e] = got[e]
    BY <1>1, <1>2, <2>1, Adds
  <2> QED BY <1>1, <1>2, <2>1, <2>2 DEF Records
<1>7. CASE ServerReads
  <2>1. sent' = sent
    BY <1>7 DEF ServerReads
  <2>2. CASE got' = got
    BY <2>1, <2>2 DEF Records
  <2>3. CASE /\ got' = [got EXCEPT !["up"] = Append(@, Len(@) + 1)]
             /\ Len(got["up"]) < Len(sent["up"])
    <3>1. /\ got' \in [Directions -> Seq(Nat \ {0})] /\ Numbered(got'["up"])
          /\ Len(got'["up"]) = Len(got["up"]) + 1
          /\ \A e \in Directions : e # "up" => got'[e] = got[e]
      BY <1>1, <1>2, <2>3, Adds
    <3> QED BY <1>1, <1>2, <2>1, <2>3, <3>1 DEF Records
  <2> QED BY <1>7, <2>2, <2>3, ServerReadsIs
<1>8. CASE sent' = sent /\ got' = got
  BY <1>8 DEF Records
<1> QED BY <1>3, <1>4, <1>5, <1>6, <1>7, <1>8, WhoRecords

-----------------------------------------------------------------------------
(* Every step keeps the invariant: the two ends of the handshake.          *)

(* A server that stays as it is, or leaves.                                *)
LEMMA ServerStays ==
  ASSUME ServerShape, connection' = connection,
         server' = server \/ server' = [server EXCEPT !.stage = "gone"],
         Len(sent["down"])' = Len(sent["down"]), Len(got["up"])' = Len(got["up"])
  PROVE  /\ ServerShape' /\ server'.hs = server.hs /\ Served' = Served
         /\ server'.stage \in {server.stage, "gone"}
<1>1. server = [stage |-> server.stage, hs |-> server.hs, send |-> server.send, recv |-> server.recv]
  BY ServedIs DEF ServerShape, NobodyThere, Served
<1>2. server' = [stage |-> server'.stage, hs |-> server.hs, send |-> server.send, recv |-> server.recv]
  BY <1>1
<1>3. server'.stage \in {server.stage, "gone"} /\ server'.hs = server.hs
  BY <1>1
<1>4. Served' = Served
  BY <1>3 DEF Served
<1>5. CASE Served
  <2>1. /\ TheirKey \in StaticKeys /\ server.hs = ServerDone(TheirKey, connection, "COMPLETE")
        /\ server.send = [key |-> Transport("two", TheirKey), n |-> Len(sent["down"])]
        /\ server.recv = [key |-> Transport("one", TheirKey), n |-> Len(got["up"])]
    BY <1>5, ServedIs
  <2>2. PICK k \in StaticKeys : k = TheirKey
    BY <2>1
  <2>3. server' = [stage |-> server'.stage, hs |-> ServerDone(k, connection', "COMPLETE"),
                   send |-> [key |-> Transport("two", k)', n |-> Len(sent["down"])'],
                   recv |-> [key |-> Transport("one", k)', n |-> Len(got["up"])']]
    BY <1>2, <2>1, <2>2 DEF Transport
  <2>4. server'.stage \in {"ready", "gone"}
    BY <1>3, <1>5 DEF ServerShape
  <2> QED BY <1>3, <1>4, <1>5, <2>3, <2>4 DEF ServerShape, StaticKeys
<1>6. CASE ~Served
  <2>1. server = [NobodyThere EXCEPT !.stage = server.stage] /\ server.stage \in {"absent", "gone"}
    BY <1>6 DEF ServerShape
  <2>2. server' = [NobodyThere EXCEPT !.stage = server'.stage]
    BY <2>1 DEF NobodyThere
  <2> QED BY <1>3, <1>4, <1>6, <2>1, <2>2 DEF ServerShape
<1> QED BY <1>3, <1>4, <1>5, <1>6

(* The server's steps, and what the client's steps do to it.               *)
LEMMA WhoServes ==
  ASSUME [Next]_vars
  PROVE  \/ InitializeIk \/ ServerAnswers \/ ServerSends \/ ServerReads
         \/ /\ server' = server \/ server' = [server EXCEPT !.stage = "gone"]
            /\ connection' = connection
<1>1. CASE InitializeIkFails \/ BeginHandshake \/ Connect \/ ConnectFails \/ UpgradeAnswered
           \/ Pull \/ EncryptFails
  BY <1>1 DEF InitializeIkFails, BeginHandshake, Connect, ConnectFails, UpgradeAnswered,
              Pull, EncryptFails, history
<1>2. CASE TakeClose \/ AcceptHandshakeMessage \/ ReceivePlaintext \/ ReceiveFails
  BY <1>2 DEF TakeClose, AcceptHandshakeMessage, ReceivePlaintext, ReceiveFails, Take
<1>3. CASE UpgradeFails \/ HandshakeFails \/ SessionFails
  BY <1>3 DEF UpgradeFails, HandshakeFails, SessionFails, Close, history
<1>4. CASE SendPlaintext \/ ServerLeaves \/ ServerKeyChanges \/ UNCHANGED vars
  BY <1>4 DEF SendPlaintext, ServerLeaves, ServerKeyChanges, vars, history
<1> QED BY <1>1, <1>2, <1>3, <1>4 DEF Next

(* How many records the two ends have counted.                             *)
LEMMA WhoCounts ==
  ASSUME ServerShape, ClientShape, Traffic, Records, [Next]_vars
  PROVE  /\ ~InitializeIk /\ ~ServerSends => Len(sent'["down"]) = Len(sent["down"])
         /\ ~InitializeIk /\ ~ServerReads => Len(got'["up"]) = Len(got["up"])
         /\ ~InitializeIk /\ ~SendPlaintext => Len(sent'["up"]) = Len(sent["up"])
         /\ ~InitializeIk /\ ~ReceivePlaintext => Len(got'["down"]) = Len(got["down"])
<1>1. {sent, got} \subseteq [Directions -> Seq(Nat \ {0})] /\ "up" \in Directions
      /\ "down" \in Directions
  BY DEF Records, Directions
<1>2. SendPlaintext => sent'["down"] = sent["down"] /\ got' = got
  BY <1>1 DEF SendPlaintext
<1>3. ServerSends => sent'["up"] = sent["up"] /\ got' = got
  BY <1>1 DEF ServerSends
<1>4. ReceivePlaintext => got'["up"] = got["up"] /\ sent' = sent
  BY <1>1 DEF ReceivePlaintext, Take
<1>5. ServerReads => got'["down"] = got["down"] /\ sent' = sent
  BY <1>1, ServerReadsIs DEF ServerReads
<1> QED BY <1>2, <1>3, <1>4, <1>5, WhoRecords

LEMMA ServerShapeKept ==
  ASSUME ServerShape, ClientShape, Order, Traffic, Records, serverKey \in StaticKeys, [Next]_vars
  PROVE  ServerShape'
<1>1. {sent, got} \subseteq [Directions -> Seq(Nat \ {0})] /\ "up" \in Directions
      /\ "down" \in Directions
  BY DEF Records, Directions
<1>2. \A d \in Directions : Numbered(sent[d]) /\ Numbered(got[d])
  BY DEF Records
<1>3. CASE InitializeIk
  <2>1. server' = NobodyThere
    BY <1>3 DEF InitializeIk
  <2>2. NobodyThere.stage = "absent" /\ NobodyThere.hs = NoHandshake
        /\ NobodyThere = [NobodyThere EXCEPT !.stage = "absent"]
    BY DEF NobodyThere
  <2> QED BY <2>1, <2>2 DEF ServerShape, Served
<1>4. CASE ServerAnswers
  <2>1. server.stage = "absent" /\ ~Served /\ sent' = sent /\ got' = got /\ connection' = connection
    BY <1>4 DEF ServerAnswers, ServerShape, history
  <2>2. PICK k \in StaticKeys :
          \/ server' = [stage |-> "ready", hs |-> ServerDone(k, connection, "COMPLETE"),
                        send |-> [key |-> Transport("two", k), n |-> 0],
                        recv |-> [key |-> Transport("one", k), n |-> 0]]
          \/ server' = [server EXCEPT !.stage = "gone"]
    BY <1>4, AnswerIs
  <2>3. sent["down"] = <<>> /\ got["up"] = <<>>
    BY <1>1, <2>1 DEF Order
  <2>4. CASE server' = [server EXCEPT !.stage = "gone"]
    BY <2>1, <2>4, ServerStays
  <2>5. CASE server' = [stage |-> "ready", hs |-> ServerDone(k, connection, "COMPLETE"),
                        send |-> [key |-> Transport("two", k), n |-> 0],
                        recv |-> [key |-> Transport("one", k), n |-> 0]]
    <3>1. Transport("two", k)' = Transport("two", k) /\ Transport("one", k)' = Transport("one", k)
      BY <2>1 DEF Transport
    <3>2. Len(sent'["down"]) = 0 /\ Len(got'["up"]) = 0
      BY <2>1, <2>3
    <3>3. server'.stage = "ready" /\ server'.hs = ServerDone(k, connection, "COMPLETE")
      BY <2>5
    <3>4. server' = [stage |-> server'.stage, hs |-> ServerDone(k, connection', "COMPLETE"),
                     send |-> [key |-> Transport("two", k)', n |-> Len(sent'["down"])],
                     recv |-> [key |-> Transport("one", k)', n |-> Len(got'["up"])]]
      BY <2>1, <2>5, <3>1, <3>2, <3>3
    <3>5. Served'
      BY <3>3, RolesDiffer DEF Served
    <3> QED BY <3>3, <3>4, <3>5 DEF ServerShape, StaticKeys
  <2> QED BY <2>2, <2>4, <2>5
<1>5. CASE ServerSends
  <2>1. /\ Served /\ server' = [server EXCEPT !.send = [key |-> Transport("two", TheirKey),
                                                        n |-> Len(sent["down"]) + 1]]
        /\ Len(sent'["down"]) = Len(sent["down"]) + 1
        /\ Len(got'["up"]) = Len(got["up"]) /\ connection' = connection
    <3>1. sent' = [sent EXCEPT !["down"] = Append(@, Len(@) + 1)] /\ got' = got
          /\ connection' = connection
      BY <1>5 DEF ServerSends
    <3> QED BY <1>1, <1>2, <1>5, <3>1, Adds, ServerSendsIs
  <2>2. /\ TheirKey \in StaticKeys
        /\ server = [stage |-> server.stage, hs |-> ServerDone(TheirKey, connection, "COMPLETE"),
                     send |-> [key |-> Transport("two", TheirKey), n |-> Len(sent["down"])],
                     recv |-> [key |-> Transport("one", TheirKey), n |-> Len(got["up"])]]
    BY <2>1, ServedIs
  <2>4. server' = [stage |-> server.stage, hs |-> ServerDone(TheirKey, connection, "COMPLETE"),
                   send |-> [key |-> Transport("two", TheirKey), n |-> Len(sent["down"]) + 1],
                   recv |-> [key |-> Transport("one", TheirKey), n |-> Len(got["up"])]]
    BY <2>1, <2>2
  <2>5. server'.stage = server.stage /\ server'.hs = ServerDone(TheirKey, connection, "COMPLETE")
    BY <2>4
  <2>6. Served'
    BY <2>5, RolesDiffer DEF Served
  <2>7. \A label, k : Transport(label, k)' = Transport(label, k)
    BY <2>1 DEF Transport
  <2>8. \E k \in StaticKeys :
          server' = [stage |-> server'.stage, hs |-> ServerDone(k, connection', "COMPLETE"),
                     send |-> [key |-> Transport("two", k)', n |-> Len(sent'["down"])],
                     recv |-> [key |-> Transport("one", k)', n |-> Len(got'["up"])]]
    BY <2>1, <2>2, <2>4, <2>5, <2>7
  <2>9. server.stage = "ready"
    BY <1>5 DEF ServerSends
  <2> QED BY <2>5, <2>6, <2>8, <2>9 DEF ServerShape, StaticKeys
<1>6. CASE ServerReads
  <2>1. /\ server.stage = "ready" /\ sent' = sent /\ connection' = connection
    BY <1>6 DEF ServerReads
  <2>2. CASE server' = [server EXCEPT !.stage = "gone"] /\ got' = got
    BY <2>1, <2>2, ServerStays
  <2>3. CASE /\ server' = [server EXCEPT !.recv = [key |-> Transport("one", TheirKey),
                                                   n |-> Len(got["up"]) + 1]]
             /\ got' = [got EXCEPT !["up"] = Append(@, Len(@) + 1)]
    <3>1. Len(got'["up"]) = Len(got["up"]) + 1
      BY <1>1, <1>2, <2>3, Adds
    <3>2. /\ TheirKey \in StaticKeys
          /\ server = [stage |-> server.stage, hs |-> ServerDone(TheirKey, connection, "COMPLETE"),
                       send |-> [key |-> Transport("two", TheirKey), n |-> Len(sent["down"])],
                       recv |-> [key |-> Transport("one", TheirKey), n |-> Len(got["up"])]]
      BY <2>1, ServedIs DEF ServerShape
    <3>3. server' = [stage |-> server.stage, hs |-> ServerDone(TheirKey, connection, "COMPLETE"),
                     send |-> [key |-> Transport("two", TheirKey), n |-> Len(sent["down"])],
                     recv |-> [key |-> Transport("one", TheirKey), n |-> Len(got["up"]) + 1]]
      BY <2>3, <3>2
    <3>4. server'.stage = server.stage /\ server'.hs = ServerDone(TheirKey, connection, "COMPLETE")
      BY <3>3
    <3>5. Served'
      BY <3>4, RolesDiffer DEF Served
    <3>6. \A label, k : Transport(label, k)' = Transport(label, k)
      BY <2>1 DEF Transport
    <3>7. \E k \in StaticKeys :
            server' = [stage |-> server'.stage, hs |-> ServerDone(k, connection', "COMPLETE"),
                       send |-> [key |-> Transport("two", k)', n |-> Len(sent'["down"])],
                       recv |-> [key |-> Transport("one", k)', n |-> Len(got'["up"])]]
      BY <2>1, <3>1, <3>2, <3>3, <3>4, <3>6
    <3> QED BY <2>1, <3>4, <3>5, <3>7 DEF ServerShape, StaticKeys
  <2> QED BY <1>6, <2>2, <2>3, ServerReadsIs
<1>7. CASE ~(InitializeIk \/ ServerAnswers \/ ServerSends \/ ServerReads)
  <2>1. /\ server' = server \/ server' = [server EXCEPT !.stage = "gone"]
        /\ connection' = connection
    BY <1>7, WhoServes
  <2>2. Len(sent'["down"]) = Len(sent["down"]) /\ Len(got'["up"]) = Len(got["up"])
    BY <1>7, WhoCounts
  <2> QED BY <2>1, <2>2, ServerStays
<1> QED BY <1>3, <1>4, <1>5, <1>6, <1>7

(* A client that stays as it is, or fails.                                 *)
LEMMA ClientStays ==
  ASSUME ClientShape, hs' = hs, send' = send, recv' = recv, connection' = connection,
         stage' \in {stage, "kFailed"}, Served => server'.hs = server.hs,
         Len(sent["up"])' = Len(sent["up"]), Len(got["down"])' = Len(got["down"])
  PROVE  ClientShape'
<1>1. Served => Served' /\ TheirKey' = TheirKey
  BY DEF Served, TheirKey
<1>2. \A label, k : Transport(label, k)' = Transport(label, k)
  BY DEF Transport
<1>3. (stage' = "kIdle" \/ stage' = "kClientInit" \/ stage' = "kAwaitingServerResponse"
         \/ stage' = "kTransportReady") => stage' = stage
  OBVIOUS
<1>4. stage' \in Stages
  BY DEF ClientShape, Stages
<1>5. send # NoCipher =>
        /\ Served' /\ stage' \in {"kTransportReady", "kFailed"}
        /\ hs' = ClientDone(TheirKey', connection', "COMPLETE")
        /\ send' = [key |-> Transport("one", TheirKey)', n |-> Len(sent["up"])']
        /\ recv' = [key |-> Transport("two", TheirKey)', n |-> Len(got["down"])']
  BY <1>1, <1>2 DEF ClientShape
<1>6. stage' = "kIdle" => hs' \in {NoHandshake, NewHandshake("INITIATOR")}
  BY <1>3 DEF ClientShape
<1>7. stage' = "kClientInit" => hs' = NoHandshake \/ \E k \in StaticKeys : hs' = Keyed(k)
  BY <1>3 DEF ClientShape
<1>8. stage' = "kAwaitingServerResponse" =>
        hs' = NoHandshake \/ \E k \in StaticKeys : hs' = Waiting(k, connection')
  BY <1>3 DEF ClientShape
<1>9. stage' = "kTransportReady" => Served' /\ (hs' # NoHandshake => send' # NoCipher)
  BY <1>1, <1>3 DEF ClientShape
<1>10. (send' = NoCipher => recv' = NoCipher) /\ (hs' # NoHandshake => hs'.role = "INITIATOR")
  BY DEF ClientShape
<1> QED BY <1>4, <1>5, <1>6, <1>7, <1>8, <1>9, <1>10 DEF ClientShape, StaticKeys

(* The steps that change the client's handshake or its ciphers.            *)
LEMMA WhoShakes ==
  ASSUME ServerShape, Order, Traffic, [Next]_vars
  PROVE  \/ InitializeIk \/ InitializeIkFails \/ BeginHandshake \/ Connect \/ ConnectFails
         \/ AcceptHandshakeMessage \/ SendPlaintext \/ ReceivePlaintext
         \/ /\ hs' = hs /\ send' = send /\ recv' = recv /\ stage' \in {stage, "kFailed"}
<1>1. CASE UpgradeAnswered \/ UpgradeFails \/ Pull \/ TakeClose \/ EncryptFails \/ ReceiveFails
           \/ SessionFails
  BY <1>1 DEF UpgradeAnswered, UpgradeFails, Pull, TakeClose, EncryptFails, ReceiveFails, SessionFails
<1>2. CASE HandshakeFails
  BY <1>2, RefusedIs DEF HandshakeFails
<1>3. CASE ServerAnswers \/ ServerSends \/ ServerReads \/ ServerLeaves \/ ServerKeyChanges
           \/ UNCHANGED vars
  BY <1>3 DEF ServerAnswers, ServerSends, ServerReads, ServerLeaves, ServerKeyChanges, vars, client
<1> QED BY <1>1, <1>2, <1>3 DEF Next

(* Served once, the server keeps what its handshake has made of it.        *)
LEMMA HandshakeStays ==
  ASSUME ServerShape, Records, Traffic, [Next]_vars
  PROVE  /\ Served /\ ~InitializeIk => server'.hs = server.hs
         /\ ~InitializeIk => connection' = connection
<1>1. ~InitializeIk => connection' = connection
  BY WhoServes DEF ServerAnswers, ServerSends, ServerReads, history
<1>2. CASE Served /\ ~InitializeIk
  <2>1. /\ server = [stage |-> server.stage, hs |-> server.hs, send |-> server.send,
                     recv |-> server.recv]
        /\ server.stage # "absent"
    BY <1>2, ServedIs DEF ServerShape
  <2>2. ~ServerAnswers
    BY <2>1 DEF ServerAnswers
  <2>3. \/ server' = server \/ server' = [server EXCEPT !.stage = "gone"]
        \/ \E c : server' = [server EXCEPT !.send = c]
        \/ \E c : server' = [server EXCEPT !.recv = c]
    BY <1>2, <2>2, WhoServes, ServerSendsIs, ServerReadsIs
  <2> QED BY <1>1, <1>2, <2>1, <2>3
<1> QED BY <1>1, <1>2

(* The static keys are set one after the other.                            *)
LEMMA KeyedIs == WithStaticKeys(NewHandshake("INITIATOR")) = Keyed(serverKey)
<1> DEFINE State(s, rs) ==
             HandshakeState("INITIATOR", "NONE", PatternIK, <<ProtocolName>>, <<>>, InitKey(NoKey),
                            s, None, rs, None)
<1>1. NewHandshake("INITIATOR") = State(None, None)
  BY DEF NewHandshake, HandshakeState
<1>2. [State(None, None) EXCEPT !.s = Machine] = State(Machine, None)
  BY DEF HandshakeState
<1>3. [State(Machine, None) EXCEPT !.rs = serverKey] = State(Machine, serverKey)
  BY DEF HandshakeState
<1> HIDE DEF State
<1>4. WithStaticKeys(State(None, None))
        = [[State(None, None) EXCEPT !.s = Machine] EXCEPT !.rs = serverKey]
  BY DEF WithStaticKeys, FetchedControlKey
<1>5. WithStaticKeys(State(None, None)) = State(Machine, serverKey)
  BY <1>2, <1>3, <1>4
<1> QED BY <1>1, <1>5 DEF Keyed, State

LEMMA ClientShapeKept ==
  ASSUME ServerShape, ClientShape, Order, Traffic, Records, serverKey \in StaticKeys, [Next]_vars
  PROVE  ClientShape'
<1>1. {sent, got} \subseteq [Directions -> Seq(Nat \ {0})] /\ "up" \in Directions
      /\ "down" \in Directions
  BY DEF Records, Directions
<1>2. \A d \in Directions : Numbered(sent[d]) /\ Numbered(got[d])
  BY DEF Records
<1>3. /\ NewHandshake("INITIATOR") # NoHandshake /\ NewHandshake("INITIATOR").role = "INITIATOR"
      /\ NoHandshake.role = "NONE"
  BY DEF NewHandshake, HandshakeState, NoHandshake
<1>4. \A label \in {"one", "two"} : \A k : Transport(label, k) # NoKey
  BY NamesDiffer DEF Transport
<1>5. \A label \in {"one", "two"} : \A k, n : [key |-> Transport(label, k), n |-> n] # NoCipher
  <2> SUFFICES ASSUME NEW label \in {"one", "two"}, NEW k, NEW n,
                      [key |-> Transport(label, k), n |-> n] = NoCipher
               PROVE  FALSE
    OBVIOUS
  <2>1. [key |-> Transport(label, k), n |-> n].key = NoKey
    BY DEF NoCipher, InitKey
  <2> QED BY <1>4, <2>1
<1>6. CASE InitializeIk
  BY <1>3, <1>6 DEF InitializeIk, ClientShape, Stages, StaticKeys
<1>7. CASE InitializeIkFails
  <2>1. /\ hs' = NoHandshake /\ send' = NoCipher /\ recv' = NoCipher /\ stage' = stage
        /\ server' = server
    BY <1>7 DEF InitializeIkFails
  <2>2. Served' = Served
    BY <2>1 DEF Served
  <2> QED BY <2>1, <2>2 DEF ClientShape, StaticKeys
<1>8. CASE BeginHandshake
  <2>1. /\ stage = "kIdle" /\ hs # NoHandshake /\ hs' = WithStaticKeys(hs)
        /\ stage' = "kClientInit" /\ send' = send /\ recv' = recv
    BY <1>8 DEF BeginHandshake
  <2>2. hs = NewHandshake("INITIATOR") /\ send = NoCipher
    BY <2>1 DEF ClientShape
  <2>3. WithStaticKeys(NewHandshake("INITIATOR")) = Keyed(serverKey)
    BY KeyedIs
  <2>4. Keyed(serverKey).role = "INITIATOR"
    BY DoneFields
  <2>5. hs' = Keyed(serverKey) /\ send' = NoCipher /\ recv' = NoCipher
    BY <2>1, <2>2, <2>3 DEF ClientShape
  <2> QED BY <2>1, <2>4, <2>5 DEF ClientShape, Stages, StaticKeys
<1>9. CASE Connect \/ ConnectFails
  <2>1. stage = "kClientInit" /\ send' = send /\ recv' = recv /\ connection' = connection
    BY <1>9 DEF Connect, ConnectFails, history
  <2>2. send = NoCipher /\ recv = NoCipher
    BY <2>1 DEF ClientShape
  <2>3. \/ hs' = NoHandshake /\ stage' = "kFailed"
        \/ /\ \E k \in StaticKeys : hs' = Waiting(k, connection)
           /\ stage' \in {"kAwaitingServerResponse", "kFailed"}
    <3>1. CASE hs = NoHandshake
      BY <1>9, <3>1 DEF Connect, ConnectFails
    <3>2. CASE hs # NoHandshake
      <4>1. PICK k \in StaticKeys : BuildHandshakeMessage
              = [hs |-> Waiting(k, connection), out |-> FirstMessage(k, connection), err |-> "NONE"]
        BY <2>1, <3>2, BuildIs
      <4>2. BuildHandshakeMessage.hs = Waiting(k, connection)
        BY <4>1
      <4> QED BY <1>9, <3>2, <4>2 DEF Connect, ConnectFails
    <3> QED BY <3>1, <3>2
  <2>4. hs' # NoHandshake => hs'.role = "INITIATOR"
    BY <2>3, DoneFields
  <2> QED BY <2>1, <2>2, <2>3, <2>4 DEF ClientShape, Stages, StaticKeys
<1>10. CASE AcceptHandshakeMessage
  <2>1. /\ Served /\ hs' = ClientDone(TheirKey, connection, "COMPLETE")
        /\ send' = [key |-> Transport("one", TheirKey), n |-> 0]
        /\ recv' = [key |-> Transport("two", TheirKey), n |-> 0]
    BY <1>10, AcceptedIs
  <2>2. /\ stage = "kAwaitingServerResponse" /\ stage' = "kTransportReady"
        /\ server' = server /\ sent' = sent /\ got' = got /\ connection' = connection
    BY <1>10 DEF AcceptHandshakeMessage, Take
  <2>3. Len(sent'["up"]) = 0 /\ Len(got'["down"]) = 0
    BY <2>2 DEF Order
  <2>4. /\ Served' /\ TheirKey' = TheirKey
        /\ \A label, k : Transport(label, k)' = Transport(label, k)
    BY <2>1, <2>2 DEF Served, TheirKey, Transport
  <2>5. send' # NoCipher /\ hs'.role = "INITIATOR"
    BY <1>5, <2>1, DoneFields
  <2> QED BY <2>1, <2>2, <2>3, <2>4, <2>5 DEF ClientShape, Stages, StaticKeys
<1>11. CASE SendPlaintext \/ ReceivePlaintext
  <2>1. /\ stage' = stage /\ stage = "kTransportReady" /\ hs' = hs /\ server' = server
        /\ connection' = connection
    BY <1>11 DEF SendPlaintext, ReceivePlaintext, Take
  <2>2. /\ Served' = Served /\ TheirKey' = TheirKey
        /\ \A label, k : Transport(label, k)' = Transport(label, k)
    BY <2>1 DEF Served, TheirKey, Transport
  <2>3. /\ Served
        /\ send' = [key |-> Transport("one", TheirKey), n |-> Len(sent'["up"])]
        /\ recv' = [key |-> Transport("two", TheirKey), n |-> Len(got'["down"])]
        /\ hs = ClientDone(TheirKey, connection, "COMPLETE")
    <3>1. CASE SendPlaintext
      <4>1. sent' = [sent EXCEPT !["up"] = Append(@, Len(@) + 1)] /\ got' = got /\ recv' = recv
            /\ send # NoCipher
        BY <3>1 DEF SendPlaintext
      <4>2. Len(sent'["up"]) = Len(sent["up"]) + 1
        BY <1>1, <1>2, <4>1, Adds
      <4> QED BY <3>1, <4>1, <4>2, SendIs DEF ClientShape
    <3>2. CASE ReceivePlaintext
      <4>1. sent' = sent /\ send' = send /\ recv # NoCipher
        BY <3>2 DEF ReceivePlaintext, Take, Readable
      <4>2. Len(got'["down"]) = Len(got["down"]) + 1
        BY <1>1, <1>2, <3>2, ReceivedIs, Adds
      <4> QED BY <3>2, <4>1, <4>2, ReceivedIs DEF ClientShape
    <3> QED BY <1>11, <3>1, <3>2
  <2>4. send' # NoCipher /\ hs'.role = "INITIATOR"
    BY <1>5, <2>1, <2>3, DoneFields
  <2> QED BY <2>1, <2>2, <2>3, <2>4 DEF ClientShape, Stages, StaticKeys
<1>12. CASE /\ hs' = hs /\ send' = send /\ recv' = recv /\ stage' \in {stage, "kFailed"}
            /\ ~InitializeIk /\ ~SendPlaintext /\ ~ReceivePlaintext
  <2>1. Len(sent'["up"]) = Len(sent["up"]) /\ Len(got'["down"]) = Len(got["down"])
    BY <1>12, WhoCounts
  <2> QED BY <1>12, <2>1, HandshakeStays, ClientStays
<1> QED BY <1>6, <1>7, <1>8, <1>9, <1>10, <1>11, <1>12, WhoShakes

-----------------------------------------------------------------------------
(* Every step keeps the invariant: what comes before what.                 *)

(* A step of the two ends once the server has answered.                    *)
LEMMA OrderGoesOn ==
  ASSUME Order, server'.stage # "absent", connection' = connection,
         stage \notin {"kIdle", "kClientInit"},
         stage' \in {stage, "kTransportReady", "kFailed"},
         hs' = hs \/ hs' = NoHandshake \/ stage' # stage,
         Served' = Served /\ (Served => server'.hs = server.hs),
         ~Served => pending' = <<>> /\ sent' = sent /\ got' = got,
         stage' = "kAwaitingServerResponse" =>
           sent'["up"] = sent["up"] /\ got'["down"] = got["down"]
  PROVE  Order'
<1>1. stage' \notin {"kIdle", "kClientInit"}
  OBVIOUS
<1>2. ~Served' => pending' = <<>> /\ \A d \in Directions : sent'[d] = <<>> /\ got'[d] = <<>>
  BY DEF Order
<1>3. stage' = "kAwaitingServerResponse" => sent'["up"] = <<>> /\ got'["down"] = <<>>
  BY DEF Order
<1>4. Served' /\ stage' = "kAwaitingServerResponse" /\ hs' # NoHandshake =>
        hs' = Waiting(TheirKey', connection')
  BY DEF Order, TheirKey
<1> QED BY <1>1, <1>2, <1>3, <1>4 DEF Order

LEMMA OrderKept ==
  ASSUME ServerShape, ClientShape, Order, Traffic, Records, serverKey \in StaticKeys, [Next]_vars
  PROVE  Order'
<1>1. server.stage # "absent" => stage \notin {"kIdle", "kClientInit"}
  BY DEF Order
<1>2. ServerShape'
  BY ServerShapeKept
<1>3. CASE InitializeIk
  <2>1. \A d \in Directions : sent'[d] = <<>> /\ got'[d] = <<>>
    BY <1>3 DEF InitializeIk
  <2>2. server'.stage = "absent" /\ stage' = "kIdle"
    BY <1>3 DEF InitializeIk, NobodyThere
  <2> QED BY <1>3, <2>1, <2>2 DEF InitializeIk, Order
<1>4. CASE InitializeIkFails
  <2>1. /\ hs' = NoHandshake /\ connection' = connection /\ stage' = stage /\ tls' = tls
        /\ upgraded' = upgraded /\ server' = server /\ up' = up /\ down' = down
        /\ recvBuffer' = recvBuffer /\ pending' = pending /\ sent' = sent /\ got' = got
    BY <1>4 DEF InitializeIkFails, history
  <2> QED BY <2>1 DEF Order, Served, StaticKeys
<1>5. CASE BeginHandshake
  <2>1. /\ stage = "kIdle" /\ stage' = "kClientInit" /\ connection' = connection /\ tls' = tls
        /\ upgraded' = upgraded /\ server' = server /\ up' = up /\ down' = down
        /\ recvBuffer' = recvBuffer /\ pending' = pending /\ sent' = sent /\ got' = got
    BY <1>5 DEF BeginHandshake, history
  <2> QED BY <2>1 DEF Order, Served, StaticKeys
<1>6. CASE Connect
  <2>1. /\ stage = "kClientInit" /\ hs # NoHandshake /\ stage' = "kAwaitingServerResponse"
        /\ hs' = BuildHandshakeMessage.hs /\ up' = Request(BuildHandshakeMessage.out)
        /\ connection' = connection
        /\ upgraded' = upgraded /\ server' = server /\ down' = down
        /\ recvBuffer' = recvBuffer /\ pending' = pending /\ sent' = sent /\ got' = got
    BY <1>6 DEF Connect
  <2>2. server.stage = "absent" /\ ~Served
    BY <2>1 DEF Order, ServerShape
  <2>3. PICK k \in StaticKeys : BuildHandshakeMessage
          = [hs |-> Waiting(k, connection), out |-> FirstMessage(k, connection), err |-> "NONE"]
    BY <2>1, BuildIs
  <2>4. hs' = Waiting(k, connection') /\ up' = Request(FirstMessage(k, connection'))
    <3>1. BuildHandshakeMessage.hs = Waiting(k, connection)
          /\ BuildHandshakeMessage.out = FirstMessage(k, connection)
      BY <2>3
    <3> QED BY <2>1, <3>1
  <2>5. "up" \in Directions /\ "down" \in Directions
    BY DEF Directions
  <2>6. sent["up"] = <<>> /\ got["down"] = <<>>
    BY <2>2, <2>5 DEF Order
  <2> QED BY <2>1, <2>2, <2>4, <2>6 DEF Order, Served, StaticKeys
<1>7. CASE ConnectFails
  <2>1. /\ stage = "kClientInit" /\ stage' = "kFailed" /\ connection' = connection /\ tls' = tls
        /\ upgraded' = upgraded /\ server' = server /\ up' = up /\ down' = down
        /\ recvBuffer' = recvBuffer /\ pending' = pending /\ sent' = sent /\ got' = got
    BY <1>7 DEF ConnectFails, history
  <2> QED BY <2>1 DEF Order, Served, StaticKeys
<1>8. CASE UpgradeAnswered \/ Pull
  <2>1. server.stage # "absent"
    BY <1>8 DEF UpgradeAnswered, Pull, Order
  <2>2. /\ stage' = stage /\ hs' = hs /\ pending' = pending /\ server' = server
        /\ connection' = connection /\ sent' = sent /\ got' = got
    BY <1>8 DEF UpgradeAnswered, Pull, history
  <2>3. ~Served => pending' = <<>>
    BY <2>2 DEF Order
  <2> QED BY <1>1, <2>1, <2>2, <2>3, OrderGoesOn DEF Served
<1>9. CASE UpgradeFails \/ HandshakeFails \/ SessionFails
  <2>1. stage \notin {"kIdle", "kClientInit"}
    BY <1>9 DEF UpgradeFails, HandshakeFails, SessionFails, Order
  <2>2. /\ stage' \in {stage, "kFailed"} /\ hs' = hs /\ pending' = <<>>
        /\ server' = [server EXCEPT !.stage = "gone"]
        /\ connection' = connection /\ sent' = sent /\ got' = got
    BY <1>9, RefusedIs DEF UpgradeFails, HandshakeFails, SessionFails, Close, history
  <2>3. server'.stage # "absent" /\ Served' = Served /\ server'.hs = server.hs
    BY <1>2, <2>2, ServerStays DEF ServerShape
  <2> QED BY <2>1, <2>2, <2>3, OrderGoesOn
<1>10. CASE TakeClose \/ ReceiveFails
  <2>1. server.stage # "absent"
    BY <1>10 DEF TakeClose, ReceiveFails, Take, Order
  <2>2. /\ stage' \in {stage, "kFailed"} /\ hs' = hs /\ pending' = pending /\ server' = server
        /\ connection' = connection /\ sent' = sent /\ got' = got
    BY <1>10 DEF TakeClose, ReceiveFails, Take
  <2>3. ~Served => pending' = <<>>
    BY <2>2 DEF Order
  <2> QED BY <1>1, <2>1, <2>2, <2>3, OrderGoesOn DEF Served
<1>11. CASE AcceptHandshakeMessage
  <2>1. Served /\ server.stage # "absent"
    BY <1>11, AcceptedIs DEF ServerShape
  <2>2. /\ stage = "kAwaitingServerResponse" /\ stage' = "kTransportReady" /\ server' = server
        /\ connection' = connection
    BY <1>11 DEF AcceptHandshakeMessage, Take
  <2> QED BY <2>1, <2>2, OrderGoesOn DEF Served
<1>12. CASE SendPlaintext \/ ReceivePlaintext
  <2>1. Served /\ server.stage # "absent"
    BY <1>12, SendIs, ReceivedIs DEF ServerShape
  <2>2. /\ stage = "kTransportReady" /\ stage' = stage /\ hs' = hs /\ server' = server
        /\ connection' = connection
    BY <1>12 DEF SendPlaintext, ReceivePlaintext, Take
  <2> QED BY <2>1, <2>2, OrderGoesOn DEF Served
<1>13. CASE EncryptFails
  <2>1. /\ stage = "kTransportReady" /\ stage' = "kFailed" /\ connection' = connection
        /\ pending' = pending /\ server' = server /\ sent' = sent /\ got' = got
    BY <1>13 DEF EncryptFails, history
  <2>2. Served /\ server.stage # "absent"
    BY <2>1 DEF ClientShape, ServerShape
  <2> QED BY <2>1, <2>2, OrderGoesOn DEF Served
<1>14. CASE ServerAnswers
  <2>1. PICK k \in StaticKeys :
          /\ stage = "kAwaitingServerResponse" /\ hs # NoHandshake => hs = Waiting(k, connection)
          /\ \/ server' = [stage |-> "ready", hs |-> ServerDone(k, connection, "COMPLETE"),
                           send |-> [key |-> Transport("two", k), n |-> 0],
                           recv |-> [key |-> Transport("one", k), n |-> 0]]
             \/ server' = [server EXCEPT !.stage = "gone"]
    BY <1>14, AnswerIs
  <2>2. /\ server.stage = "absent" /\ up # <<>> /\ stage' = stage /\ hs' = hs
        /\ pending' = pending /\ connection' = connection /\ sent' = sent /\ got' = got
    BY <1>14 DEF ServerAnswers, client, history
  <2>3. ~Served /\ stage \notin {"kIdle", "kClientInit"}
    BY <2>2 DEF Order, ServerShape
  <2>4. CASE server' = [server EXCEPT !.stage = "gone"]
    <3>1. server'.stage # "absent" /\ Served' = Served
      BY <2>2, <2>3, <2>4, ServerStays DEF ServerShape
    <3>2. pending' = <<>>
      BY <2>2, <2>3 DEF Order
    <3> QED BY <2>2, <2>3, <3>1, <3>2, OrderGoesOn
  <2>5. CASE server' = [stage |-> "ready", hs |-> ServerDone(k, connection, "COMPLETE"),
                        send |-> [key |-> Transport("two", k), n |-> 0],
                        recv |-> [key |-> Transport("one", k), n |-> 0]]
    <3>1. server'.stage = "ready" /\ server'.hs = ServerDone(k, connection, "COMPLETE")
      BY <2>5
    <3>2. Served' /\ TheirKey' = k
      BY <3>1, RolesDiffer, DoneFields DEF Served, TheirKey
    <3> QED BY <2>1, <2>2, <2>3, <3>1, <3>2 DEF Order
  <2> QED BY <2>1, <2>4, <2>5
<1>15. CASE ServerSends \/ ServerReads
  <2>1. /\ server.stage = "ready" /\ stage' = stage /\ hs' = hs /\ connection' = connection
    BY <1>15 DEF ServerSends, ServerReads, client
  <2>2. Served /\ server = [stage |-> server.stage, hs |-> server.hs, send |-> server.send,
                           recv |-> server.recv]
    BY <2>1, ServedIs DEF ServerShape
  <2>3. \/ server' = [server EXCEPT !.stage = "gone"]
        \/ \E c : server' = [server EXCEPT !.send = c]
        \/ \E c : server' = [server EXCEPT !.recv = c]
    BY <1>15, ServerSendsIs, ServerReadsIs
  <2>4. server'.stage # "absent" /\ server'.hs = server.hs
    BY <2>1, <2>2, <2>3
  <2>5. Served'
    BY <2>2, <2>4 DEF Served
  <2>6. sent'["up"] = sent["up"] /\ got'["down"] = got["down"]
    <3>1. {sent, got} \subseteq [Directions -> Seq(Nat \ {0})] /\ "up" \in Directions
          /\ "down" \in Directions
      BY DEF Records, Directions
    <3>2. CASE ServerSends
      BY <3>1, <3>2 DEF ServerSends
    <3>3. CASE ServerReads
      BY <3>1, <3>3, ServerReadsIs DEF ServerReads
    <3> QED BY <1>15, <3>2, <3>3
  <2> QED BY <1>1, <2>1, <2>2, <2>4, <2>5, <2>6, OrderGoesOn
<1>16. CASE ServerLeaves
  <2>1. /\ stage \notin {"kIdle", "kClientInit"} /\ stage' = stage /\ hs' = hs
        /\ pending' = pending /\ server' = [server EXCEPT !.stage = "gone"]
        /\ connection' = connection /\ sent' = sent /\ got' = got
    BY <1>16 DEF ServerLeaves, client, history, Order
  <2>2. server'.stage # "absent" /\ Served' = Served /\ server'.hs = server.hs
    BY <1>2, <2>1, ServerStays DEF ServerShape
  <2>3. ~Served => pending' = <<>>
    BY <2>1 DEF Order
  <2> QED BY <2>1, <2>2, <2>3, OrderGoesOn
<1>17. CASE ServerKeyChanges \/ UNCHANGED vars
  <2>1. /\ hs' = hs /\ stage' = stage /\ connection' = connection /\ tls' = tls
        /\ upgraded' = upgraded /\ server' = server /\ up' = up /\ down' = down
        /\ recvBuffer' = recvBuffer /\ pending' = pending /\ sent' = sent /\ got' = got
    BY <1>17 DEF ServerKeyChanges, vars, client, history
  <2> QED BY <2>1 DEF Order, Served, TheirKey, StaticKeys
<1> QED BY <1>3, <1>4, <1>5, <1>6, <1>7, <1>8, <1>9, <1>10, <1>11, <1>12, <1>13, <1>14, <1>15,
           <1>16, <1>17 DEF Next

-----------------------------------------------------------------------------
(* Every step keeps the invariant: what is on its way.                     *)

(* A part of a sequence of pieces is one too.                              *)
LEMMA PartOf ==
  ASSUME NEW S, NEW s \in Seq(S), NEW m \in Nat \ {0}, NEW n \in 0 .. Len(s)
  PROVE  /\ SubSeq(s, m, n) \in Seq(S)
         /\ Len(SubSeq(s, m, n)) = IF m <= n THEN n - m + 1 ELSE 0
         /\ \A i \in 1 .. n - m + 1 : SubSeq(s, m, n)[i] = s[m + i - 1]
<1>1. \A i \in m .. n : s[i] \in S
  OBVIOUS
<1>2. PICK x \in Int, y \in Int : x = m /\ y = n
  OBVIOUS
<1>3. /\ SubSeq(s, x, y) \in Seq(S)
      /\ Len(SubSeq(s, x, y)) = IF x <= y THEN y - x + 1 ELSE 0
      /\ \A i \in 1 .. y - x + 1 : SubSeq(s, x, y)[i] = s[x + i - 1]
  BY <1>1, <1>2, SubSeqProperties
<1> QED BY <1>2, <1>3

LEMMA FrameIs ==
  ASSUME NEW M, NEW m \in M
  PROVE  /\ Frame(m) \in Seq(Pieces(M)) /\ Len(Frame(m)) = 2
         /\ Frame(m)[1] = [part |-> 1, msg |-> m] /\ Frame(m)[2] = [part |-> 2, msg |-> m]
<1>1. [part |-> 1, msg |-> m] \in Pieces(M) /\ [part |-> 2, msg |-> m] \in Pieces(M)
  BY DEF Pieces
<1> QED BY <1>1 DEF Frame

LEMMA HeaderIs ==
  ASSUME NEW M, Message("101", <<>>) \in M, Garbage \in M, NEW n \in 1 .. 2
  PROVE  /\ Header(n) \in Seq(Pieces(M)) /\ Len(Header(n)) = n /\ Len(Header(2)) = 2
         /\ \A i \in 1 .. n : Header(n)[i] = Header(2)[i]
         /\ Header(2)[1] = [part |-> 0, msg |-> Message("101", <<>>)]
         /\ Header(2)[2] = [part |-> 1, msg |-> Garbage]
<1> DEFINE both == <<[part |-> 0, msg |-> Message("101", <<>>)], [part |-> 1, msg |-> Garbage]>>
<1>1. both \in Seq(Pieces(M)) /\ Len(both) = 2
  BY DEF Pieces
<1>2. /\ both[1] = [part |-> 0, msg |-> Message("101", <<>>)]
      /\ both[2] = [part |-> 1, msg |-> Garbage]
  OBVIOUS
<1> HIDE DEF both
<1>3. ASSUME NEW k \in 1 .. 2
      PROVE  /\ Header(k) \in Seq(Pieces(M)) /\ Len(Header(k)) = k
             /\ \A i \in 1 .. k : Header(k)[i] = both[i]
  <2>1. 1 \in Nat \ {0} /\ k \in 0 .. Len(both)
    BY <1>1
  <2>2. /\ SubSeq(both, 1, k) \in Seq(Pieces(M))
        /\ Len(SubSeq(both, 1, k)) = IF 1 <= k THEN k - 1 + 1 ELSE 0
        /\ \A i \in 1 .. k - 1 + 1 : SubSeq(both, 1, k)[i] = both[1 + i - 1]
    BY <1>1, <2>1, PartOf
  <2>3. k - 1 + 1 = k /\ \A i \in 1 .. k : 1 + i - 1 = i
    OBVIOUS
  <2>4. Header(k) = SubSeq(both, 1, k)
    BY DEF Header, both
  <2> QED BY <2>2, <2>3, <2>4
<1>4. PICK two \in 1 .. 2 : two = 2
  OBVIOUS
<1>5. /\ Len(Header(two)) = two /\ \A i \in 1 .. two : Header(two)[i] = both[i]
  BY <1>3
<1>6. /\ Len(Header(2)) = 2 /\ Header(2)[1] = both[1] /\ Header(2)[2] = both[2]
      /\ \A i \in 1 .. n : Header(2)[i] = both[i]
  BY <1>4, <1>5
<1>7. /\ Header(n) \in Seq(Pieces(M)) /\ Len(Header(n)) = n
      /\ \A i \in 1 .. n : Header(n)[i] = both[i]
  BY <1>3
<1> QED BY <1>2, <1>6, <1>7

(* More may be on its way as more is sent.                                 *)
LEMMA MessagesGrow ==
  ASSUME connection' = connection, Served => server'.hs = server.hs,
         Len(sent["up"]) \in Nat, Len(sent["down"]) \in Nat,
         Len(sent'["up"]) \in Nat, Len(sent'["down"]) \in Nat,
         Len(sent["up"]) <= Len(sent'["up"]), Len(sent["down"]) <= Len(sent'["down"])
  PROVE  UpMessages \subseteq UpMessages' /\ DownMessages \subseteq DownMessages'
<1>1. Served => Served' /\ TheirKey' = TheirKey
  BY DEF Served, TheirKey
<1>2. \A label, n : Served => Record(label, n)' = Record(label, n)
  BY <1>1 DEF Record, Transport
<1>3. Served => Response' = Response
  BY <1>1 DEF Response
<1>4. ASSUME NEW m \in UpMessages
      PROVE  m \in UpMessages'
  <2>1. CASE \E k \in StaticKeys : m = Message("initiation", FirstMessage(k, connection))
    BY <2>1 DEF UpMessages, StaticKeys
  <2>2. CASE Served /\ \E n \in 0 .. Len(sent["up"]) - 1 : m = Record("one", n)
    <3>1. PICK n \in 0 .. Len(sent["up"]) - 1 : m = Record("one", n)
      BY <2>2
    <3>2. n \in 0 .. Len(sent'["up"]) - 1 /\ m = Record("one", n)'
      BY <1>2, <2>2, <3>1
    <3> QED BY <1>1, <2>2, <3>2 DEF UpMessages
  <2> QED BY <2>1, <2>2 DEF UpMessages
<1>5. ASSUME NEW m \in DownMessages
      PROVE  m \in DownMessages'
  <2>1. CASE m \in {Message("101", <<>>), Garbage, Message("error", <<>>), Message("close", <<>>)}
    BY <2>1 DEF DownMessages
  <2>2. CASE Served /\ m = Response
    BY <1>1, <1>3, <2>2 DEF DownMessages
  <2>3. CASE Served /\ \E n \in 0 .. Len(sent["down"]) - 1 : m = Record("two", n)
    <3>1. PICK n \in 0 .. Len(sent["down"]) - 1 : m = Record("two", n)
      BY <2>3
    <3>2. n \in 0 .. Len(sent'["down"]) - 1 /\ m = Record("two", n)'
      BY <1>2, <2>3, <3>1
    <3> QED BY <1>1, <2>3, <3>2 DEF DownMessages
  <2> QED BY <2>1, <2>2, <2>3 DEF DownMessages
<1> QED BY <1>4, <1>5

LEMMA PiecesGrow ==
  ASSUME NEW M, NEW N, M \subseteq N
  PROVE  Seq(Pieces(M)) \subseteq Seq(Pieces(N))
<1>1. Pieces(M) \subseteq Pieces(N)
  BY DEF Pieces
<1>2. ASSUME NEW s \in Seq(Pieces(M))
      PROVE  s \in Seq(Pieces(N))
  <2>1. /\ s \in [1 .. Len(s) -> Pieces(M)] /\ Len(s) \in Nat
    OBVIOUS
  <2>2. s \in [1 .. Len(s) -> Pieces(N)]
    BY <1>1, <2>1
  <2> QED BY <2>1, <2>2
<1> QED BY <1>2

(* In every step that begins no new connection the messages that may be on *)
(* their way stay so, and the buffers hold still such messages.            *)
LEMMA StillTraffic ==
  ASSUME ServerShape, ClientShape, Traffic, Records, Records', [Next]_vars, ~InitializeIk
  PROVE  /\ UpMessages \subseteq UpMessages' /\ DownMessages \subseteq DownMessages'
         /\ {up, pending} \subseteq Seq(Pieces(UpMessages'))
         /\ {recvBuffer, down} \subseteq Seq(Pieces(DownMessages'))
<1>1. /\ Len(sent["up"]) \in Nat /\ Len(sent["down"]) \in Nat
      /\ Len(sent'["up"]) \in Nat /\ Len(sent'["down"]) \in Nat
  BY DEF Records, Directions
<1>2. {sent, got} \subseteq [Directions -> Seq(Nat \ {0})] /\ "up" \in Directions
      /\ "down" \in Directions /\ \A d \in Directions : Numbered(sent[d])
  BY DEF Records, Directions
<1>3. Len(sent["up"]) <= Len(sent'["up"])
  <2>1. SendPlaintext => Len(sent'["up"]) = Len(sent["up"]) + 1
    BY <1>2, Adds DEF SendPlaintext
  <2> QED BY <1>1, <2>1, WhoCounts
<1>4. Len(sent["down"]) <= Len(sent'["down"])
  <2>1. ServerSends => Len(sent'["down"]) = Len(sent["down"]) + 1
    BY <1>2, Adds DEF ServerSends
  <2> QED BY <1>1, <2>1, WhoCounts
<1>5. UpMessages \subseteq UpMessages' /\ DownMessages \subseteq DownMessages'
  BY <1>1, <1>3, <1>4, HandshakeStays, MessagesGrow
<1> QED BY <1>5, PiecesGrow DEF Traffic

LEMMA TrafficKept ==
  ASSUME ServerShape, ClientShape, Order, Traffic, Records, Records', serverKey \in StaticKeys,
         [Next]_vars
  PROVE  Traffic'
<1> DEFINE U == Seq(Pieces(UpMessages'))
           D == Seq(Pieces(DownMessages'))
<1>1. SUFFICES up' \in U /\ pending' \in U /\ recvBuffer' \in D /\ down' \in D
  BY DEF Traffic
<1>2. CASE InitializeIk
  BY <1>2 DEF InitializeIk
<1>3. ASSUME ~InitializeIk
      PROVE  /\ UpMessages \subseteq UpMessages' /\ DownMessages \subseteq DownMessages'
             /\ up \in U /\ pending \in U /\ recvBuffer \in D /\ down \in D
  BY <1>3, StillTraffic
<1>4. /\ Message("101", <<>>) \in DownMessages' /\ Garbage \in DownMessages'
      /\ Message("error", <<>>) \in DownMessages' /\ Message("close", <<>>) \in DownMessages'
      /\ Served' => Response' \in DownMessages'
  BY DEF DownMessages
<1>5. \A n \in 1 .. Len(down) : /\ ~InitializeIk => SubSeq(down, 1, n) \in D
                                /\ ~InitializeIk => SubSeq(down, 2, n) \in D
                                /\ ~InitializeIk => SubSeq(down, n + 1, Len(down)) \in D
  <2> SUFFICES ASSUME NEW n \in 1 .. Len(down), ~InitializeIk
               PROVE  /\ SubSeq(down, 1, n) \in D /\ SubSeq(down, 2, n) \in D
                      /\ SubSeq(down, n + 1, Len(down)) \in D
    OBVIOUS
  <2>1. down \in D /\ Len(down) \in Nat
    BY <1>3
  <2> HIDE DEF D
  <2>2. n \in 0 .. Len(down) /\ Len(down) \in 0 .. Len(down) /\ n + 1 \in Nat \ {0}
    BY <2>1
  <2> QED BY <2>1, <2>2, PartOf DEF D
<1> HIDE DEF U, D
<1>6. CASE InitializeIkFails \/ BeginHandshake \/ ConnectFails \/ EncryptFails
           \/ ServerKeyChanges \/ UNCHANGED vars
  <2>1. /\ up' = up /\ pending' = pending /\ recvBuffer' = recvBuffer /\ down' = down
        /\ connection' = connection
    BY <1>6 DEF InitializeIkFails, BeginHandshake, ConnectFails, EncryptFails, ServerKeyChanges,
                vars, client, history
  <2> QED BY <1>2, <1>3, <2>1
<1>7. CASE Connect
  <2>1. /\ stage = "kClientInit" /\ hs # NoHandshake /\ up' = Request(BuildHandshakeMessage.out)
        /\ pending' = pending /\ recvBuffer' = recvBuffer /\ down' = down
        /\ connection' = connection
    BY <1>7 DEF Connect
  <2>2. PICK k \in StaticKeys : BuildHandshakeMessage
          = [hs |-> Waiting(k, connection), out |-> FirstMessage(k, connection), err |-> "NONE"]
    BY <2>1, BuildIs
  <2>3. up' = Request(FirstMessage(k, connection'))
    <3>1. BuildHandshakeMessage.out = FirstMessage(k, connection)
      BY <2>2
    <3> QED BY <2>1, <3>1
  <2>4. Message("initiation", FirstMessage(k, connection')) \in UpMessages'
    BY DEF UpMessages, StaticKeys
  <2>5. up' \in U
    BY <2>3, <2>4 DEF Request, Pieces, U
  <2> QED BY <1>2, <1>3, <2>1, <2>5
<1>8. CASE UpgradeAnswered
  <2>1. \E n \in 1 .. Len(down) : /\ recvBuffer' = SubSeq(down, 2, n)
                                  /\ down' = SubSeq(down, n + 1, Len(down))
    BY <1>8 DEF UpgradeAnswered
  <2>2. up' = up /\ pending' = pending
    BY <1>8 DEF UpgradeAnswered
  <2> QED BY <1>2, <1>3, <1>5, <2>1, <2>2
<1>9. CASE Pull
  <2>1. PICK n \in 1 .. Len(down) : /\ recvBuffer' = recvBuffer \o SubSeq(down, 1, n)
                                    /\ down' = SubSeq(down, n + 1, Len(down))
    BY <1>9 DEF Pull
  <2>2. up' = up /\ pending' = pending
    BY <1>9 DEF Pull
  <2>3. CASE ~InitializeIk
    <3>1. recvBuffer \in D /\ SubSeq(down, 1, n) \in D
      BY <1>3, <1>5, <2>3
    <3>2. recvBuffer' \in D
      BY <2>1, <3>1, ConcatProperties DEF D
    <3> QED BY <1>3, <1>5, <2>1, <2>2, <2>3, <3>2
  <2> QED BY <1>2, <2>3
<1>10. CASE UpgradeFails \/ HandshakeFails \/ SessionFails
  <2>1. up' = <<>> /\ pending' = <<>> /\ recvBuffer' = <<>> /\ down' = <<>>
    BY <1>10 DEF UpgradeFails, HandshakeFails, SessionFails, Close
  <2> QED BY <2>1 DEF U, D
<1>11. CASE TakeClose \/ AcceptHandshakeMessage \/ ReceivePlaintext \/ ReceiveFails
  <2>1. /\ FrameReady(recvBuffer) /\ recvBuffer' = Consumed(recvBuffer)
        /\ up' = up /\ pending' = pending /\ down' = down
    BY <1>11 DEF TakeClose, AcceptHandshakeMessage, ReceivePlaintext, ReceiveFails, Take
  <2>2. CASE ~InitializeIk
    <3>1. recvBuffer \in D
      BY <1>3, <2>2
    <3>2. recvBuffer' \in D
      BY <2>1, <3>1, ConsumedIs DEF D
    <3> QED BY <1>3, <2>1, <2>2, <3>2
  <2> QED BY <1>2, <2>2
<1>12. CASE SendPlaintext
  <2>1. CASE ~InitializeIk
    <3> DEFINE frame == Frame(Message("record", Encrypted.text))
    <3>1. frame \in U
      <4>1. /\ Served /\ Message("record", Encrypted.text) = Record("one", Len(sent["up"]))
            /\ server' = server /\ connection' = connection
            /\ sent' = [sent EXCEPT !["up"] = Append(@, Len(@) + 1)]
        BY <1>12, SendIs DEF SendPlaintext
      <4>2. Len(sent["up"]) \in Nat /\ Len(sent'["up"]) = Len(sent["up"]) + 1
        <5>1. /\ sent \in [Directions -> Seq(Nat \ {0})] /\ "up" \in Directions
              /\ Numbered(sent["up"])
          BY DEF Records, Directions
        <5> QED BY <4>1, <5>1, Adds
      <4>3. Served'
        BY <4>1 DEF Served
      <4>4. \A n : Record("one", n)' = Record("one", n)
        BY <4>1 DEF Record, Transport, TheirKey
      <4>5. Message("record", Encrypted.text) \in UpMessages'
        BY <4>1, <4>2, <4>3, <4>4 DEF UpMessages
      <4> QED BY <4>5, FrameIs DEF U
    <3>2. recvBuffer' = recvBuffer /\ down' = down /\ (Written(frame) \/ WriteFails(frame))
      BY <1>12 DEF SendPlaintext
    <3>3. up \in U /\ pending \in U
      BY <1>3, <2>1
    <3> HIDE DEF frame
    <3>4. CASE Written(frame)
      <4>1. pending' = <<>>
        BY <3>4 DEF Written
      <4>2. up \o pending \in U /\ <<>> \in U
        BY <3>3, ConcatProperties DEF U
      <4>3. (up \o pending) \o frame \in U /\ (up \o pending) \o <<>> \in U
        BY <3>1, <4>2, ConcatProperties DEF U
      <4>4. up' \in {up, (up \o pending) \o frame, (up \o pending) \o <<>>}
        BY <3>4 DEF Written
      <4> QED BY <1>3, <2>1, <3>2, <3>3, <4>1, <4>2, <4>3, <4>4
    <3>5. CASE WriteFails(frame)
      <4> DEFINE pieces == pending \o frame
      <4>1. pieces \in U /\ Len(pieces) \in Nat
        BY <3>1, <3>3, ConcatProperties DEF U
      <4>2. PICK n \in 0 .. Len(pieces) - 1 :
              /\ up' \in {up, up \o SubSeq(pieces, 1, n)}
              /\ pending' = SubSeq(pieces, n + 1, Len(pieces))
        BY <3>5 DEF WriteFails
      <4> HIDE DEF pieces
      <4>3. /\ n \in 0 .. Len(pieces) /\ Len(pieces) \in 0 .. Len(pieces) /\ n + 1 \in Nat \ {0}
        BY <4>1, <4>2
      <4>4. SubSeq(pieces, 1, n) \in U /\ SubSeq(pieces, n + 1, Len(pieces)) \in U
        BY <4>1, <4>3, PartOf DEF U
      <4>5. up \o SubSeq(pieces, 1, n) \in U
        BY <3>3, <4>4, ConcatProperties DEF U
      <4> QED BY <1>3, <2>1, <3>2, <3>3, <4>2, <4>4, <4>5
    <3> QED BY <3>2, <3>4, <3>5
  <2> QED BY <1>2, <2>1
<1>13. CASE ServerAnswers
  <2>1. CASE ~InitializeIk
    <3>1. PICK k \in StaticKeys, pieces \in 1 .. 2 :
            /\ up' = <<>>
            /\ \/ /\ server' = [stage |-> "ready", hs |-> ServerDone(k, connection, "COMPLETE"),
                                send |-> [key |-> Transport("two", k), n |-> 0],
                                recv |-> [key |-> Transport("one", k), n |-> 0]]
                  /\ down' = Header(pieces)
                               \o Frame(Message("response", SecondMessage(k, connection)))
               \/ down' = Header(pieces) \o Frame(Message("error", <<>>))
      BY <1>13, AnswerIs
    <3>2. recvBuffer' = recvBuffer /\ pending' = pending /\ connection' = connection
      BY <1>13 DEF ServerAnswers, client, history
    <3>3. Header(pieces) \in D
      BY <1>4, HeaderIs DEF D
    <3>4. \E m \in DownMessages' : down' = Header(pieces) \o Frame(m)
      <4>1. CASE /\ server' = [stage |-> "ready", hs |-> ServerDone(k, connection, "COMPLETE"),
                               send |-> [key |-> Transport("two", k), n |-> 0],
                               recv |-> [key |-> Transport("one", k), n |-> 0]]
                 /\ down' = Header(pieces)
                              \o Frame(Message("response", SecondMessage(k, connection)))
        <5>1. server'.hs = ServerDone(k, connection, "COMPLETE")
          BY <4>1
        <5>2. Served' /\ TheirKey' = k
          BY <5>1, RolesDiffer, DoneFields DEF Served, TheirKey
        <5>3. Response' = Message("response", SecondMessage(k, connection))
          BY <3>2, <5>2 DEF Response
        <5> QED BY <1>4, <4>1, <5>2, <5>3
      <4> QED BY <1>4, <3>1, <4>1
    <3>5. down' \in D
      BY <3>3, <3>4, FrameIs, ConcatProperties DEF D
    <3>6. up' \in U
      BY <3>1 DEF U
    <3> QED BY <1>3, <2>1, <3>2, <3>5, <3>6
  <2> QED BY <1>2, <2>1
<1>14. CASE ServerSends
  <2>1. CASE ~InitializeIk
    <3>1. /\ Served /\ down' = down \o Frame(Record("two", Len(sent["down"])))
          /\ server' = [server EXCEPT !.send = [key |-> Transport("two", TheirKey),
                                                n |-> Len(sent["down"]) + 1]]
          /\ connection' = connection /\ up' = up /\ recvBuffer' = recvBuffer
          /\ pending' = pending /\ sent' = [sent EXCEPT !["down"] = Append(@, Len(@) + 1)]
      BY <1>14, ServerSendsIs DEF ServerSends, client
    <3>2. Len(sent["down"]) \in Nat /\ Len(sent'["down"]) = Len(sent["down"]) + 1
      <4>1. /\ sent \in [Directions -> Seq(Nat \ {0})] /\ "down" \in Directions
            /\ Numbered(sent["down"])
        BY DEF Records, Directions
      <4> QED BY <3>1, <4>1, Adds
    <3>3. Served' /\ TheirKey' = TheirKey
      <4>1. server'.hs = server.hs
        BY <2>1, <3>1, HandshakeStays
      <4> QED BY <3>1, <4>1 DEF Served, TheirKey
    <3>4. \A n : Record("two", n)' = Record("two", n)
      BY <3>1, <3>3 DEF Record, Transport
    <3>5. Record("two", Len(sent["down"])) \in DownMessages'
      BY <3>2, <3>3, <3>4 DEF DownMessages
    <3>6. Frame(Record("two", Len(sent["down"]))) \in D
      BY <3>5, FrameIs DEF D
    <3>7. down' \in D
      BY <1>3, <2>1, <3>1, <3>6, ConcatProperties DEF D
    <3> QED BY <1>3, <2>1, <3>1, <3>7
  <2> QED BY <1>2, <2>1
<1>15. CASE ServerReads
  <2>1. /\ FrameReady(up) /\ up' = Consumed(up) /\ pending' = pending
        /\ recvBuffer' = recvBuffer /\ down' = down
    BY <1>15 DEF ServerReads, client
  <2>2. CASE ~InitializeIk
    <3>1. up \in U
      BY <1>3, <2>2
    <3>2. up' \in U
      BY <2>1, <3>1, ConsumedIs DEF U
    <3> QED BY <1>3, <2>1, <2>2, <3>2
  <2> QED BY <1>2, <2>2
<1>16. CASE ServerLeaves
  <2>1. /\ up' = <<>> /\ pending' = pending /\ recvBuffer' = recvBuffer
        /\ \/ down' = down \o Frame(Message("close", <<>>))
           \/ \E n \in 0 .. Len(down) : down' = SubSeq(down, 1, n)
    BY <1>16 DEF ServerLeaves, client
  <2>2. CASE ~InitializeIk
    <3>1. Frame(Message("close", <<>>)) \in D
      BY <1>4, FrameIs DEF D
    <3>2. down \o Frame(Message("close", <<>>)) \in D
      BY <1>3, <2>2, <3>1, ConcatProperties DEF D
    <3>3. \A n \in 0 .. Len(down) : SubSeq(down, 1, n) \in D
      BY <1>3, <2>2, PartOf DEF D
    <3>4. up' \in U
      BY <2>1 DEF U
    <3> QED BY <1>3, <2>1, <2>2, <3>2, <3>3, <3>4
  <2> QED BY <1>2, <2>2
<1> QED BY <1>2, <1>6, <1>7, <1>8, <1>9, <1>10, <1>11, <1>12, <1>13, <1>14, <1>15, <1>16 DEF Next

-----------------------------------------------------------------------------
(* Every step keeps the invariant: the keys and nonces that were used.     *)

LEMMA OneMore ==
  ASSUME NEW S, NEW s \in Seq(S), NEW x \in S, Len(s) # 0
  PROVE  Append(s, x) \in Seq(S) /\ Len(Append(s, x)) = Len(s) + 1 /\ Append(s, x)[1] = s[1]
<1>1. Len(s) \in Nat /\ 1 \in 1 .. Len(s)
  OBVIOUS
<1> QED BY <1>1, AppendProperties

(* Every chaining key begins with the secret of its own connection.        *)
LEMMA ChainsBegin ==
  ASSUME NEW k, NEW c
  PROVE  /\ Len(AfterES(k, c)) = 1 /\ AfterES(k, c)[1] = Secret(ClientKey(c), k)
         /\ Len(AfterSS(k, c)) = 2 /\ AfterSS(k, c)[1] = Secret(ClientKey(c), k)
         /\ Len(AfterSE(k, c)) = 4 /\ AfterSE(k, c)[1] = Secret(ClientKey(c), k)
<1> DEFINE S == {Secret(ClientKey(c), k), Secret(Machine, k), Secret(ClientKey(c), AnswerKey(c)),
                 Secret(Machine, AnswerKey(c))}
<1>1. /\ Secret(ClientKey(c), k) \in S /\ Secret(Machine, k) \in S
      /\ Secret(ClientKey(c), AnswerKey(c)) \in S /\ Secret(Machine, AnswerKey(c)) \in S
  OBVIOUS
<1> HIDE DEF S
<1>2. <<>> \in Seq(S) /\ Len(<<>>) = 0
  OBVIOUS
<1>3. /\ AfterES(k, c) \in Seq(S) /\ Len(AfterES(k, c)) = 1
      /\ AfterES(k, c)[1] = Secret(ClientKey(c), k)
  BY <1>1, <1>2 DEF AfterES
<1>4. /\ AfterSS(k, c) \in Seq(S) /\ Len(AfterSS(k, c)) = 2
      /\ AfterSS(k, c)[1] = Secret(ClientKey(c), k)
  <2>1. PICK s, x : s = AfterES(k, c) /\ x = Secret(Machine, k)
    OBVIOUS
  <2>2. AfterSS(k, c) = Append(s, x)
    BY <2>1 DEF AfterSS
  <2>3. s \in Seq(S) /\ Len(s) = 1 /\ s[1] = Secret(ClientKey(c), k) /\ x \in S
    BY <1>3, <1>1, <2>1, Zenon
  <2>4. Len(s) # 0
    BY <2>3
  <2>5. Append(s, x) \in Seq(S) /\ Len(Append(s, x)) = Len(s) + 1 /\ Append(s, x)[1] = s[1]
    BY <2>3, <2>4, OneMore
  <2>6. Len(Append(s, x)) = 2 /\ Append(s, x)[1] = Secret(ClientKey(c), k)
    BY <2>3, <2>5
  <2> QED BY <2>2, <2>5, <2>6, Zenon
<1>5. /\ AfterEE(k, c) \in Seq(S) /\ Len(AfterEE(k, c)) = 3
      /\ AfterEE(k, c)[1] = Secret(ClientKey(c), k)
  <2>1. PICK s, x : s = AfterSS(k, c) /\ x = Secret(ClientKey(c), AnswerKey(c))
    OBVIOUS
  <2>2. AfterEE(k, c) = Append(s, x)
    BY <2>1 DEF AfterEE
  <2>3. s \in Seq(S) /\ Len(s) = 2 /\ s[1] = Secret(ClientKey(c), k) /\ x \in S
    BY <1>4, <1>1, <2>1, Zenon
  <2>4. Len(s) # 0
    BY <2>3
  <2>5. Append(s, x) \in Seq(S) /\ Len(Append(s, x)) = Len(s) + 1 /\ Append(s, x)[1] = s[1]
    BY <2>3, <2>4, OneMore
  <2>6. Len(Append(s, x)) = 3 /\ Append(s, x)[1] = Secret(ClientKey(c), k)
    BY <2>3, <2>5
  <2> QED BY <2>2, <2>5, <2>6, Zenon
<1>6. Len(AfterSE(k, c)) = 4 /\ AfterSE(k, c)[1] = Secret(ClientKey(c), k)
  <2>1. PICK s, x : s = AfterEE(k, c) /\ x = Secret(Machine, AnswerKey(c))
    OBVIOUS
  <2>2. AfterSE(k, c) = Append(s, x)
    BY <2>1 DEF AfterSE
  <2>3. s \in Seq(S) /\ Len(s) = 3 /\ s[1] = Secret(ClientKey(c), k) /\ x \in S
    BY <1>5, <1>1, <2>1, Zenon
  <2>4. Len(s) # 0
    BY <2>3
  <2>5. Append(s, x) \in Seq(S) /\ Len(Append(s, x)) = Len(s) + 1 /\ Append(s, x)[1] = s[1]
    BY <2>3, <2>4, OneMore
  <2>6. Len(Append(s, x)) = 4 /\ Append(s, x)[1] = Secret(ClientKey(c), k)
    BY <2>3, <2>5
  <2> QED BY <2>2, <2>5, <2>6, Zenon
<1> QED BY <1>3, <1>4, <1>6

LEMMA SecretsDiffer ==
  ASSUME NEW k \in StaticKeys, NEW j \in StaticKeys, NEW c, NEW d,
         Secret(ClientKey(c), k) = Secret(ClientKey(d), j)
  PROVE  c = d
<1>1. ClientKey(c) \in {ClientKey(d), j}
  BY DEF Secret
<1>2. ClientKey(c).kind = "ephemeral" /\ j.kind = "static"
  BY DEF ClientKey, StaticKeys, StaticKey
<1>3. ClientKey(c) = ClientKey(d)
  BY <1>1, <1>2
<1>4. ClientKey(c).id = c /\ ClientKey(d).id = d
  BY DEF ClientKey
<1> QED BY <1>3, <1>4

LEMMA KeysDiffer ==
  ASSUME NEW k \in StaticKeys, NEW j \in StaticKeys, NEW c, NEW d
  PROVE  /\ Key("one", AfterSE(k, c)) = Key("one", AfterSE(j, d)) => c = d
         /\ Key("handshake", AfterES(k, c)) = Key("handshake", AfterES(j, d)) => c = d
         /\ Key("handshake", AfterSS(k, c)) = Key("handshake", AfterSS(j, d)) => c = d
         /\ Key("handshake", AfterES(k, c)) # Key("handshake", AfterSS(j, d))
         /\ \A a, b : Key("handshake", a) # Key("one", b)
<1>1. \A label, ck : Key(label, ck).label = label /\ Key(label, ck).ck = ck
  BY DEF Key
<1>2. /\ AfterSE(k, c) = AfterSE(j, d) => c = d
      /\ AfterES(k, c) = AfterES(j, d) => c = d
      /\ AfterSS(k, c) = AfterSS(j, d) => c = d
      /\ AfterES(k, c) # AfterSS(j, d)
  BY ChainsBegin, SecretsDiffer
<1> QED BY <1>1, <1>2

(* What was used on other connections is not used on this one.             *)
LEMMA UsedApart ==
  ASSUME NEW k \in StaticKeys, NEW c, NEW m \in Int, c \notin 0 .. m, NEW x \in UsedUpTo(m)
  PROVE  /\ x[1] # Key("one", AfterSE(k, c))
         /\ x[1] # Key("handshake", AfterES(k, c)) /\ x[1] # Key("handshake", AfterSS(k, c))
<1>1. PICK d \in 0 .. m, j \in StaticKeys :
        \/ x = <<Key("handshake", AfterES(j, d)), 0>>
        \/ x = <<Key("handshake", AfterSS(j, d)), 0>>
        \/ \E n \in 0 .. NonceLimit : x = <<Key("one", AfterSE(j, d)), n>>
  BY DEF UsedUpTo, UsedIn
<1>2. c # d
  BY <1>1
<1>3. x[1] \in {Key("handshake", AfterES(j, d)), Key("handshake", AfterSS(j, d)),
                Key("one", AfterSE(j, d))}
  BY <1>1
<1> QED BY <1>2, <1>3, KeysDiffer

LEMMA UsedGrows ==
  ASSUME NEW m \in Int, NEW n \in Int, m <= n, NEW s \in Seq(UsedUpTo(m))
  PROVE  s \in Seq(UsedUpTo(n))
<1>1. UsedUpTo(m) \subseteq UsedUpTo(n)
  BY DEF UsedUpTo
<1>2. s \in [1 .. Len(s) -> UsedUpTo(m)] /\ Len(s) \in Nat
  OBVIOUS
<1>3. s \in [1 .. Len(s) -> UsedUpTo(n)]
  BY <1>1, <1>2
<1> QED BY <1>2, <1>3

(* The texts of the first message.                                         *)
LEMMA FirstSpent ==
  ASSUME NEW k, NEW c
  PROVE  SpentBy(FirstMessage(k, c))
           = <<<<Key("handshake", AfterES(k, c)), 0>>, <<Key("handshake", AfterSS(k, c)), 0>>>>
<1>1. /\ SealedMachine(k, c).key = Key("handshake", AfterES(k, c)) /\ SealedMachine(k, c).n = 0
      /\ FirstPayload(k, c).key = Key("handshake", AfterSS(k, c)) /\ FirstPayload(k, c).n = 0
  BY DEF SealedMachine, FirstPayload, Seal, MessageKey, InitKey
<1>2. /\ FirstMessage(k, c)[1 + 1] = SealedMachine(k, c)
      /\ FirstMessage(k, c)[2 + 1] = FirstPayload(k, c)
  BY DEF FirstMessage
<1> DEFINE new == SpentBy(FirstMessage(k, c))
           S == {<<Key("handshake", AfterES(k, c)), 0>>, <<Key("handshake", AfterSS(k, c)), 0>>}
<1>3. /\ new[1] = <<Key("handshake", AfterES(k, c)), 0>>
      /\ new[2] = <<Key("handshake", AfterSS(k, c)), 0>>
  BY <1>1, <1>2 DEF SpentBy
<1>4. new = [i \in 1 .. 2 |-> new[i]]
  BY DEF SpentBy
<1> HIDE DEF new
<1>5. new \in Seq(S) /\ Len(new) = 2
  <2>1. PICK two \in Nat : two = 2
    OBVIOUS
  <2>2. new \in [1 .. two -> S]
    BY <1>3, <1>4, <2>1
  <2>3. new \in Seq(S)
    BY <2>2, SeqDef
  <2>4. DOMAIN new = 1 .. 2 /\ DOMAIN new = 1 .. Len(new) /\ Len(new) \in Nat
    BY <1>4, <2>3, LenProperties
  <2> QED BY <2>3, <2>4
<1> QED BY <1>3, <1>5, AsTuple DEF new

LEMMA SpendingsKept ==
  ASSUME ServerShape, ClientShape, Order, Traffic, Records, Spendings, serverKey \in StaticKeys,
         connection \in Nat, [Next]_vars
  PROVE  Spendings'
<1> DEFINE early == stage \in {"kIdle", "kClientInit"}
           early_n == stage' \in {"kIdle", "kClientInit"}
           last == IF early THEN connection - 1 ELSE connection
           last_n == IF early_n THEN connection' - 1 ELSE connection'
<1>1. /\ spent \in Seq(UsedUpTo(last)) /\ last \in Int
      /\ \A i \in DOMAIN spent, k \in StaticKeys :
           spent[i][1] = Transport("one", k) => spent[i][2] < Len(sent["up"])
      /\ \A i, j \in DOMAIN spent : spent[i] = spent[j] => i = j
      /\ DOMAIN spent = 1 .. Len(spent) /\ Len(spent) \in Nat
  BY DEF Spendings, IsInjective
<1>2. SUFFICES /\ spent' \in Seq(UsedUpTo(last_n))
               /\ \A i \in DOMAIN spent', k \in StaticKeys :
                    spent'[i][1] = Transport("one", k)' => spent'[i][2] < Len(sent'["up"])
               /\ \A i, j \in DOMAIN spent' : spent'[i] = spent'[j] => i = j
  BY DEF Spendings, IsInjective, UsedUpTo, UsedIn, StaticKeys
<1>3. /\ sent \in [Directions -> Seq(Nat \ {0})] /\ "up" \in Directions /\ Numbered(sent["up"])
      /\ Len(sent["up"]) \in Nat /\ Len(sent["up"]) <= NonceLimit
  BY DEF Records, Directions
<1>4. \A i \in DOMAIN spent : spent[i] \in UsedUpTo(last)
  BY <1>1
<1> HIDE DEF last, last_n
<1>5. CASE InitializeIk
  <2>1. /\ connection' = connection + 1 /\ stage' = "kIdle" /\ spent' = spent
    BY <1>5 DEF InitializeIk
  <2>2. last_n = connection /\ last <= last_n
    BY <2>1 DEF last, last_n
  <2>3. spent' \in Seq(UsedUpTo(last_n))
    BY <1>1, <2>1, <2>2, UsedGrows
  <2>4. \A i \in DOMAIN spent, k \in StaticKeys : spent[i][1] # Transport("one", k)'
    <3> SUFFICES ASSUME NEW i \in DOMAIN spent, NEW k \in StaticKeys
                 PROVE  spent[i][1] # Key("one", AfterSE(k, connection'))
      BY DEF Transport
    <3>1. spent[i] \in UsedUpTo(last) /\ connection' \notin 0 .. last
      BY <1>1, <1>4, <2>1, <2>2
    <3> QED BY <1>1, <3>1, UsedApart
  <2> QED BY <1>1, <2>1, <2>3, <2>4
<1>6. CASE Connect
  <2>1. /\ stage = "kClientInit" /\ stage' = "kAwaitingServerResponse" /\ hs # NoHandshake
        /\ connection' = connection /\ sent' = sent
        /\ spent' = spent \o SpentBy(BuildHandshakeMessage.out)
    BY <1>6 DEF Connect
  <2>2. PICK k \in StaticKeys : BuildHandshakeMessage
          = [hs |-> Waiting(k, connection), out |-> FirstMessage(k, connection), err |-> "NONE"]
    BY <2>1, BuildIs
  <2>3. last = connection - 1 /\ last_n = connection
    BY <2>1 DEF last, last_n
  <2> DEFINE one == <<Key("handshake", AfterES(k, connection)), 0>>
             two == <<Key("handshake", AfterSS(k, connection)), 0>>
  <2>4. spent' = spent \o <<one, two>>
    <3>1. BuildHandshakeMessage.out = FirstMessage(k, connection)
      BY <2>2
    <3> QED BY <2>1, <3>1, FirstSpent
  <2>5. /\ one \in UsedUpTo(last_n) /\ two \in UsedUpTo(last_n) /\ one # two
    <3>1. one[1] # two[1]
      BY KeysDiffer
    <3> QED BY <2>3, <3>1 DEF UsedUpTo, UsedIn
  <2>6. \A i \in DOMAIN spent, j \in StaticKeys :
          spent[i] # one /\ spent[i] # two /\ spent[i][1] # Transport("one", j)'
    <3> SUFFICES ASSUME NEW i \in DOMAIN spent, NEW j \in StaticKeys
                 PROVE  spent[i] # one /\ spent[i] # two /\ spent[i][1] # Transport("one", j)'
      OBVIOUS
    <3>1. spent[i] \in UsedUpTo(last) /\ connection \notin 0 .. last
      BY <1>4, <2>3
    <3>2. spent[i][1] # Key("one", AfterSE(j, connection))
      BY <1>1, <3>1, UsedApart
    <3>3. spent[i][1] # Key("handshake", AfterES(k, connection))
          /\ spent[i][1] # Key("handshake", AfterSS(k, connection))
      BY <1>1, <3>1, UsedApart
    <3> QED BY <2>1, <3>2, <3>3 DEF Transport
  <2>7. \A j \in StaticKeys : one[1] # Transport("one", j)' /\ two[1] # Transport("one", j)'
    BY KeysDiffer DEF Transport
  <2> HIDE DEF one, two
  <2>8. spent \in Seq(UsedUpTo(last_n))
    BY <1>1, <2>3, UsedGrows
  <2>9. PICK both : both = <<one, two>>
    OBVIOUS
  <2>10. both \in Seq(UsedUpTo(last_n)) /\ Len(both) = 2 /\ both[1] = one /\ both[2] = two
    BY <2>5, <2>9
  <2>11. /\ spent' \in Seq(UsedUpTo(last_n)) /\ Len(spent') = Len(spent) + 2
         /\ \A i \in 1 .. Len(spent) + 2 :
              spent'[i] = IF i <= Len(spent) THEN spent[i] ELSE both[i - Len(spent)]
    BY <2>4, <2>8, <2>9, <2>10, ConcatProperties
  <2>12. /\ DOMAIN spent' = 1 .. Len(spent) + 2
         /\ \A i \in DOMAIN spent : spent'[i] = spent[i]
         /\ spent'[Len(spent) + 1] = one /\ spent'[Len(spent) + 2] = two
         /\ \A i \in DOMAIN spent' : i \in DOMAIN spent \/ i = Len(spent) + 1 \/ i = Len(spent) + 2
    BY <1>1, <2>10, <2>11
  <2>13. \A i \in DOMAIN spent', j \in StaticKeys :
           spent'[i][1] = Transport("one", j)' => spent'[i][2] < Len(sent'["up"])
    BY <2>6, <2>7, <2>12
  <2>14. \A i, j \in DOMAIN spent' : spent'[i] = spent'[j] => i = j
    BY <1>1, <2>2, <2>5, <2>6, <2>12
  <2> QED BY <2>11, <2>13, <2>14
<1>7. CASE SendPlaintext
  <2> DEFINE new == <<Transport("one", TheirKey), Len(sent["up"])>>
  <2>1. /\ stage = "kTransportReady" /\ stage' = stage /\ connection' = connection
        /\ spent' = Append(spent, <<send.key, send.n>>)
        /\ sent' = [sent EXCEPT !["up"] = Append(@, Len(@) + 1)]
    BY <1>7 DEF SendPlaintext
  <2>2. Served /\ send = [key |-> Transport("one", TheirKey), n |-> Len(sent["up"])]
    BY <1>7, SendIs
  <2>3. spent' = Append(spent, new) /\ TheirKey \in StaticKeys
    BY <2>1, <2>2, ServedIs
  <2>4. last = connection /\ last_n = connection
    BY <2>1 DEF last, last_n
  <2>5. new \in UsedUpTo(last_n)
    BY <1>3, <2>3, <2>4 DEF UsedUpTo, UsedIn, Transport
  <2>6. \A i \in DOMAIN spent : spent[i] # new
    BY <1>1, <1>3, <2>3
  <2>7. new[2] = Len(sent["up"]) /\ Len(sent'["up"]) = Len(sent["up"]) + 1
    BY <1>3, <2>1, Adds
  <2>8. \A k : Transport("one", k)' = Transport("one", k)
    BY <2>1 DEF Transport
  <2> HIDE DEF new
  <2>9. /\ spent' \in Seq(UsedUpTo(last_n)) /\ Len(spent') = Len(spent) + 1
        /\ \A i \in 1 .. Len(spent) : spent'[i] = spent[i]
        /\ spent'[Len(spent) + 1] = new
    BY <1>1, <2>3, <2>4, <2>5, AppendProperties
  <2>10. /\ DOMAIN spent' = 1 .. Len(spent) + 1
         /\ \A i \in DOMAIN spent : spent'[i] = spent[i]
         /\ \A i \in DOMAIN spent' : i \in DOMAIN spent \/ i = Len(spent) + 1
    BY <1>1, <2>9
  <2>11. \A i \in DOMAIN spent', k \in StaticKeys :
           spent'[i][1] = Transport("one", k)' => spent'[i][2] < Len(sent'["up"])
    <3> SUFFICES ASSUME NEW i \in DOMAIN spent', NEW k \in StaticKeys,
                        spent'[i][1] = Transport("one", k)
                 PROVE  spent'[i][2] < Len(sent'["up"])
      BY <2>8
    <3>1. CASE i \in DOMAIN spent
      <4>1. spent[i][1] = Transport("one", k) /\ spent'[i] = spent[i]
        BY <2>10, <3>1
      <4>2. spent[i][2] < Len(sent["up"])
        BY <1>1, <3>1, <4>1
      <4>3. \E d, j : \/ spent[i] = <<Key("handshake", AfterES(j, d)), 0>>
                      \/ spent[i] = <<Key("handshake", AfterSS(j, d)), 0>>
                      \/ \E n \in 0 .. NonceLimit : spent[i] = <<Key("one", AfterSE(j, d)), n>>
        BY <1>4, <3>1 DEF UsedUpTo, UsedIn
      <4>4. spent[i][2] \in Nat
        BY <4>3, NonceAssumption
      <4> QED BY <1>3, <2>7, <4>1, <4>2, <4>4
    <3>2. CASE i = Len(spent) + 1
      BY <1>3, <2>7, <2>9, <3>2
    <3> QED BY <2>10, <3>1, <3>2
  <2>12. \A i, j \in DOMAIN spent' : spent'[i] = spent'[j] => i = j
    BY <1>1, <2>6, <2>9, <2>10
  <2> QED BY <2>9, <2>11, <2>12
<1>8. CASE ~InitializeIk /\ ~Connect /\ ~SendPlaintext
  <2>1. spent' = spent /\ connection' = connection
    <3>1. CASE InitializeIkFails \/ BeginHandshake \/ ConnectFails \/ UpgradeAnswered
               \/ UpgradeFails \/ Pull \/ HandshakeFails \/ EncryptFails \/ SessionFails
      BY <3>1 DEF InitializeIkFails, BeginHandshake, ConnectFails, UpgradeAnswered,
                  UpgradeFails, Pull, HandshakeFails, EncryptFails, SessionFails, history
    <3>2. CASE TakeClose \/ AcceptHandshakeMessage \/ ReceivePlaintext \/ ReceiveFails
      BY <3>2 DEF TakeClose, AcceptHandshakeMessage, ReceivePlaintext, ReceiveFails, Take
    <3>3. CASE ServerAnswers \/ ServerSends \/ ServerReads \/ ServerLeaves \/ ServerKeyChanges
               \/ UNCHANGED vars
      BY <3>3 DEF ServerAnswers, ServerSends, ServerReads, ServerLeaves, ServerKeyChanges, vars,
                  history
    <3> QED BY <1>8, <3>1, <3>2, <3>3 DEF Next
  <2>2. early_n => early
    <3>1. \/ InitializeIkFails \/ BeginHandshake \/ ConnectFails \/ AcceptHandshakeMessage
          \/ ReceivePlaintext \/ stage' \in {stage, "kFailed"}
      BY <1>8, WhoShakes
    <3>2. CASE InitializeIkFails \/ BeginHandshake \/ ConnectFails
      BY <3>2 DEF InitializeIkFails, BeginHandshake, ConnectFails
    <3>3. CASE AcceptHandshakeMessage \/ ReceivePlaintext
      BY <3>3 DEF AcceptHandshakeMessage, ReceivePlaintext
    <3>4. CASE stage' \in {stage, "kFailed"}
      BY <3>4
    <3> QED BY <3>1, <3>2, <3>3, <3>4
  <2>3. last <= last_n /\ last_n \in Int
    BY <2>1, <2>2 DEF last, last_n
  <2>4. spent' \in Seq(UsedUpTo(last_n))
    BY <1>1, <2>1, <2>3, UsedGrows
  <2>5. Len(sent'["up"]) = Len(sent["up"])
    BY <1>8, WhoCounts
  <2>6. \A k : Transport("one", k)' = Transport("one", k)
    BY <2>1 DEF Transport
  <2> QED BY <1>1, <2>1, <2>4, <2>5, <2>6
<1> QED BY <1>5, <1>6, <1>7, <1>8

-----------------------------------------------------------------------------
(* Every step keeps the invariant: nothing that the server sent is lost.   *)

(* A frame is taken from the head, a piece of the header, or one more frame*)
(* is sent.                                                                *)
LEMMA FramesDrop ==
  ASSUME NEW s, NEW t, NEW first \in Nat, NEW count \in Int, Frames(s, 0, first, count),
         Len(t) = Len(s) - 2, \A i \in 1 .. Len(s) - 2 : t[i] = s[i + 2]
  PROVE  Frames(t, 0, first + 1, count - 1)
<1>1. Len(s) = 0 + 2 * count
  BY DEF Frames
<1>2. Len(t) = 0 + 2 * (count - 1)
  BY <1>1
<1> SUFFICES ASSUME NEW j \in 0 .. count - 1 - 1
             PROVE  /\ t[0 + 2 * j + 1] = [part |-> 1, msg |-> DownMessage(first + 1 + j)]
                    /\ t[0 + 2 * j + 2] = [part |-> 2, msg |-> DownMessage(first + 1 + j)]
  BY <1>2 DEF Frames
<1>3. PICK i \in 0 .. count - 1 : i = j + 1
  OBVIOUS
<1>4. /\ s[0 + 2 * i + 1] = [part |-> 1, msg |-> DownMessage(first + i)]
      /\ s[0 + 2 * i + 2] = [part |-> 2, msg |-> DownMessage(first + i)]
  BY <1>3 DEF Frames
<1>5. t[0 + 2 * j + 1] = s[0 + 2 * i + 1]
  <2>1. PICK a \in 1 .. Len(s) - 2 : a = 0 + 2 * j + 1
    BY <1>1
  <2>2. a + 2 = 0 + 2 * i + 1 /\ t[a] = s[a + 2]
    BY <1>3, <2>1
  <2> QED BY <2>1, <2>2
<1>6. t[0 + 2 * j + 2] = s[0 + 2 * i + 2]
  <2>1. PICK b \in 1 .. Len(s) - 2 : b = 0 + 2 * j + 2
    BY <1>1
  <2>2. b + 2 = 0 + 2 * i + 2 /\ t[b] = s[b + 2]
    BY <1>3, <2>1
  <2> QED BY <2>1, <2>2
<1>7. first + 1 + j = first + i
  BY <1>3
<1> QED BY <1>4, <1>5, <1>6, <1>7

LEMMA FramesShift ==
  ASSUME NEW s, NEW t, NEW rest \in Nat \ {0}, NEW first \in Nat, NEW count \in Nat,
         Frames(s, rest, first, count),
         Len(t) = Len(s) - 1, \A i \in 1 .. Len(s) - 1 : t[i] = s[i + 1]
  PROVE  Frames(t, rest - 1, first, count)
<1>1. Len(s) = rest + 2 * count
  BY DEF Frames
<1>2. Len(t) = (rest - 1) + 2 * count
  BY <1>1
<1> SUFFICES ASSUME NEW j \in 0 .. count - 1
             PROVE  /\ t[rest - 1 + 2 * j + 1] = [part |-> 1, msg |-> DownMessage(first + j)]
                    /\ t[rest - 1 + 2 * j + 2] = [part |-> 2, msg |-> DownMessage(first + j)]
  BY <1>2 DEF Frames
<1>3. /\ s[rest + 2 * j + 1] = [part |-> 1, msg |-> DownMessage(first + j)]
      /\ s[rest + 2 * j + 2] = [part |-> 2, msg |-> DownMessage(first + j)]
  BY DEF Frames
<1>4. t[rest - 1 + 2 * j + 1] = s[rest + 2 * j + 1]
  <2>1. PICK a \in 1 .. Len(s) - 1 : a = rest - 1 + 2 * j + 1
    BY <1>1
  <2>2. a + 1 = rest + 2 * j + 1 /\ t[a] = s[a + 1]
    BY <2>1
  <2> QED BY <2>1, <2>2
<1>5. t[rest - 1 + 2 * j + 2] = s[rest + 2 * j + 2]
  <2>1. PICK b \in 1 .. Len(s) - 1 : b = rest - 1 + 2 * j + 2
    BY <1>1
  <2>2. b + 1 = rest + 2 * j + 2 /\ t[b] = s[b + 1]
    BY <2>1
  <2> QED BY <2>1, <2>2
<1> QED BY <1>3, <1>4, <1>5

LEMMA FramesGrow ==
  ASSUME NEW s, NEW t, NEW rest \in Nat, NEW first \in Nat, NEW count \in Nat,
         Frames(s, rest, first, count),
         Len(t) = Len(s) + 2, \A i \in 1 .. Len(s) : t[i] = s[i],
         t[Len(s) + 1] = [part |-> 1, msg |-> DownMessage(first + count)],
         t[Len(s) + 2] = [part |-> 2, msg |-> DownMessage(first + count)]
  PROVE  Frames(t, rest, first, count + 1)
<1>1. Len(s) = rest + 2 * count
  BY DEF Frames
<1>2. ASSUME NEW j \in 0 .. count
      PROVE  /\ t[rest + 2 * j + 1] = [part |-> 1, msg |-> DownMessage(first + j)]
             /\ t[rest + 2 * j + 2] = [part |-> 2, msg |-> DownMessage(first + j)]
  <2>1. CASE j = count
    <3>1. rest + 2 * j + 1 = Len(s) + 1 /\ rest + 2 * j + 2 = Len(s) + 2
      BY <1>1, <2>1
    <3> QED BY <2>1, <3>1
  <2>2. CASE j < count
    <3>1. j \in 0 .. count - 1
      BY <2>2
    <3>2. PICK a \in 1 .. Len(s) : a = rest + 2 * j + 1
      BY <1>1, <3>1
    <3>3. PICK b \in 1 .. Len(s) : b = rest + 2 * j + 2
      BY <1>1, <3>1
    <3>4. t[rest + 2 * j + 1] = s[rest + 2 * j + 1] /\ t[rest + 2 * j + 2] = s[rest + 2 * j + 2]
      BY <3>2, <3>3
    <3> QED BY <3>1, <3>4 DEF Frames
  <2> QED BY <2>1, <2>2
<1> QED BY <1>1, <1>2 DEF Frames

(* What the client finds at the head of its buffer while both are there.   *)
LEMMA ArrivingIs ==
  ASSUME Traffic
  PROVE  /\ Arriving \in Seq(Pieces(DownMessages))
         /\ Len(recvBuffer) \in Nat /\ Len(down) \in Nat
         /\ Len(Arriving) = Len(recvBuffer) + Len(down)
         /\ \A i \in 1 .. Len(Arriving) :
              Arriving[i] = IF i <= Len(recvBuffer) THEN recvBuffer[i]
                            ELSE down[i - Len(recvBuffer)]
<1> DEFINE S == Pieces(DownMessages)
<1>1. recvBuffer \in Seq(S) /\ down \in Seq(S)
  BY DEF Traffic
<1> HIDE DEF S
<1>2. /\ recvBuffer \o down \in Seq(S)
      /\ Len(recvBuffer \o down) = Len(recvBuffer) + Len(down)
      /\ \A i \in 1 .. Len(recvBuffer) + Len(down) :
           (recvBuffer \o down)[i] = IF i <= Len(recvBuffer) THEN recvBuffer[i]
                                     ELSE down[i - Len(recvBuffer)]
  BY <1>1, ConcatProperties
<1>3. Len(recvBuffer) \in Nat /\ Len(down) \in Nat
  BY <1>1
<1> QED BY <1>2, <1>3 DEF Arriving, S

LEMMA CountsAre ==
  ASSUME Records
  PROVE  /\ Taken \in Nat /\ Awaited \in Nat
         /\ Len(got["down"]) \in Nat /\ Len(sent["down"]) \in Nat
         /\ Taken + Awaited = Len(sent["down"]) + 1
<1>1. Len(got["down"]) \in Nat /\ Len(sent["down"]) \in Nat /\ Len(got["down"]) <= Len(sent["down"])
  BY DEF Records, Directions
<1> QED BY <1>1 DEF Taken, Awaited

LEMMA HeadIs ==
  ASSUME Traffic, Records, WholeStream, Both, FrameReady(recvBuffer)
  PROVE  /\ upgraded /\ Awaited \in Nat \ {0}
         /\ \/ Decoded(recvBuffer) = Garbage /\ stage = "kAwaitingServerResponse"
            \/ Decoded(recvBuffer) = DownMessage(Taken) /\ Frames(Arriving, 0, Taken, Awaited)
<1>1. Len(recvBuffer) \in Nat /\ Len(recvBuffer) >= 2
  BY ArrivingIs DEF FrameReady
<1>2. upgraded
  BY <1>1 DEF WholeStream, Both
<1>3. PICK rest \in 0 .. 2 :
        /\ Frames(Arriving, rest, Taken, Awaited) /\ rest <= 1
        /\ stage = "kTransportReady" => rest = 0
  BY <1>2 DEF WholeStream, Both
<1>4. /\ Len(Arriving) >= 2 /\ Arriving[1] = recvBuffer[1] /\ Arriving[2] = recvBuffer[2]
  BY <1>1, ArrivingIs
<1>5. Awaited \in Nat \ {0} /\ Taken \in Nat
  BY <1>3, <1>4, CountsAre DEF Frames
<1>6. recvBuffer \in Seq(Pieces(DownMessages))
  BY DEF Traffic
<1>7. CASE rest = 0
  <2>1. /\ Arriving[0 + 2 * 0 + 1] = [part |-> 1, msg |-> DownMessage(Taken + 0)]
        /\ Arriving[0 + 2 * 0 + 2] = [part |-> 2, msg |-> DownMessage(Taken + 0)]
    <3>1. 0 \in 0 .. Awaited - 1
      BY <1>5
    <3> QED BY <1>3, <1>7, <3>1 DEF Frames
  <2>2. /\ recvBuffer[1] = [part |-> 1, msg |-> DownMessage(Taken)]
        /\ recvBuffer[2] = [part |-> 2, msg |-> DownMessage(Taken)]
    BY <1>4, <1>5, <2>1
  <2>3. Decoded(recvBuffer) = DownMessage(Taken)
    BY <1>6, <2>2, DecodedIs
  <2> QED BY <1>2, <1>3, <1>5, <1>7, <2>3
<1>8. CASE rest = 1
  <2>1. Arriving[1 + 2 * 0 + 1] = [part |-> 1, msg |-> DownMessage(Taken + 0)]
    <3>1. 0 \in 0 .. Awaited - 1
      BY <1>5
    <3> QED BY <1>3, <1>8, <3>1 DEF Frames
  <2>2. recvBuffer[2].part = 1
    BY <1>4, <2>1
  <2>3. Decoded(recvBuffer) = Garbage
    BY <1>6, <2>2, DecodedIs
  <2> QED BY <1>2, <1>3, <1>5, <1>8, <2>3 DEF Both
<1> QED BY <1>3, <1>7, <1>8

LEMMA StreamNext ==
  ASSUME connection' = connection, Served, server'.hs = server.hs, NEW rest \in 0 .. 2,
         Frames(Arriving', rest, Taken', Awaited'),
         IF upgraded' THEN rest <= 1 ELSE rest >= 1,
         stage' = "kTransportReady" => rest = 0,
         \A i \in 1 .. rest : Arriving'[i] = Header(2)[IF upgraded' THEN i + 1 ELSE i],
         ~upgraded' => recvBuffer' = <<>> /\ stage' = "kAwaitingServerResponse"
  PROVE  WholeStream'
<1>1. \A j : DownMessage(j)' = DownMessage(j)
  BY DEF DownMessage, Response, Record, Transport, TheirKey
<1>2. Frames(Arriving, rest, Taken, Awaited)'
  BY <1>1 DEF Frames
<1> QED BY <1>2 DEF WholeStream, Header, Message, Garbage

(* What is on its way, the stages and the counts stay as they are.         *)
LEMMA StreamStays ==
  ASSUME ServerShape, WholeStream, connection' = connection, Served => server'.hs = server.hs,
         server'.stage = "ready" => server.stage = "ready",
         Arriving' = Arriving, Both' => stage' = stage /\ hs' = hs /\ upgraded' = upgraded,
         ~upgraded => recvBuffer' = recvBuffer,
         sent'["down"] = sent["down"], got'["down"] = got["down"]
  PROVE  WholeStream'
<1> SUFFICES ASSUME Both'
             PROVE  WholeStream'
  BY DEF WholeStream
<1>1. Both /\ stage' = stage /\ upgraded' = upgraded
  BY DEF Both
<1>2. PICK rest \in 0 .. 2 :
        /\ Frames(Arriving, rest, Taken, Awaited)
        /\ IF upgraded THEN rest <= 1 ELSE rest >= 1
        /\ stage = "kTransportReady" => rest = 0
        /\ \A i \in 1 .. rest : Arriving[i] = Header(2)[IF upgraded THEN i + 1 ELSE i]
  BY <1>1 DEF WholeStream
<1>3. ~upgraded => recvBuffer = <<>> /\ stage = "kAwaitingServerResponse"
  BY <1>1 DEF WholeStream
<1>4. Taken' = Taken /\ Awaited' = Awaited
  BY <1>1 DEF Taken, Awaited
<1>5. Served
  BY <1>1 DEF Both, ServerShape
<1> QED BY <1>1, <1>2, <1>3, <1>4, <1>5, StreamNext

(* Each step that takes a frame.                                           *)
LEMMA TakenIs ==
  ASSUME Traffic, Take
  PROVE  /\ Len(Arriving') = Len(Arriving) - 2
         /\ \A i \in 1 .. Len(Arriving) - 2 : Arriving'[i] = Arriving[i + 2]
<1> DEFINE S == Pieces(DownMessages)
<1>1. recvBuffer \in Seq(S) /\ down \in Seq(S)
  BY DEF Traffic
<1>2. FrameReady(recvBuffer) /\ recvBuffer' = Consumed(recvBuffer) /\ down' = down
  BY DEF Take
<1> HIDE DEF S
<1>3. /\ recvBuffer' \in Seq(S) /\ Len(recvBuffer') = Len(recvBuffer) - 2
      /\ \A i \in 1 .. Len(recvBuffer) - 2 : recvBuffer'[i] = recvBuffer[i + 2]
      /\ Len(recvBuffer) \in Nat /\ Len(recvBuffer) >= 2 /\ Len(down) \in Nat
  BY <1>1, <1>2, ConsumedIs DEF FrameReady
<1>4. /\ Len(recvBuffer' \o down) = Len(recvBuffer') + Len(down)
      /\ \A i \in 1 .. Len(recvBuffer') + Len(down) :
           (recvBuffer' \o down)[i] = IF i <= Len(recvBuffer') THEN recvBuffer'[i]
                                      ELSE down[i - Len(recvBuffer')]
  BY <1>1, <1>3, ConcatProperties
<1>5. Arriving' = recvBuffer' \o down
  BY <1>2 DEF Arriving
<1>6. Len(Arriving') = Len(Arriving) - 2
  BY <1>3, <1>4, <1>5, ArrivingIs
<1>7. ASSUME NEW i \in 1 .. Len(Arriving) - 2
      PROVE  Arriving'[i] = Arriving[i + 2]
  <2>1. i \in 1 .. Len(recvBuffer') + Len(down) /\ i + 2 \in 1 .. Len(Arriving)
    BY <1>3, <1>7, ArrivingIs
  <2>2. CASE i <= Len(recvBuffer) - 2
    BY <1>3, <1>4, <1>5, <2>1, <2>2, ArrivingIs
  <2>3. CASE i > Len(recvBuffer) - 2
    <3>1. i - Len(recvBuffer') = i + 2 - Len(recvBuffer) /\ ~(i <= Len(recvBuffer'))
          /\ ~(i + 2 <= Len(recvBuffer))
      BY <1>3, <2>3
    <3> QED BY <1>4, <1>5, <2>1, <3>1, ArrivingIs
  <2> QED BY <1>3, <2>2, <2>3
<1> QED BY <1>6, <1>7

LEMMA StreamTaken ==
  ASSUME ServerShape, Traffic, Records, WholeStream, Take, Both, connection' = connection,
         Frames(Arriving, 0, Taken, Awaited), stage' = "kTransportReady",
         Taken' = Taken + 1
  PROVE  WholeStream'
<1>1. server' = server /\ sent' = sent /\ upgraded' = upgraded /\ upgraded
  BY DEF Take
<1>2. Served
  BY DEF Both, ServerShape
<1>3. Taken \in Nat /\ Awaited \in Nat /\ Len(sent["down"]) \in Nat
  BY CountsAre
<1>4. Awaited' = Awaited - 1
  <2>1. Awaited' = Len(sent["down"]) + 1 - Taken' /\ Awaited = Len(sent["down"]) + 1 - Taken
    BY <1>1 DEF Awaited
  <2>2. PICK n \in Nat, m \in Nat : n = Taken /\ m = Len(sent["down"])
    BY <1>3
  <2>3. Taken' = n + 1
    BY <2>2
  <2>4. PICK a, b : a = Awaited /\ b = Awaited'
    OBVIOUS
  <2>5. a = m + 1 - n /\ b = m + 1 - (n + 1)
    BY <2>1, <2>2, <2>3, <2>4
  <2>6. b = a - 1
    BY <2>5
  <2> QED BY <2>4, <2>6
<1>5. Frames(Arriving', 0, Taken', Awaited')
  BY <1>3, <1>4, TakenIs, FramesDrop
<1> QED BY <1>1, <1>2, <1>5, StreamNext

LEMMA WholeStreamKept ==
  ASSUME ServerShape, ClientShape, Order, Traffic, Records, WholeStream,
         serverKey \in StaticKeys, [Next]_vars
  PROVE  WholeStream'
<1>1. ServerShape' /\ Order'
  BY ServerShapeKept, OrderKept
<1>2. /\ Len(recvBuffer) \in Nat /\ Len(down) \in Nat /\ Taken \in Nat /\ Awaited \in Nat
      /\ recvBuffer \in Seq(Pieces(DownMessages)) /\ down \in Seq(Pieces(DownMessages))
  BY ArrivingIs, CountsAre DEF Traffic
<1>3. {sent, got} \subseteq [Directions -> Seq(Nat \ {0})] /\ "up" \in Directions
      /\ "down" \in Directions /\ \A d \in Directions : Numbered(sent[d]) /\ Numbered(got[d])
  BY DEF Records, Directions
<1>4. CASE InitializeIk \/ InitializeIkFails \/ BeginHandshake \/ ConnectFails \/ EncryptFails
           \/ ReceiveFails
  BY <1>4 DEF InitializeIk, InitializeIkFails, BeginHandshake, ConnectFails, EncryptFails,
              ReceiveFails, WholeStream, Both, NobodyThere
<1>5. CASE Connect
  <2>1. stage = "kClientInit" /\ server' = server
    BY <1>5 DEF Connect
  <2>2. server.stage = "absent"
    BY <2>1 DEF Order
  <2> QED BY <2>1, <2>2 DEF WholeStream, Both
<1>6. CASE UpgradeFails \/ HandshakeFails \/ SessionFails \/ ServerLeaves
  <2>1. /\ server' = [server EXCEPT !.stage = "gone"] /\ connection' = connection
        /\ sent' = sent /\ got' = got
    BY <1>6 DEF UpgradeFails, HandshakeFails, SessionFails, ServerLeaves, Close, history
  <2>2. server'.stage \in {server.stage, "gone"} /\ server'.stage = "gone"
    <3>1. server = [stage |-> server.stage, hs |-> server.hs, send |-> server.send,
                    recv |-> server.recv]
      BY ServedIs DEF ServerShape, NobodyThere, Served
    <3> QED BY <2>1, <3>1
  <2> QED BY <2>2 DEF WholeStream, Both
<1>7. CASE UpgradeAnswered
  <2> SUFFICES ASSUME Both'
               PROVE  WholeStream'
    BY DEF WholeStream
  <2>1. /\ ~upgraded /\ upgraded' /\ stage' = stage /\ hs' = hs /\ server' = server
        /\ connection' = connection /\ sent' = sent /\ got' = got
    BY <1>7 DEF UpgradeAnswered, history
  <2>2. PICK n \in 1 .. Len(down) : /\ recvBuffer' = SubSeq(down, 2, n)
                                    /\ down' = SubSeq(down, n + 1, Len(down))
    BY <1>7 DEF UpgradeAnswered
  <2>3. Both
    BY <2>1 DEF Both
  <2>4. recvBuffer = <<>> /\ stage = "kAwaitingServerResponse"
    BY <2>1, <2>3 DEF WholeStream
  <2>5. PICK rest \in 1 .. 2 :
          /\ Frames(Arriving, rest, Taken, Awaited)
          /\ \A i \in 1 .. rest : Arriving[i] = Header(2)[i]
    <3>1. PICK rest \in 0 .. 2 :
            /\ Frames(Arriving, rest, Taken, Awaited) /\ rest >= 1
            /\ \A i \in 1 .. rest : Arriving[i] = Header(2)[i]
      BY <2>1, <2>3 DEF WholeStream
    <3>2. rest \in 1 .. 2
      BY <3>1
    <3> QED BY <3>1, <3>2
  <2>6. Arriving = down
    BY <1>2, <2>4, ConcatEmptySeq DEF Arriving
  <2>7. Arriving' = SubSeq(down, 2, Len(down))
    <3>1. 2 \in 1 .. Len(down) + 1 /\ n \in 2 - 1 .. Len(down) /\ Len(down) \in n .. Len(down)
      BY <1>2, <2>2
    <3>2. SubSeq(down, 2, n) \o SubSeq(down, n + 1, Len(down)) = SubSeq(down, 2, Len(down))
      BY <1>2, <3>1, ConcatAdjacentSubSeq
    <3> QED BY <2>2, <3>2 DEF Arriving
  <2>8. /\ Len(Arriving') = Len(Arriving) - 1
        /\ \A i \in 1 .. Len(Arriving) - 1 : Arriving'[i] = Arriving[i + 1]
    <3>1. Len(down) \in 0 .. Len(down) /\ Len(down) >= 1 /\ 2 \in Nat \ {0}
      BY <1>2, <2>2
    <3> DEFINE t == SubSeq(down, 2, Len(down))
    <3> HIDE DEF t
    <3>2. PICK size \in Nat : size = Len(down)
      BY <1>2
    <3>3. /\ Len(t) = IF 2 <= size THEN size - 2 + 1 ELSE 0
          /\ \A i \in 1 .. size - 2 + 1 : t[i] = down[2 + i - 1]
      BY <1>2, <3>1, <3>2, PartOf DEF t
    <3>4. size - 2 + 1 = size - 1 /\ size >= 1
      BY <3>1, <3>2
    <3>5. ASSUME NEW i \in 1 .. size - 1
          PROVE  t[i] = down[i + 1]
      <4>1. 2 + i - 1 = i + 1
        OBVIOUS
      <4> QED BY <3>3, <3>4, <4>1
    <3>6. Len(t) = size - 1
      BY <3>3, <3>4
    <3> QED BY <2>6, <2>7, <3>2, <3>5, <3>6 DEF t
  <2>9. Taken' = Taken /\ Awaited' = Awaited
    BY <2>1 DEF Taken, Awaited
  <2>10. Frames(Arriving', rest - 1, Taken', Awaited')
    <3>1. rest \in Nat \ {0}
      BY <2>5
    <3> QED BY <1>2, <2>5, <2>8, <2>9, <3>1, FramesShift
  <2>11. \A i \in 1 .. rest - 1 : Arriving'[i] = Header(2)[i + 1]
    <3> SUFFICES ASSUME NEW i \in 1 .. rest - 1
                 PROVE  Arriving'[i] = Header(2)[i + 1]
      OBVIOUS
    <3>1. i + 1 \in 1 .. rest /\ i \in 1 .. Len(Arriving) - 1
      BY <1>2, <2>5 DEF Frames
    <3> QED BY <2>5, <2>8, <3>1
  <2>12. Served /\ rest - 1 \in 0 .. 2 /\ rest - 1 <= 1
    BY <2>3, <2>5 DEF Both, ServerShape
  <2> QED BY <2>1, <2>4, <2>10, <2>11, <2>12, StreamNext
<1>8. CASE Pull
  <2>1. PICK n \in 1 .. Len(down) : /\ recvBuffer' = recvBuffer \o SubSeq(down, 1, n)
                                    /\ down' = SubSeq(down, n + 1, Len(down))
    BY <1>8 DEF Pull
  <2>2. /\ upgraded /\ upgraded' = upgraded /\ stage' = stage /\ hs' = hs /\ server' = server
        /\ connection' = connection /\ sent' = sent /\ got' = got
    BY <1>8 DEF Pull, history
  <2>3. /\ SubSeq(down, 1, n) \in Seq(Pieces(DownMessages))
        /\ SubSeq(down, n + 1, Len(down)) \in Seq(Pieces(DownMessages))
    <3>1. n \in 0 .. Len(down) /\ Len(down) \in 0 .. Len(down) /\ n + 1 \in Nat \ {0}
      BY <1>2, <2>1
    <3> QED BY <1>2, <3>1, PartOf
  <2>4. SubSeq(down, 1, n) \o SubSeq(down, n + 1, Len(down)) = down
    <3>1. 1 \in 1 .. Len(down) + 1 /\ n \in 1 - 1 .. Len(down) /\ Len(down) \in n .. Len(down)
      BY <1>2, <2>1
    <3>2. SubSeq(down, 1, n) \o SubSeq(down, n + 1, Len(down)) = SubSeq(down, 1, Len(down))
      BY <1>2, <3>1, ConcatAdjacentSubSeq
    <3> QED BY <1>2, <3>2, SubSeqFull
  <2>5. Arriving' = Arriving
    <3>1. PICK S, a, b : /\ S = Pieces(DownMessages) /\ a = SubSeq(down, 1, n)
                         /\ b = SubSeq(down, n + 1, Len(down))
      OBVIOUS
    <3>2. recvBuffer \in Seq(S) /\ a \in Seq(S) /\ b \in Seq(S)
      BY <1>2, <2>3, <3>1
    <3>3. (recvBuffer \o a) \o b = recvBuffer \o (a \o b)
      BY <3>2, ConcatAssociative
    <3> QED BY <2>1, <2>4, <3>1, <3>3 DEF Arriving
  <2> QED BY <2>2, <2>5, StreamStays
<1>9. CASE TakeClose
  <2>1. Take /\ Decoded(recvBuffer).type = "close" /\ stage' = stage /\ hs' = hs
    BY <1>9 DEF TakeClose
  <2>2. FrameReady(recvBuffer) /\ server' = server
    BY <2>1 DEF Take
  <2>3. \A j : DownMessage(j).type # "close" /\ Garbage.type # "close"
    BY MessageTypes DEF DownMessage
  <2>4. ~Both
    BY <2>1, <2>2, <2>3, HeadIs
  <2> QED BY <2>1, <2>2, <2>4 DEF WholeStream, Both
<1>10. CASE AcceptHandshakeMessage
  <2>1. /\ Take /\ FrameReady(recvBuffer) /\ stage = "kAwaitingServerResponse"
        /\ stage' = "kTransportReady" /\ hs # NoHandshake
        /\ connection' = connection /\ server' = server /\ got' = got
    BY <1>10 DEF AcceptHandshakeMessage, Acceptable, Take
  <2>2. Decoded(recvBuffer) = Response
    BY <1>10, AcceptedIs
  <2>3. CASE Both
    <3>1. Frames(Arriving, 0, Taken, Awaited)
      BY <2>1, <2>2, <2>3, HeadIs, MessageTypes
    <3>2. Taken' = Taken + 1
      BY <2>1 DEF Taken, Order
    <3> QED BY <2>1, <2>3, <3>1, <3>2, StreamTaken
  <2>4. CASE ~Both
    BY <2>1, <2>4 DEF WholeStream, Both
  <2> QED BY <2>3, <2>4
<1>11. CASE ReceivePlaintext
  <2>1. /\ Take /\ FrameReady(recvBuffer) /\ stage = "kTransportReady" /\ stage' = stage
        /\ hs' = hs /\ connection' = connection /\ server' = server
    BY <1>11 DEF ReceivePlaintext, Take
  <2>2. CASE Both
    <3>1. Frames(Arriving, 0, Taken, Awaited)
      BY <2>1, <2>2, HeadIs
    <3>2. Taken' = Taken + 1
      <4>1. Len(got'["down"]) = Len(got["down"]) + 1
        BY <1>3, <1>11, ReceivedIs, Adds
      <4> QED BY <2>1, <4>1 DEF Taken
    <3> QED BY <2>1, <2>2, <3>1, <3>2, StreamTaken
  <2>3. CASE ~Both
    BY <2>1, <2>3 DEF WholeStream, Both
  <2> QED BY <2>2, <2>3
<1>12. CASE SendPlaintext \/ ServerReads
  <2>1. /\ upgraded' = upgraded /\ stage' = stage /\ hs' = hs /\ connection' = connection
        /\ recvBuffer' = recvBuffer /\ down' = down
    BY <1>12 DEF SendPlaintext, ServerReads, client
  <2>2. sent'["down"] = sent["down"] /\ got'["down"] = got["down"]
    <3>1. CASE SendPlaintext
      BY <1>3, <3>1 DEF SendPlaintext
    <3>2. CASE ServerReads
      BY <1>3, <3>2, ServerReadsIs DEF ServerReads
    <3> QED BY <1>12, <3>1, <3>2
  <2>3. /\ Served => server'.hs = server.hs
        /\ server'.stage = "ready" => server.stage = "ready"
    <3>1. CASE SendPlaintext
      BY <3>1 DEF SendPlaintext
    <3>2. CASE ServerReads
      <4>1. Served /\ server.stage = "ready"
        BY <3>2 DEF ServerReads, ServerShape
      <4>2. server = [stage |-> server.stage, hs |-> server.hs, send |-> server.send,
                      recv |-> server.recv]
        BY <4>1, ServedIs
      <4>3. \/ server' = [server EXCEPT !.stage = "gone"]
            \/ \E c : server' = [server EXCEPT !.recv = c]
        BY <3>2, ServerReadsIs
      <4> QED BY <4>1, <4>2, <4>3
    <3> QED BY <1>12, <3>1, <3>2
  <2>4. Arriving' = Arriving
    BY <2>1 DEF Arriving
  <2> QED BY <2>1, <2>2, <2>3, <2>4, StreamStays
<1>13. CASE ServerAnswers
  <2> SUFFICES ASSUME Both'
               PROVE  WholeStream'
    BY DEF WholeStream
  <2>1. PICK k \in StaticKeys, pieces \in 1 .. 2 :
          \/ /\ server' = [stage |-> "ready", hs |-> ServerDone(k, connection, "COMPLETE"),
                           send |-> [key |-> Transport("two", k), n |-> 0],
                           recv |-> [key |-> Transport("one", k), n |-> 0]]
             /\ down' = Header(pieces) \o Frame(Message("response", SecondMessage(k, connection)))
          \/ server' = [server EXCEPT !.stage = "gone"]
    BY <1>13, AnswerIs
  <2>2. /\ server.stage = "absent" /\ stage' = stage /\ hs' = hs /\ recvBuffer' = recvBuffer
        /\ upgraded' = upgraded /\ connection' = connection /\ sent' = sent /\ got' = got
    BY <1>13 DEF ServerAnswers, client, history
  <2>3. /\ recvBuffer = <<>> /\ ~upgraded /\ ~Served
        /\ sent["down"] = <<>> /\ got["down"] = <<>>
    BY <1>3, <2>2 DEF Order, ServerShape
  <2>4. stage = "kAwaitingServerResponse"
    BY <2>2, <2>3 DEF Both, ClientShape
  <2>5. /\ server' = [stage |-> "ready", hs |-> ServerDone(k, connection, "COMPLETE"),
                      send |-> [key |-> Transport("two", k), n |-> 0],
                      recv |-> [key |-> Transport("one", k), n |-> 0]]
        /\ down' = Header(pieces) \o Frame(Message("response", SecondMessage(k, connection)))
    <3>1. server = [stage |-> server.stage, hs |-> server.hs, send |-> server.send,
                    recv |-> server.recv]
      BY ServedIs DEF ServerShape, NobodyThere, Served
    <3>2. server' # [server EXCEPT !.stage = "gone"]
      BY <3>1 DEF Both
    <3> QED BY <2>1, <3>2
  <2>6. server'.hs = ServerDone(k, connection, "COMPLETE")
    BY <2>5
  <2>7. Served' /\ TheirKey' = k
    BY <2>6, RolesDiffer, DoneFields DEF Served, TheirKey
  <2>8. DownMessage(0)' = Message("response", SecondMessage(k, connection))
    BY <2>2, <2>7 DEF DownMessage, Response
  <2> DEFINE M == {Message("101", <<>>), Garbage, Message("response", SecondMessage(k, connection))}
             m == Message("response", SecondMessage(k, connection))
             f == Frame(m)
             h == Header(pieces)
  <2>9. /\ Message("101", <<>>) \in M /\ Garbage \in M /\ m \in M
    OBVIOUS
  <2> HIDE DEF M, m
  <2>10. /\ f \in Seq(Pieces(M)) /\ Len(f) = 2
         /\ f[1] = [part |-> 1, msg |-> m] /\ f[2] = [part |-> 2, msg |-> m]
    BY <2>9, FrameIs
  <2>11. /\ h \in Seq(Pieces(M)) /\ Len(h) = pieces
         /\ \A i \in 1 .. pieces : h[i] = Header(2)[i]
    BY <2>9, HeaderIs
  <2> HIDE DEF f, h
  <2>12. Arriving' = h \o f
    <3>1. down' \in Seq(Pieces(M)) /\ down' = h \o f
      BY <2>5, <2>10, <2>11, ConcatProperties DEF f, h, m
    <3>2. <<>> \o down' = down'
      BY <3>1, ConcatEmptySeq
    <3> QED BY <2>2, <2>3, <3>1, <3>2 DEF Arriving
  <2>13. /\ Len(h \o f) = pieces + 2
         /\ \A i \in 1 .. pieces + 2 : (h \o f)[i] = IF i <= pieces THEN h[i] ELSE f[i - pieces]
    <3>1. PICK S : S = Pieces(M)
      OBVIOUS
    <3>2. f \in Seq(S) /\ Len(f) = 2 /\ h \in Seq(S) /\ Len(h) = pieces
      BY <2>10, <2>11, <3>1
    <3>3. /\ Len(h \o f) = Len(h) + Len(f)
          /\ \A i \in 1 .. Len(h) + Len(f) :
               (h \o f)[i] = IF i <= Len(h) THEN h[i] ELSE f[i - Len(h)]
      BY <3>2, ConcatProperties
    <3> QED BY <3>2, <3>3
  <2>14. /\ Len(Arriving') = pieces + 2
         /\ Arriving'[pieces + 1] = [part |-> 1, msg |-> m]
         /\ Arriving'[pieces + 2] = [part |-> 2, msg |-> m]
         /\ \A i \in 1 .. pieces : Arriving'[i] = Header(2)[i]
    BY <2>10, <2>11, <2>12, <2>13
  <2>15. Taken' = 0 /\ Awaited' = 1
    BY <2>2, <2>3, <2>4 DEF Taken, Awaited
  <2>16. Frames(Arriving, pieces, Taken, Awaited)'
    <3>1. DownMessage(0 + 0)' = m
      BY <2>8 DEF m
    <3>2. \A j \in 0 .. 1 - 1 : /\ j = 0
                                /\ pieces + 2 * j + 1 = pieces + 1
                                /\ pieces + 2 * j + 2 = pieces + 2
      OBVIOUS
    <3> QED BY <2>14, <2>15, <3>1, <3>2 DEF Frames
  <2> QED BY <2>2, <2>3, <2>4, <2>14, <2>16 DEF WholeStream, Header, Message, Garbage
<1>14. CASE ServerSends
  <2> SUFFICES ASSUME Both'
               PROVE  WholeStream'
    BY DEF WholeStream
  <2>1. /\ Served /\ down' = down \o Frame(Record("two", Len(sent["down"])))
        /\ server' = [server EXCEPT !.send = [key |-> Transport("two", TheirKey),
                                              n |-> Len(sent["down"]) + 1]]
        /\ server.stage = "ready" /\ stage' = stage /\ hs' = hs /\ upgraded' = upgraded
        /\ recvBuffer' = recvBuffer /\ connection' = connection /\ got' = got
        /\ sent' = [sent EXCEPT !["down"] = Append(@, Len(@) + 1)]
    BY <1>14, ServerSendsIs DEF ServerSends, client
  <2>2. Both
    BY <2>1 DEF Both
  <2>3. server'.hs = server.hs
    <3>1. server = [stage |-> server.stage, hs |-> server.hs, send |-> server.send,
                    recv |-> server.recv]
      BY <2>1, ServedIs
    <3> QED BY <2>1, <3>1
  <2>4. Len(sent["down"]) \in Nat /\ Len(sent'["down"]) = Len(sent["down"]) + 1
    BY <1>3, <2>1, Adds
  <2>5. Taken' = Taken /\ Awaited' = Awaited + 1 /\ Taken + Awaited = Len(sent["down"]) + 1
    BY <1>2, <2>1, <2>4, CountsAre DEF Taken, Awaited
  <2> DEFINE m == Record("two", Len(sent["down"]))
             M == DownMessages \cup {m}
             f == Frame(m)
  <2>6. DownMessage(Taken + Awaited) = m
    BY <2>4, <2>5 DEF DownMessage
  <2>7. m \in M /\ DownMessages \subseteq M
    OBVIOUS
  <2> HIDE DEF m, M
  <2>8. /\ f \in Seq(Pieces(M)) /\ Len(f) = 2
        /\ f[1] = [part |-> 1, msg |-> m] /\ f[2] = [part |-> 2, msg |-> m]
    BY <2>7, FrameIs
  <2> HIDE DEF f
  <2>9. Arriving' = Arriving \o f
    <3>1. recvBuffer \in Seq(Pieces(M)) /\ down \in Seq(Pieces(M))
      BY <1>2, <2>7, PiecesGrow
    <3>2. recvBuffer \o (down \o f) = (recvBuffer \o down) \o f
      <4>1. PICK S : S = Pieces(M)
        OBVIOUS
      <4>2. recvBuffer \in Seq(S) /\ down \in Seq(S) /\ f \in Seq(S)
        BY <2>8, <3>1, <4>1
      <4> QED BY <4>2, ConcatAssociative
    <3> QED BY <2>1, <3>2 DEF Arriving, f, m
  <2>10. Arriving \in Seq(Pieces(M)) /\ Len(Arriving) \in Nat
    BY <2>7, ArrivingIs, PiecesGrow
  <2>11. /\ Len(Arriving') = Len(Arriving) + 2
         /\ \A i \in 1 .. Len(Arriving) : Arriving'[i] = Arriving[i]
         /\ Arriving'[Len(Arriving) + 1] = [part |-> 1, msg |-> m]
         /\ Arriving'[Len(Arriving) + 2] = [part |-> 2, msg |-> m]
    <3>1. PICK S : S = Pieces(M)
      OBVIOUS
    <3>2. f \in Seq(S) /\ Arriving \in Seq(S)
      BY <2>8, <2>10, <3>1
    <3>3. /\ Len(Arriving \o f) = Len(Arriving) + Len(f)
          /\ \A i \in 1 .. Len(Arriving) + Len(f) :
               (Arriving \o f)[i] = IF i <= Len(Arriving) THEN Arriving[i]
                                    ELSE f[i - Len(Arriving)]
      BY <3>2, ConcatProperties
    <3> QED BY <2>8, <2>9, <2>10, <3>3
  <2>12. PICK rest \in 0 .. 2 :
           /\ Frames(Arriving, rest, Taken, Awaited)
           /\ IF upgraded THEN rest <= 1 ELSE rest >= 1
           /\ stage = "kTransportReady" => rest = 0
           /\ \A i \in 1 .. rest : Arriving[i] = Header(2)[IF upgraded THEN i + 1 ELSE i]
    BY <2>2 DEF WholeStream
  <2>13. ~upgraded => recvBuffer = <<>> /\ stage = "kAwaitingServerResponse"
    BY <2>2 DEF WholeStream
  <2>14. Frames(Arriving', rest, Taken', Awaited')
    <3>1. rest \in Nat
      BY <2>12
    <3>2. /\ Arriving'[Len(Arriving) + 1] = [part |-> 1, msg |-> DownMessage(Taken + Awaited)]
          /\ Arriving'[Len(Arriving) + 2] = [part |-> 2, msg |-> DownMessage(Taken + Awaited)]
      BY <2>6, <2>11
    <3>3. Frames(Arriving', rest, Taken, Awaited + 1)
      BY <1>2, <2>11, <2>12, <3>1, <3>2, FramesGrow
    <3> QED BY <2>5, <3>3
  <2>15. \A i \in 1 .. rest : Arriving'[i] = Header(2)[IF upgraded' THEN i + 1 ELSE i]
    <3>1. \A i \in 1 .. rest : i \in 1 .. Len(Arriving)
      BY <1>2, <2>12 DEF Frames
    <3> QED BY <2>1, <2>11, <2>12, <3>1
  <2> QED BY <2>1, <2>3, <2>12, <2>13, <2>14, <2>15, StreamNext
<1>15. CASE ServerKeyChanges \/ UNCHANGED vars
  <2>1. /\ server' = server /\ upgraded' = upgraded /\ stage' = stage /\ hs' = hs
        /\ recvBuffer' = recvBuffer /\ down' = down /\ connection' = connection
        /\ sent' = sent /\ got' = got
    BY <1>15 DEF ServerKeyChanges, vars, client, history
  <2>2. Arriving' = Arriving
    BY <2>1 DEF Arriving
  <2> QED BY <2>1, <2>2, StreamStays
<1> QED BY <1>4, <1>5, <1>6, <1>7, <1>8, <1>9, <1>10, <1>11, <1>12, <1>13, <1>14, <1>15 DEF Next

-----------------------------------------------------------------------------
(* The invariant holds.                                                    *)

LEMMA ChannelInvInit == Init => ChannelInv
<1> SUFFICES ASSUME Init
             PROVE  ChannelInv
  OBVIOUS
<1>1. MaxServerKeys \in Nat \ {0} /\ MaxConnections \in Nat \ {0}
  BY ChannelAssumption
<1>2. /\ NobodyThere.stage = "absent" /\ NobodyThere.hs = NoHandshake
      /\ NobodyThere = [NobodyThere EXCEPT !.stage = "absent"]
  BY DEF NobodyThere
<1>3. ServerShape
  BY <1>2 DEF Init, ServerShape, Served
<1>4. ClientShape
  BY DEF Init, ClientShape, Stages
<1>5. \A d \in Directions : sent[d] = <<>> /\ got[d] = <<>>
  BY DEF Init
<1>6. Order
  BY <1>2, <1>5 DEF Init, Order
<1>7. Records
  <2>1. sent \in [Directions -> Seq(Nat \ {0})] /\ got \in [Directions -> Seq(Nat \ {0})]
    BY DEF Init
  <2>2. \A d \in Directions : Len(sent[d]) = 0 /\ Len(got[d]) = 0
    BY <1>5
  <2> QED BY <2>1, <2>2, NonceAssumption DEF Records, Numbered
<1>8. Spendings
  BY DEF Init, Spendings, IsInjective
<1>9. Traffic
  BY DEF Init, Traffic
<1>10. WholeStream
  BY <1>2 DEF Init, WholeStream, Both
<1>11. /\ serverKey \in StaticKeys /\ connection \in 0 .. MaxConnections
       /\ {tls, upgraded} \subseteq BOOLEAN
  <2>1. 1 \in 1 .. MaxServerKeys /\ 0 \in 0 .. MaxConnections
    BY <1>1
  <2> QED BY <2>1 DEF Init, StaticKeys
<1> QED BY <1>3, <1>4, <1>6, <1>7, <1>8, <1>9, <1>10, <1>11 DEF ChannelInv

LEMMA RestKept ==
  ASSUME serverKey \in StaticKeys, connection \in 0 .. MaxConnections,
         {tls, upgraded} \subseteq BOOLEAN, [Next]_vars
  PROVE  /\ serverKey' \in StaticKeys /\ connection' \in 0 .. MaxConnections
         /\ {tls', upgraded'} \subseteq BOOLEAN
<1>1. CASE InitializeIk
  <2>1. /\ connection < MaxConnections /\ connection' = connection + 1
        /\ serverKey' = serverKey /\ tls' = FALSE /\ upgraded' = FALSE
    BY <1>1 DEF InitializeIk
  <2>2. connection' \in 0 .. MaxConnections
    BY <2>1, ChannelAssumption
  <2> QED BY <2>1, <2>2
<1>2. CASE InitializeIkFails \/ BeginHandshake \/ Connect \/ ConnectFails \/ UpgradeAnswered
           \/ Pull \/ EncryptFails \/ SendPlaintext
  BY <1>2 DEF InitializeIkFails, BeginHandshake, Connect, ConnectFails, UpgradeAnswered,
              Pull, EncryptFails, SendPlaintext, history
<1>3. CASE UpgradeFails \/ HandshakeFails \/ SessionFails
  BY <1>3 DEF UpgradeFails, HandshakeFails, SessionFails, Close, history
<1>4. CASE TakeClose \/ AcceptHandshakeMessage \/ ReceivePlaintext \/ ReceiveFails
  BY <1>4 DEF TakeClose, AcceptHandshakeMessage, ReceivePlaintext, ReceiveFails, Take
<1>5. CASE ServerAnswers \/ ServerSends \/ ServerReads \/ ServerLeaves \/ UNCHANGED vars
  BY <1>5 DEF ServerAnswers, ServerSends, ServerReads, ServerLeaves, vars, client, history
<1>6. CASE ServerKeyChanges
  <2>1. /\ serverKey.id < MaxServerKeys /\ serverKey' = StaticKey(serverKey.id + 1)
        /\ connection' = connection /\ tls' = tls /\ upgraded' = upgraded
    BY <1>6 DEF ServerKeyChanges, client, history
  <2>2. PICK n \in 1 .. MaxServerKeys : serverKey = StaticKey(n)
    BY DEF StaticKeys
  <2>3. serverKey.id = n
    BY <2>2 DEF StaticKey
  <2>4. n + 1 \in 1 .. MaxServerKeys
    BY <2>1, <2>3, ChannelAssumption
  <2> QED BY <2>1, <2>3, <2>4 DEF StaticKeys
<1> QED BY <1>1, <1>2, <1>3, <1>4, <1>5, <1>6 DEF Next

LEMMA ChannelInvNext == ChannelInv /\ [Next]_vars => ChannelInv'
<1> SUFFICES ASSUME ChannelInv, [Next]_vars
             PROVE  ChannelInv'
  OBVIOUS
<1> USE DEF ChannelInv
<1>1. connection \in Nat
  BY ChannelAssumption
<1>2. Records'
  BY RecordsKept
<1>3. ServerShape'
  BY ServerShapeKept
<1>4. ClientShape'
  BY ClientShapeKept
<1>5. Order'
  BY OrderKept
<1>6. Traffic'
  BY <1>2, TrafficKept
<1>7. Spendings'
  BY <1>1, SpendingsKept
<1>8. WholeStream'
  BY WholeStreamKept
<1>9. /\ serverKey' \in StaticKeys' /\ connection' \in 0 .. MaxConnections
      /\ {tls', upgraded'} \subseteq BOOLEAN
  BY RestKept DEF StaticKeys
<1> QED BY <1>2, <1>3, <1>4, <1>5, <1>6, <1>7, <1>8, <1>9

LEMMA ChannelInvHolds == Spec => []ChannelInv
<1>1. Init => ChannelInv
  BY ChannelInvInit
<1>2. ChannelInv /\ [Next]_vars => ChannelInv'
  BY ChannelInvNext
<1> QED BY <1>1, <1>2, PTL DEF Spec

-----------------------------------------------------------------------------
(* What the invariant says.                                                *)

LEMMA PartsAre ==
  ASSUME NEW M, NEW s \in Seq(Pieces(M))
  PROVE  \A i \in DOMAIN s : s[i].part \in 0 .. 2
<1>1. \A i \in DOMAIN s : s[i] \in Pieces(M)
  OBVIOUS
<1> QED BY <1>1 DEF Pieces

LEMMA TypesFollow == ChannelInv => TypeOK
<1> SUFFICES ASSUME ChannelInv
             PROVE  TypeOK
  OBVIOUS
<1> USE DEF ChannelInv
<1>1. \A d \in Directions : Len(sent[d]) \in 0 .. NonceLimit /\ Len(got[d]) \in 0 .. NonceLimit
  <2> SUFFICES ASSUME NEW d \in Directions
               PROVE  Len(sent[d]) \in 0 .. NonceLimit /\ Len(got[d]) \in 0 .. NonceLimit
    OBVIOUS
  <2>1. Len(sent[d]) \in Nat /\ Len(got[d]) \in Nat
    BY DEF Records
  <2> QED BY <2>1, NonceAssumption DEF Records
<1>2. NoCipher.n \in 0 .. NonceLimit
  BY NonceAssumption DEF NoCipher, InitKey
<1>3. send.n \in 0 .. NonceLimit /\ recv.n \in 0 .. NonceLimit
  <2>1. CASE send = NoCipher
    BY <1>2, <2>1 DEF ClientShape
  <2>2. CASE send # NoCipher
    <3>1. send.n = Len(sent["up"]) /\ recv.n = Len(got["down"])
      BY <2>2 DEF ClientShape
    <3> QED BY <1>1, <3>1 DEF Directions
  <2> QED BY <2>1, <2>2
<1>4. server.send.n \in 0 .. NonceLimit /\ server.recv.n \in 0 .. NonceLimit
  <2>1. CASE Served
    <3>1. server.send.n = Len(sent["down"]) /\ server.recv.n = Len(got["up"])
      BY <2>1, ServedIs
    <3> QED BY <1>1, <3>1 DEF Directions
  <2>2. CASE ~Served
    <3>1. server.send = NoCipher /\ server.recv = NoCipher
      BY <2>2 DEF ServerShape, NobodyThere
    <3> QED BY <1>2, <3>1
  <2> QED BY <2>1, <2>2
<1>5. \A p \in {recvBuffer, pending, up, down} : \A i \in DOMAIN p : p[i].part \in 0 .. 2
  BY PartsAre DEF Traffic
<1>6. stage \in Stages /\ (hs = NoHandshake \/ hs.role = "INITIATOR")
      /\ server.stage \in {"absent", "ready", "gone"}
  BY DEF ClientShape, ServerShape
<1>7. {sent, got} \subseteq [Directions -> Seq(Nat \ {0})]
  BY DEF Records
<1>8. serverKey \in {StaticKey(k) : k \in 1 .. MaxServerKeys}
  BY DEF StaticKeys
<1> QED BY <1>3, <1>4, <1>5, <1>6, <1>7, <1>8 DEF TypeOK

LEMMA AgreementFollows == ChannelInv => Agreement
<1> SUFFICES ASSUME ChannelInv, send # NoCipher
             PROVE  /\ send.key = server.recv.key /\ recv.key = server.send.key
                    /\ send.key # recv.key
                    /\ hs.h = server.hs.h /\ hs.rs = server.hs.s /\ hs.s = server.hs.rs
  BY DEF Agreement
<1>1. /\ Served /\ hs = ClientDone(TheirKey, connection, "COMPLETE")
      /\ send = [key |-> Transport("one", TheirKey), n |-> Len(sent["up"])]
      /\ recv = [key |-> Transport("two", TheirKey), n |-> Len(got["down"])]
  BY DEF ChannelInv, ClientShape
<1>2. /\ server.hs = ServerDone(TheirKey, connection, "COMPLETE")
      /\ server.send.key = Transport("two", TheirKey)
      /\ server.recv.key = Transport("one", TheirKey)
  BY <1>1, ServedIs DEF ChannelInv
<1>3. send.key = Transport("one", TheirKey) /\ recv.key = Transport("two", TheirKey)
  BY <1>1
<1>4. Transport("one", TheirKey) # Transport("two", TheirKey)
  <2>1. Transport("one", TheirKey).label = "one" /\ Transport("two", TheirKey).label = "two"
    BY DEF Transport, Key
  <2> QED BY <2>1
<1> QED BY <1>1, <1>2, <1>3, <1>4, DoneFields

(* Half of the pieces of the frames, and nothing else, is counted.         *)
LEMMA FramesCounted ==
  ASSUME NEW s, NEW rest \in Nat, NEW first \in Nat, NEW count \in Nat,
         Frames(s, rest, first, count), DOMAIN s = 1 .. Len(s),
         \A i \in 1 .. rest : s[i].msg = Garbage
  PROVE  Cardinality({i \in DOMAIN s : s[i].msg # Garbage}) = 2 * count
<1>1. Len(s) = rest + 2 * count
  BY DEF Frames
<1>2. \A j : DownMessage(j) # Garbage
  BY MessageTypes DEF DownMessage
<1>3. ASSUME NEW i \in rest + 1 .. rest + 2 * count
      PROVE  s[i].msg # Garbage
  <2> DEFINE j == (i - rest - 1) \div 2
  <2>1. j \in 0 .. count - 1 /\ (i = rest + 2 * j + 1 \/ i = rest + 2 * j + 2)
    OBVIOUS
  <2> HIDE DEF j
  <2>2. /\ s[rest + 2 * j + 1] = [part |-> 1, msg |-> DownMessage(first + j)]
        /\ s[rest + 2 * j + 2] = [part |-> 2, msg |-> DownMessage(first + j)]
    BY <2>1 DEF Frames
  <2>3. s[i].msg = DownMessage(first + j)
    BY <2>1, <2>2, SMTT(20)
  <2> QED BY <1>2, <2>3
<1>4. {i \in DOMAIN s : s[i].msg # Garbage} = rest + 1 .. rest + 2 * count
  BY <1>1, <1>3
<1>5. Cardinality(rest + 1 .. rest + 2 * count) = 2 * count
  <2>1. PICK a \in Int : a = rest + 1
    OBVIOUS
  <2>2. PICK b \in Int : b = rest + 2 * count
    OBVIOUS
  <2>3. Cardinality(a .. b) = IF a > b THEN 0 ELSE b - a + 1
    BY FS_Interval
  <2> QED BY <2>1, <2>2, <2>3
<1> QED BY <1>4, <1>5

LEMMA NothingLostFollows == ChannelInv => NothingLost
<1> DEFINE response == IF stage = "kAwaitingServerResponse" THEN 1 ELSE 0
           missing == Len(sent["down"]) - Len(got["down"])
           counted == {i \in DOMAIN Arriving : Arriving[i].msg # Garbage}
<1> SUFFICES ASSUME ChannelInv, upgraded, Both
             PROVE  Cardinality(counted) = 2 * (missing + response)
  BY DEF NothingLost, Both, Arriving
<1>1. PICK rest \in 0 .. 2 :
        /\ Frames(Arriving, rest, Taken, Awaited) /\ rest <= 1
        /\ \A i \in 1 .. rest : Arriving[i] = Header(2)[i + 1]
  BY DEF ChannelInv, WholeStream
<1>2. Taken \in Nat /\ Awaited \in Nat /\ rest \in Nat
  BY CountsAre DEF ChannelInv
<1>3. DOMAIN Arriving = 1 .. Len(Arriving)
  BY ArrivingIs DEF ChannelInv
<1>4. \A i \in 1 .. rest : Arriving[i].msg = Garbage
  <2> DEFINE M == {Message("101", <<>>), Garbage}
  <2>1. Message("101", <<>>) \in M /\ Garbage \in M /\ 2 \in 1 .. 2
    OBVIOUS
  <2> HIDE DEF M
  <2>2. Header(2)[2] = [part |-> 1, msg |-> Garbage]
    BY <2>1, HeaderIs
  <2>3. \A i \in 1 .. rest : i = 1 /\ i + 1 = 2
    BY <1>1
  <2> QED BY <1>1, <2>2, <2>3
<1>5. Awaited = missing + response
  <2>1. Len(sent["down"]) \in Nat /\ Len(got["down"]) \in Nat
    BY CountsAre DEF ChannelInv
  <2>2. CASE stage = "kAwaitingServerResponse"
    <3>1. Len(got["down"]) = 0
      BY <2>2 DEF ChannelInv, Order
    <3> QED BY <2>1, <2>2, <3>1 DEF Awaited, Taken
  <2>3. CASE stage # "kAwaitingServerResponse"
    <3>1. PICK a \in Nat, b \in Nat : a = Len(sent["down"]) /\ b = Len(got["down"])
      BY <2>1
    <3>2. PICK n : n = Awaited
      OBVIOUS
    <3>3. n = a + 1 - (b + 1) /\ response = 0
      BY <2>3, <3>1, <3>2 DEF Awaited, Taken
    <3>4. n = a - b + response
      BY <3>3
    <3> QED BY <3>1, <3>2, <3>4
  <2> QED BY <2>2, <2>3
<1> HIDE DEF missing, response
<1>6. Cardinality(counted) = 2 * Awaited
  BY <1>1, <1>2, <1>3, <1>4, FramesCounted
<1> QED BY <1>5, <1>6

LEMMA PipeInit == Init => Pipe!Init
BY DEF Init, Pipe!Init, Pipe!Empty

LEMMA PipeNext == ChannelInv /\ [Next]_vars => [Pipe!Next]_<<sent, got>>
<1> SUFFICES ASSUME ChannelInv, [Next]_vars
             PROVE  [Pipe!Next]_<<sent, got>>
  OBVIOUS
<1> USE DEF ChannelInv
<1>1. /\ {sent, got} \subseteq [Directions -> Seq(Nat \ {0})] /\ "up" \in Directions
      /\ "down" \in Directions
      /\ \A d \in Directions : Len(sent[d]) \in Nat /\ Len(got[d]) \in Nat
  BY DEF Records, Directions
<1>2. CASE InitializeIk
  BY <1>2 DEF InitializeIk, Pipe!Next, Pipe!StartOver, Pipe!Empty
<1>3. CASE SendPlaintext
  BY <1>1, <1>3 DEF SendPlaintext, Pipe!Next, Pipe!Send
<1>4. CASE ServerSends
  BY <1>1, <1>4 DEF ServerSends, Pipe!Next, Pipe!Send
<1>5. ASSUME NEW d \in Directions, sent' = sent, Len(got[d]) < Len(sent[d]),
             got' = [got EXCEPT ![d] = Append(@, Len(@) + 1)]
      PROVE  Pipe!Next
  <2>1. sent[d][Len(got[d]) + 1] = Len(got[d]) + 1
    <3>1. Len(got[d]) + 1 \in 1 .. Len(sent[d])
      BY <1>1, <1>5
    <3> QED BY <3>1 DEF Records, Numbered
  <2>2. got' = [got EXCEPT ![d] = Append(@, sent[d][Len(@) + 1])]
    BY <1>5, <2>1
  <2> QED BY <1>5, <2>2 DEF Pipe!Next, Pipe!Deliver
<1>6. CASE ReceivePlaintext
  BY <1>1, <1>5, <1>6, ReceivedIs DEF ReceivePlaintext, Take
<1>7. CASE ServerReads
  <2>1. sent' = sent
    BY <1>7 DEF ServerReads
  <2>2. CASE got' = got
    BY <2>1, <2>2
  <2>3. CASE /\ got' = [got EXCEPT !["up"] = Append(@, Len(@) + 1)]
             /\ Len(got["up"]) < Len(sent["up"])
    BY <1>1, <1>5, <2>1, <2>3
  <2> QED BY <1>7, <2>2, <2>3, ServerReadsIs
<1>8. CASE sent' = sent /\ got' = got
  BY <1>8
<1> QED BY <1>2, <1>3, <1>4, <1>6, <1>7, <1>8, WhoRecords

-----------------------------------------------------------------------------
(* Every variable keeps to its type; the nonces never pass their limit.    *)
THEOREM TypeCorrect == Spec => []TypeOK
<1>1. ChannelInv => TypeOK
  BY TypesFollow
<1> QED BY <1>1, ChannelInvHolds, PTL

(* NoiseSession never encrypts twice with one key and nonce: not when a    *)
(* write fails after the nonce was used, not in a handshake begun anew with*)
(* the same static keys, and not when the nonces run out.                  *)
THEOREM NonceUsedOnce == Spec => []NonceOnce
<1>1. ChannelInv => NonceOnce
  BY DEF ChannelInv, Spendings, NonceOnce
<1> QED BY <1>1, ChannelInvHolds, PTL

(* Where accept_handshake_message and split_transport succeed, the server  *)
(* holds the same transport keys crosswise, has hashed the same handshake  *)
(* and knows this end's key, whatever key the server had before.           *)
THEOREM EndsAgree == Spec => []Agreement
<1>1. ChannelInv => Agreement
  BY AgreementFollows
<1> QED BY <1>1, ChannelInvHolds, PTL

(* read_raw loses nothing of what perform_http_upgrade_ read too much, nor *)
(* of a frame within which a read timed out.                               *)
THEOREM RecordsArriveWhole == Spec => []NothingLost
<1>1. ChannelInv => NothingLost
  BY NothingLostFollows
<1> QED BY <1>1, ChannelInvHolds, PTL

(* The channel is a pipe of records in each direction: every step sends one*)
(* record, hands over the next one, starts over, or does not show.         *)
THEOREM ChannelIsPipe == Spec => ImplementsPipe
<1>1. Init => Pipe!Init
  BY PipeInit
<1>2. ChannelInv /\ [Next]_vars => [Pipe!Next]_<<sent, got>>
  BY PipeNext
<1> QED BY <1>1, <1>2, ChannelInvHolds, PTL DEF Spec, ImplementsPipe, Pipe!Spec
=============================================================================
