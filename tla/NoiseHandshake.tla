---------------------------- MODULE NoiseHandshake ----------------------------
(***************************************************************************)
(* What the Noise library (noise/src/protocol) computes for the one        *)
(* protocol this component asks it for, Noise_IK_25519_ChaChaPoly_BLAKE2s: *)
(* CipherState, SymmetricState and HandshakeState as values, and a function*)
(* for each call.                                                          *)
(*                                                                         *)
(* The algorithms are symbols.  A hash is the sequence of what was hashed, *)
(* a chaining key the sequence of the secrets mixed into it, a key pair    *)
(* one value that stands for both halves, a shared secret the pair of the  *)
(* keys it comes from, and a ciphertext a record that only the same key,   *)
(* nonce and associated data open.                                         *)
(***************************************************************************)
EXTENDS Integers, Sequences

CONSTANT NonceLimit \* 2^64 - 1, the nonce that is never used

ASSUME NonceAssumption == NonceLimit \in Nat \ {0}

None == [owner |-> "nobody", kind |-> "none", id |-> 0]
Secret(mine, theirs) == {mine, theirs}

(* The keys hkdf derives from one chaining key, told apart by their label. *)
Key(label, ck) == [label |-> label, ck |-> ck]
NoKey == Key("none", <<>>)

Fails(err)   == err # "NONE"
-----------------------------------------------------------------------------
(* CipherState.                                                            *)

InitKey(key) == [key |-> key, n |-> 0]
HasKey(cipher) == cipher.key # NoKey

Seal(cipher, ad, plain) ==
  [key |-> cipher.key, n |-> cipher.n, ad |-> ad, plain |-> plain]

(* Mutant: the last nonce is used too.                                     *)
EncryptWithAd_NoLimit(cipher, ad, plain) ==
  IF ~HasKey(cipher) THEN [cipher |-> cipher, text |-> plain, err |-> "NONE"]
  ELSE [cipher |-> [cipher EXCEPT !.n = @ + 1],
        text |-> Seal(cipher, ad, plain), err |-> "NONE"]

(* noise_cipherstate_encrypt_with_ad: without a key the text stays as it   *)
(* is, and the last nonce is never used.                                   *)
EncryptWithAd(cipher, ad, plain) ==
  IF ~HasKey(cipher) THEN [cipher |-> cipher, text |-> plain, err |-> "NONE"]
  ELSE IF cipher.n = NonceLimit
    THEN [cipher |-> cipher, text |-> plain, err |-> "INVALID_NONCE"]
    ELSE [cipher |-> [cipher EXCEPT !.n = @ + 1],
          text |-> Seal(cipher, ad, plain), err |-> "NONE"]

(* Mutant: any text of the right key is accepted, whatever its nonce.      *)
DecryptWithAd_AnyNonce(cipher, ad, text) ==
  IF ~HasKey(cipher) THEN [cipher |-> cipher, plain |-> text, err |-> "NONE"]
  ELSE IF text = Seal([cipher EXCEPT !.n = text.n], ad, text.plain)
    THEN [cipher |-> [cipher EXCEPT !.n = @ + 1], plain |-> text.plain, err |-> "NONE"]
    ELSE [cipher |-> cipher, plain |-> text, err |-> "MAC_FAILURE"]

(* noise_cipherstate_decrypt_with_ad: a text that does not open leaves the *)
(* nonce where it is.                                                      *)
DecryptWithAd(cipher, ad, text) ==
  IF ~HasKey(cipher) THEN [cipher |-> cipher, plain |-> text, err |-> "NONE"]
  ELSE IF cipher.n = NonceLimit
    THEN [cipher |-> cipher, plain |-> text, err |-> "INVALID_NONCE"]
  ELSE IF text = Seal(cipher, ad, text.plain)
    THEN [cipher |-> [cipher EXCEPT !.n = @ + 1], plain |-> text.plain, err |-> "NONE"]
    ELSE [cipher |-> cipher, plain |-> text, err |-> "MAC_FAILURE"]
-----------------------------------------------------------------------------
(* SymmetricState, as the fields h, ck and cipher of a handshake.          *)

MixHash(hs, data) == [hs EXCEPT !.h = Append(@, data)]

MixKey(hs, secret) ==
  LET ck == Append(hs.ck, secret)
  IN  [hs EXCEPT !.ck = ck, !.cipher = InitKey(Key("handshake", ck))]

EncryptAndHash(hs, plain) ==
  LET r == EncryptWithAd(hs.cipher, hs.h, plain)
  IN  IF Fails(r.err) THEN [hs |-> hs, text |-> plain, err |-> r.err]
      ELSE [hs |-> MixHash([hs EXCEPT !.cipher = r.cipher], r.text),
            text |-> r.text, err |-> "NONE"]

(* What is hashed is the ciphertext, and only if it opens.                 *)
DecryptAndHash(hs, text) ==
  LET r == DecryptWithAd(hs.cipher, hs.h, text)
  IN  IF Fails(r.err) THEN [hs |-> hs, plain |-> text, err |-> r.err]
      ELSE [hs |-> MixHash([hs EXCEPT !.cipher = r.cipher], text),
            plain |-> r.plain, err |-> "NONE"]
-----------------------------------------------------------------------------
(* HandshakeState.                                                         *)

(* noise_pattern_IK, as noise_pattern_expand copies it.                    *)
PatternIK == <<"e", "es", "s", "ss", "flip", "e", "ee", "se", "end">>

(* Both ends begin with the name of the protocol.                          *)
ProtocolName == [protocol |-> "Noise_IK_25519_ChaChaPoly_BLAKE2s"]

(* noise_handshakestate_new and set_prologue.  The requirements of IK: the *)
(* initiator needs its own static key and the responder's, the responder   *)
(* its own.                                                                *)
NewHandshake(role) ==
  [role |-> role, action |-> "NONE", tokens |-> PatternIK,
   h |-> <<ProtocolName>>, ck |-> <<>>, cipher |-> InitKey(NoKey),
   s |-> None, e |-> None, rs |-> None, re |-> None]

(* noise_handshakestate_start: the prologue and the static key that the    *)
(* responder has been known by before are hashed.                          *)
Start(hs) ==
  LET known == IF hs.role = "INITIATOR" THEN hs.rs ELSE hs.s
      err == CASE hs.action # "NONE" -> "INVALID_STATE"
               [] hs.s = None -> "LOCAL_KEY_REQUIRED"
               [] known = None -> "REMOTE_KEY_REQUIRED"
               [] OTHER -> "NONE"
  IN  IF Fails(err) THEN [hs |-> hs, err |-> err]
      ELSE [hs |-> [MixHash(MixHash(hs, [prologue |-> "Tailscale Control Protocol v1"]), known)
                      EXCEPT !.action = IF hs.role = "INITIATOR"
                                          THEN "WRITE_MESSAGE" ELSE "READ_MESSAGE"],
            err |-> "NONE"]

(* The first letter of a token is the initiator's key, the second the      *)
(* responder's.  Without a key pair of one's own there is no secret.       *)
MixDH(hs, token) ==
  LET first  == token \in {"es", "ee"}
      second == token \in {"se", "ee"}
      own    == IF hs.role = "INITIATOR" THEN first ELSE second
      other  == IF hs.role = "INITIATOR" THEN second ELSE first
      mine   == IF own THEN hs.e ELSE hs.s
      theirs == IF other THEN hs.re ELSE hs.rs
  IN  [hs |-> MixKey(hs, Secret(mine, theirs)),
       err |-> IF mine = None THEN "INVALID_PRIVATE_KEY" ELSE "NONE"]

(* The tokens of the message at hand, and what is left after them.         *)
MessageLength(tokens) ==
  CHOOSE n \in 0 .. Len(tokens) - 1 :
    /\ tokens[n + 1] \in {"flip", "end"}
    /\ \A i \in 1 .. n : tokens[i] \notin {"flip", "end"}
MessageTokens(hs) == SubSeq(hs.tokens, 1, MessageLength(hs.tokens))

(* After the last token: the direction flips, or the pattern has ended and *)
(* stays at its end.                                                       *)
Turned(hs, next) ==
  LET n == MessageLength(hs.tokens) + 1
      ends == hs.tokens[n] = "end"
  IN  [hs EXCEPT !.tokens = SubSeq(@, IF ends THEN n ELSE n + 1, Len(@)),
                 !.action = IF ends THEN "SPLIT" ELSE next]

(* One token of noise_handshakestate_write; acc is the handshake, what has *)
(* been written and the first error.  New is the ephemeral key generated.  *)
WriteToken(acc, token, new) ==
  IF Fails(acc.err) THEN acc
  ELSE CASE token = "e" ->
              [hs |-> MixHash([acc.hs EXCEPT !.e = new], new),
               out |-> Append(acc.out, new), err |-> "NONE"]
         [] token = "s" ->
              LET r == EncryptAndHash(acc.hs, acc.hs.s)
              IN  [hs |-> r.hs, out |-> Append(acc.out, r.text), err |-> r.err]
         [] OTHER ->
              LET r == MixDH(acc.hs, token)
              IN  [hs |-> r.hs, out |-> acc.out, err |-> r.err]

(* The loop over the tokens of a message.                                  *)
WriteTokens(acc, tokens, new) ==
  LET after[i \in 0 .. Len(tokens)] ==
        IF i = 0 THEN acc ELSE WriteToken(after[i - 1], tokens[i], new)
  IN  after[Len(tokens)]

(* noise_handshakestate_write_message with an empty payload.               *)
WriteMessage(hs, new) ==
  IF hs.action # "WRITE_MESSAGE" THEN [hs |-> hs, out |-> <<>>, err |-> "INVALID_STATE"]
  ELSE LET t == WriteTokens([hs |-> hs, out |-> <<>>, err |-> "NONE"], MessageTokens(hs), new)
           p == EncryptAndHash(t.hs, None)
           err == IF Fails(t.err) THEN t.err ELSE p.err
       IN  IF Fails(err)
             THEN [hs |-> [t.hs EXCEPT !.action = "FAILED"], out |-> <<>>, err |-> err]
             ELSE [hs |-> Turned(p.hs, "READ_MESSAGE"),
                   out |-> Append(t.out, p.text), err |-> "NONE"]

(* One token of noise_handshakestate_read; acc.in is what is left to read. *)
ReadToken(acc, token) ==
  IF Fails(acc.err) THEN acc
  ELSE CASE token \in {"e", "s"} /\ acc.in = <<>> ->
              [acc EXCEPT !.err = "INVALID_LENGTH"]
         [] token = "e" /\ acc.in # <<>> ->
              [hs |-> [MixHash(acc.hs, Head(acc.in)) EXCEPT !.re = Head(acc.in)],
               in |-> Tail(acc.in), err |-> "NONE"]
         [] token = "s" /\ acc.in # <<>> ->
              LET r == DecryptAndHash(acc.hs, Head(acc.in))
              IN  [hs |-> IF Fails(r.err) THEN r.hs ELSE [r.hs EXCEPT !.rs = r.plain],
                   in |-> Tail(acc.in), err |-> r.err]
         [] OTHER ->
              LET r == MixDH(acc.hs, token)
              IN  [hs |-> r.hs, in |-> acc.in, err |-> r.err]

ReadTokens(acc, tokens) ==
  LET after[i \in 0 .. Len(tokens)] ==
        IF i = 0 THEN acc ELSE ReadToken(after[i - 1], tokens[i])
  IN  after[Len(tokens)]

(* noise_handshakestate_read_message: what is left after the tokens is the *)
(* payload, and the whole of it has to open.                               *)
ReadMessage(hs, message) ==
  IF hs.action # "READ_MESSAGE" THEN [hs |-> hs, err |-> "INVALID_STATE"]
  ELSE LET t == ReadTokens([hs |-> hs, in |-> message, err |-> "NONE"], MessageTokens(hs))
           err == IF Fails(t.err) THEN t.err
                  ELSE IF Len(t.in) # 1 THEN "MAC_FAILURE"
                  ELSE DecryptAndHash(t.hs, t.in[1]).err
       IN  IF Fails(err) THEN [hs |-> [t.hs EXCEPT !.action = "FAILED"], err |-> err]
           ELSE [hs |-> Turned(DecryptAndHash(t.hs, t.in[1]).hs, "WRITE_MESSAGE"),
                 err |-> "NONE"]

(* Mutant: both ends take the two ciphers in the same order.               *)
SplitKeys_NotSwapped(hs) ==
  [hs   |-> [hs EXCEPT !.action = "COMPLETE"],
   send |-> InitKey(Key("one", hs.ck)), recv |-> InitKey(Key("two", hs.ck))]

(* noise_handshakestate_split, when the action is SPLIT: the first key is  *)
(* the initiator's to send with.                                           *)
SplitKeys(hs) ==
  LET c1 == InitKey(Key("one", hs.ck))
      c2 == InitKey(Key("two", hs.ck))
      first == hs.role = "INITIATOR"
  IN  [hs   |-> [hs EXCEPT !.action = "COMPLETE"],
       send |-> IF first THEN c1 ELSE c2,
       recv |-> IF first THEN c2 ELSE c1]
=============================================================================
