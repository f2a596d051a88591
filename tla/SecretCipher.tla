------------------------------ MODULE SecretCipher ------------------------------
(***************************************************************************)
(* Encryption at rest of secret columns (platform/secretcipher).  A stored *)
(* value is a text and the key it was sealed with, NoKey for plaintext.    *)
(***************************************************************************)
CONSTANTS Keys,    \* values SECRETS_ENCRYPTION_KEY can take, NoKey for unset
          NoKey,
          Blank    \* the empty text

Sealed(Texts) == [text : Texts, key : Keys]

Plain(text) == [text |-> text, key |-> NoKey]

\* Without a key, or on the empty text, encryption does nothing.
Encrypt(text, key) ==
  IF key = NoKey \/ text = Blank THEN Plain(text) ELSE [text |-> text, key |-> key]

\* Plaintext passes; ciphertext opens with the key that sealed it alone.
Decrypts(stored, key) == stored.key \in {NoKey, key}
Decrypt(stored, key)  == IF Decrypts(stored, key) THEN stored.text ELSE Blank
=============================================================================
