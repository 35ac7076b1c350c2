---------------------------- MODULE LockProtocol ----------------------------
(***************************************************************************)
(* What a decrypted keypad frame asks for (lock_protocol.cpp): a function  *)
(* of its bytes.                                                           *)
(***************************************************************************)
EXTENDS Integers, Sequences

Byte == 0 .. 255

FrameLock == <<15, 78, 1, 3, 0, 0, 0, 0>>
FrameAction == <<15, 78, 1, 3>>
FrameStatePollPrefix == <<15, 79, 129>>
FrameDoorbell == <<1, 3>>

\* The layout of an unlock frame, with positions counted from 1.
UnlockMethodAt == 5
UnlockMarkerAt == 6
UnlockIndexAt == 7
UnlockMarker == 128
UnlockIndexBase == 10

\* A state poll ends in a suffix of the keypad's model; an unlock frame may be longer
\* than what is read of it.
IsLockFrame(bytes) == bytes = FrameLock
IsStatePoll(bytes) == Len(bytes) = 4 /\ SubSeq(bytes, 1, 3) = FrameStatePollPrefix
IsDoorbell(bytes) == bytes = FrameDoorbell
IsUnlockFrame(bytes) ==
  /\ Len(bytes) >= 8 /\ SubSeq(bytes, 1, 4) = FrameAction
  /\ bytes[UnlockMarkerAt] = UnlockMarker

\* decode_lock_command.  No frame is of two types, so the order of the tests in the
\* code does not matter.
Type(bytes) ==
  CASE IsLockFrame(bytes) -> "LOCK"
    [] IsStatePoll(bytes) -> "STATE_POLL"
    [] IsDoorbell(bytes) -> "DOORBELL"
    [] IsUnlockFrame(bytes) -> "UNLOCK"
    [] OTHER -> "UNKNOWN"

Types == {"LOCK", "UNLOCK", "STATE_POLL", "DOORBELL", "UNKNOWN"}

Unbiased(index) == IF index >= UnlockIndexBase THEN index - UnlockIndexBase ELSE index

\* DecodedCommand: method 0 is UNKNOWN, index -1 none.
Decode(bytes) ==
  IF Type(bytes) = "UNLOCK"
  THEN [type |-> "UNLOCK", method |-> bytes[UnlockMethodAt],
        credential_index |-> Unbiased(bytes[UnlockIndexAt])]
  ELSE [type |-> Type(bytes), method |-> 0, credential_index |-> -1]
=============================================================================
