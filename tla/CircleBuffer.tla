---------------------------- MODULE CircleBuffer ----------------------------
(***************************************************************************)
(* The two copy routines of src/ip_stack.c over the ring buffers of a      *)
(* connection.  A ring of size n is a function on 0 .. n-1; "& mask" is    *)
(* "% n", because every ring of the program has a power-of-two size and    *)
(* mask = n - 1.  A plain C buffer of len bytes is a function on           *)
(* 0 .. len-1, indexed from 0 as in the code.                              *)
(*                                                                         *)
(* The callers pass the copied length also as the size of the plain        *)
(* buffer, so the routines' check of the length against that size never    *)
(* rejects and is not a parameter here.                                    *)
(***************************************************************************)
EXTENDS Integers

(* The early returns: longer than the mask, or nothing to copy.            *)
Copies(n, len) == len > 0 /\ len <= n - 1

(* copy_to_circle_buffer: one memcpy when the range does not wrap, two     *)
(* (len1 bytes to the end of the ring, the rest from its start) when it    *)
(* does.                                                                   *)
CopyTo(dest, n, start, source, len) ==
  LET mask_start == start % n
      mask_end   == (start + len - 1) % n
      len1       == n - mask_start
  IN  IF ~Copies(n, len)
      THEN dest
      ELSE IF mask_start <= mask_end
      THEN [i \in 0 .. n-1 |->
              IF mask_start <= i /\ i < mask_start + len
              THEN source[i - mask_start] ELSE dest[i]]
      ELSE [i \in 0 .. n-1 |->
              IF mask_start <= i THEN source[i - mask_start]
              ELSE IF i < len - len1 THEN source[len1 + i]
              ELSE dest[i]]

(* copy_from_circle_buffer: the bytes written to the start of the plain    *)
(* buffer, none when the routine returns early.                            *)
CopyFrom(source, n, start, len) ==
  LET mask_start == start % n
      mask_end   == (start + len - 1) % n
      len1       == n - mask_start
  IN  IF ~Copies(n, len)
      THEN [k \in {} |-> source[0]]
      ELSE IF mask_start <= mask_end
      THEN [k \in 0 .. len-1 |-> source[mask_start + k]]
      ELSE [k \in 0 .. len-1 |->
              IF k < len1 THEN source[mask_start + k] ELSE source[k - len1]]

=============================================================================
