------------------------------ MODULE Strings -------------------------------
(***************************************************************************)
(* The functions of lib/string.c on one piece of memory: strings that end  *)
(* at a null byte, blocks that overlap, and a tokenizer.                   *)
(*                                                                         *)
(* mem maps addresses 0, 1, ... to bytes; its last byte is a null, so that *)
(* every string ends.  A string argument is its address, an operator with  *)
(* the name of a function yields the memory after the call or the value it *)
(* returns, or a record of both.                                           *)
(***************************************************************************)
EXTENDS Integers, Sequences, SequencesExt, FiniteSets, FiniteSetsExt

CONSTANTS
  Size,  \* the size of mem
  Char   \* the characters other than the null

VARIABLES
  mem,
  save_ptr,   \* the tokenizer's position, or NULL before the first call
  delimiters, \* the set of characters of its second argument
  tokens,     \* history: the tokens it returned
  text        \* history: the string it was started on

vars == <<mem, save_ptr, delimiters, tokens, text>>

NULL == -1
nul == 0
Addr == 0 .. Size - 1
Ptr(addrs) == IF addrs = {} THEN NULL ELSE Min(addrs)

(* The characters of the string at address s, from the bytes up to its     *)
(* null: what the loops "*s != '\0'; s++" go through.                      *)
strlen(m, s) == Min({k \in 0 .. Size - 1 - s : m[s + k] = nul})
Str(m, s) == [k \in 1 .. strlen(m, s) |-> m[s + k - 1]]
strnlen(m, s, maxlen) == Min({strlen(m, s), maxlen})

memset(m, dst, value, size) == [a \in Addr |-> IF a \in dst .. dst + size - 1 THEN value ELSE m[a]]

(* Byte by byte, upwards.                                                  *)
RECURSIVE memcpy(_, _, _, _)
memcpy(m, dst, src, size) ==
  IF size = 0 THEN m ELSE memcpy([m EXCEPT ![dst] = m[src]], dst + 1, src + 1, size - 1)

RECURSIVE CopyDown(_, _, _, _)
CopyDown(m, dst, src, size) ==
  IF size = 0 THEN m
  ELSE CopyDown([m EXCEPT ![dst + size - 1] = m[src + size - 1]], dst, src, size - 1)

(* The copy upwards leaves dst, which is returned, at the block's end.     *)
memmove(m, dst, src, size) ==
  IF dst < src THEN [mem |-> memcpy(m, dst, src, size), ret |-> dst + size]
  ELSE [mem |-> CopyDown(m, dst, src, size), ret |-> dst]

memcmp(m, a, b, size) ==
  LET differ == {k \in 0 .. size - 1 : m[a + k] # m[b + k]}
  IN  IF differ = {} THEN 0 ELSE IF m[a + Min(differ)] > m[b + Min(differ)] THEN 1 ELSE -1

(* The loop of strcmp() stops where the strings differ or both end.        *)
RECURSIVE strcmp(_, _, _)
strcmp(m, a, b) ==
  IF m[a] # nul /\ m[a] = m[b] THEN strcmp(m, a + 1, b + 1)
  ELSE IF m[a] < m[b] THEN -1 ELSE IF m[a] > m[b] THEN 1 ELSE 0

memchr(m, block, ch, size) == Ptr({a \in block .. block + size - 1 : m[a] = ch})
strchr(m, s, c) == Ptr({a \in s .. s + strlen(m, s) : m[a] = c})
strrchr(m, s, c) ==
  LET found == {a \in s .. s + strlen(m, s) - 1 : m[a] = c}
  IN  IF found = {} THEN NULL ELSE Max(found)
strcspn(m, s, stop) ==
  Min({k \in 0 .. strlen(m, s) : m[s + k] = nul \/ strchr(m, stop, m[s + k]) # NULL})
strspn(m, s, skip) ==
  Min({k \in 0 .. strlen(m, s) : m[s + k] = nul \/ strchr(m, skip, m[s + k]) = NULL})
strpbrk(m, s, stop) ==
  LET k == strcspn(m, s, stop) IN IF m[s + k] = nul THEN NULL ELSE s + k

strstr(m, haystack, needle) ==
  LET spare == strlen(m, haystack) - strlen(m, needle)
  IN  Ptr({haystack + i : i \in {i \in 0 .. spare :
                                   memcmp(m, haystack + i, needle, strlen(m, needle)) = 0}})

strlcpy(m, dst, src, size) ==
  LET dst_len == Min({size - 1, strlen(m, src)})
  IN  [mem |-> IF size > 0 THEN [memcpy(m, dst, src, dst_len) EXCEPT ![dst + dst_len] = nul] ELSE m,
       ret |-> strlen(m, src)]

strlcat(m, dst, src, size) ==
  LET dst_len == strlen(m, dst)
      copy_cnt == Min({size - dst_len - 1, strlen(m, src)})
  IN  [mem |-> IF size > 0 /\ dst_len < size
               THEN [memcpy(m, dst + dst_len, src, copy_cnt) EXCEPT ![dst + dst_len + copy_cnt] = nul]
               ELSE m,
       ret |-> strlen(m, src) + dst_len]

-----------------------------------------------------------------------------
Init ==
  /\ mem \in {m \in [Addr -> Char \cup {nul}] : m[Size - 1] = nul}
  /\ save_ptr = NULL
  /\ delimiters \in SUBSET Char
  /\ tokens = << >>
  /\ text = Str(mem, 0)

(* strchr(delimiters, c) is nonnull for the null byte too.                 *)
Delimits(c) == c \in delimiters \cup {nul}

(* strtok_r(), on the string at address 0 and then on NULL.  The caller    *)
(* stops when it gets NULL.                                                *)
strtok_r ==
  LET from  == IF save_ptr = NULL THEN 0 ELSE save_ptr
      token == Min({a \in from .. Size - 1 : ~Delimits(mem[a]) \/ mem[a] = nul})
      end   == Min({a \in token .. Size - 1 : Delimits(mem[a])})
  IN  /\ NULL \notin ToSet(tokens)
      /\ IF mem[token] = nul
         THEN /\ save_ptr' = token
              /\ tokens' = Append(tokens, NULL)
              /\ UNCHANGED mem
         ELSE /\ save_ptr' = IF mem[end] # nul THEN end + 1 ELSE end
              /\ mem' = [mem EXCEPT ![end] = nul]
              /\ tokens' = Append(tokens, token)
      /\ UNCHANGED <<text, delimiters>>

(* The tokenizer is started again, on what it left of the string.          *)
Restart ==
  /\ NULL \in ToSet(tokens)
  /\ save_ptr' = NULL /\ tokens' = << >> /\ text' = Str(mem, 0)
  /\ UNCHANGED <<mem, delimiters>>

Next == strtok_r \/ Restart

Spec == Init /\ [][Next]_vars

-----------------------------------------------------------------------------
(* memmove() copies the block as it was before the call, however source    *)
(* and destination overlap, and returns its destination when it copies     *)
(* downwards, the block's end otherwise.  strlcpy() and strlcat() stay     *)
(* within SIZE bytes of their destination, leave a terminated string there *)
(* that is as much of the result as fits, and return the length of the     *)
(* whole result; but strlcat() writes nothing, not even a null, when the   *)
(* destination has none in its first SIZE bytes.  strstr(), strcmp(),      *)
(* strspn() and strpbrk() agree with the strings as sequences.             *)
StringsExact ==
  /\ \A dst, src \in Addr, size \in 0 .. Size :
       dst + size <= Size /\ src + size <= Size =>
         LET r == memmove(mem, dst, src, size)
         IN  /\ r.mem = [a \in Addr |-> IF a \in dst .. dst + size - 1 THEN mem[src + (a - dst)]
                                        ELSE mem[a]]
             /\ r.ret = dst <=> dst >= src \/ size = 0
  /\ \A dst, src \in Addr, size \in 0 .. Size :
       LET s == Str(mem, src)
           m == strlcpy(mem, dst, src, size)
           c == strlcat(mem, dst, src, size)
           whole == Str(mem, dst) \o s
           apart == src + Len(s) < dst \/ dst + size <= src
           kept(m2) == \A a \in Addr \ (dst .. dst + size - 1) : m2[a] = mem[a]
       IN  dst + size <= Size /\ apart =>
             /\ kept(m.mem) /\ m.ret = Len(s)
             /\ size > 0 => Str(m.mem, dst) = SubSeq(s, 1, Min({Len(s), size - 1}))
             /\ kept(c.mem) /\ c.ret = Len(whole)
             /\ IF strlen(mem, dst) < size
                THEN Str(c.mem, dst) = SubSeq(whole, 1, Min({Len(whole), size - 1}))
                ELSE c.mem = mem
  /\ \A a, b \in Addr :
       LET s == Str(mem, a)
           t == Str(mem, b)
           at(i) == i + Len(t) <= Len(s) /\ \A k \in 1 .. Len(t) : s[i + k] = t[k]
           found == strstr(mem, a, b)
       IN  /\ strcmp(mem, a, b) = 0 <=> s = t
           /\ IF \E i \in 0 .. Len(s) : at(i)
              THEN at(found - a) /\ \A i \in 0 .. found - a - 1 : ~at(i)
              ELSE found = NULL
           /\ strspn(mem, a, b) = Len(s) <=> ToSet(s) \subseteq ToSet(t)
           /\ strpbrk(mem, a, b) = NULL <=> ToSet(s) \cap ToSet(t) = {}

(* Called until it returns NULL, strtok_r() returns the maximal runs of    *)
(* characters that are not delimiters, in order, each once, and no empty   *)
(* token: the tokens stay whole although the string is cut up.             *)
TokensExact ==
  tokens # << >> /\ Last(tokens) = NULL =>
    LET in(k) == k \in DOMAIN text /\ text[k] \notin delimiters
        starts == SetToSortSeq({k \in DOMAIN text : in(k) /\ ~in(k - 1)}, <)
        run(k) == SubSeq(text, k, Min({j \in k .. Len(text) : ~in(j + 1)}))
    IN  [i \in 1 .. Len(tokens) - 1 |-> Str(mem, tokens[i])] = [i \in DOMAIN starts |-> run(starts[i])]

=============================================================================
