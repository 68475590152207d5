---------------------------- MODULE ClientHello ----------------------------
(***************************************************************************)
(* The ClientHello that pqcscan sends for one group (pqcscan/src/tls.rs,   *)
(* Extension and ClientHelloBuilder), as lengths: what each length field   *)
(* says and how many bytes follow it. Lengths are computed on u16, which   *)
(* wraps in a release build; the bytes are in a Vec and do not.            *)
(***************************************************************************)
EXTENDS Naturals

CONSTANTS
    NumCiphers,  \* cipher suites in the database
    NumSchemes,  \* signature schemes in the database
    MaxHost      \* the longest host name a resolver accepts

ASSUME HelloAssumption ==
    /\ NumCiphers \in Nat
    /\ NumSchemes \in Nat
    /\ MaxHost \in Nat
    /\ 158 + 2 * NumCiphers + 2 * NumSchemes + MaxHost < 65536

U16(n) == n % 65536

\* An extension has its length, the bytes of its payload, and, in the payload,
\* the length of the list it holds and the bytes of that list.
Extension(type, ext_len, size, list_len, list) ==
    [ext_type |-> type, ext_len |-> ext_len, size |-> size,
     list_len |-> list_len, list |-> list]

\* a payload of a u16 length and the list it is the length of
Listing(type, list_len, list) == Extension(type, list + 2, list + 2, list_len, list)

\* one name: a type byte, its u16 length and its bytes
server_name(hblen) == Listing(0, U16(hblen + 3), 1 + 2 + hblen)
supported_versions == Extension(43, 3, 3, 2, 2)
record_size_limit == Extension(28, 2, 2, 0, 0)
supported_groups(num) == Listing(10, U16(2 * num), 2 * num)
signature_algorithms == Listing(13, U16(2 * NumSchemes), 2 * NumSchemes)
empty_extension(type) == Extension(type, 0, 0, 0, 0)
compress_certificate == Extension(27, 7, 7, 6, 6)
renegotiation_info == Extension(65281, 1, 1, 0, 0)
ec_point_formats == Extension(11, 2, 2, 1, 1)
status_request == Extension(5, 5, 5, 0, 0)

\* no key share is offered: a server that wants the group has to ask for one
key_share == Listing(51, 0, 0)

Honest(e) == e.ext_len = e.size /\ e.list_len = e.list

\* What a quantity becomes that starts at 0 and changes with each extension
\* that tls_connect_with_group adds to the builder, in its order
AddAll(add(_, _), hblen) ==
    LET b1 == add(0, server_name(hblen))
        b2 == add(b1, supported_versions)
        b3 == add(b2, signature_algorithms)
        b4 == add(b3, status_request)
        b5 == add(b4, supported_groups(1))
        b6 == add(b5, key_share)
        b7 == add(b6, record_size_limit)
        b8 == add(b7, empty_extension(18))
        b9 == add(b8, empty_extension(23))
        b10 == add(b9, compress_certificate)
        b11 == add(b10, renegotiation_info)
    IN  add(b11, ec_point_formats)

add_extension_payloadOnly(extensions_len, e) == U16(extensions_len + e.ext_len)

\* extensions_len of the builder, the bytes into_buf writes for the extensions,
\* and how many extensions have a length that is not right
add_extension(extensions_len, e) == U16(extensions_len + e.ext_len + 4)
WriteExtension(bytes, e) == bytes + 4 + e.size
CountWrong(wrong, e) == IF Honest(e) THEN wrong ELSE wrong + 1

\* into_buf: version, random, session id, cipher suites, compression methods
\* and extensions, and the headers before them
into_buf(hblen) ==
    LET bytes == AddAll(WriteExtension, hblen)
        buf == 2 + 32 + 1 + 32 + 2 + 2 * NumCiphers + 1 + 1 + 2 + bytes
    IN  [record_len |-> U16(buf + 4), record |-> 4 + buf,
         handshake_len |-> U16(buf), handshake |-> buf,
         ciphers_len |-> U16(2 * NumCiphers), ciphers |-> 2 * NumCiphers,
         extensions_len |-> AddAll(add_extension, hblen), extensions |-> bytes,
         wrong |-> AddAll(CountWrong, hblen)]

\* A parser that trusts the lengths finds the end of the hello, of its lists
\* and of each extension where they are.
Exact(hello) ==
    /\ hello.record_len = hello.record
    /\ hello.handshake_len = hello.handshake
    /\ hello.ciphers_len = hello.ciphers
    /\ hello.extensions_len = hello.extensions
    /\ hello.wrong = 0
=============================================================================
