\* Three commands at a time, three uploads for two slots.
CONSTANTS
    h1 = h1  h2 = h2  h3 = h3  u1 = u1  u2 = u2  u3 = u3
    None = None
    Handlers = {h1, h2, h3}
    Uploads = {u1, u2, u3}
    Slots = 2
SPECIFICATION Spec
INVARIANTS CacheIsBounded BorrowedIsKept WithdrawnIsImported
PROPERTIES CommittedIsClosed ParserIsFreed
