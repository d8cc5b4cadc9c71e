SPECIFICATION Spec
CONSTANTS
  Products = {"mug", "lamp", "pen"}
  NoProduct = "none"
  Catalogue <- MCCatalogue
  SkuOf <- MCSkuOf
  NoVal = "any"
  MediaOf <- MCMediaOf
  NoPicture = "none"
  Bought = {"mug"}
  Users = {"ann", "root"}
  NoUser = "nobody"
  Admins = {"root"}
  MaxRetries = 1
  Addresses = {"home", "work"}
  Codes = {"C1", "C2"}
  Texts = {"", "po"}
  Short = {""}
  MatchOf <- MCMatchOf
  MaxPanels = 1
  Platforms <- MCPlatforms
  Categories = {3, 9, 22}
  GalleryRows <- MCGalleryRows
  UploadRow = "materials"
  NoVideo = 0
  MaxAdded = 3
  MaxToasts = 6
  Notices <- MCNotices
  Slots = {1, 2}
  Skus = {"mug", "lamp"}
  MaxQty = 2
  MyCoupons = {"five"}
  NoCoupon = "no coupon"
  MaxAttempts = 3
  MaxCalls <- MCCalls
  MaxOps <- MCOps
  MaxEvents <- MCEvents
INVARIANTS PagesOfOneFilter DetailIsOpened NoItemTwice  OneRefreshForAll
CHECK_DEADLOCK FALSE
